---------------------------- MODULE ChatGateProofs ----------------------------
(***************************************************************************)
(* What ChatGate guarantees for every value of its bounds, by two          *)
(* inductive invariants.                                                   *)
(*                                                                         *)
(* IInv, for the gate: a chat that waits for the send lock holds a ticket, *)
(* and as long as the ticket's generation is still the gate's, the gate    *)
(* has stayed open since the user pressed send.                            *)
(*                                                                         *)
(* FInv, for delivery: a chat is in one place at a time, the ticket of a   *)
(* sender or one direction of one connection, and the delivery table has a *)
(* slot for whatever is on the wire of a usable connection; so an          *)
(* acknowledgement that arrives there names a chat of this session that    *)
(* the peer displayed, and nothing under way touches a status that is      *)
(* final.                                                                  *)
(***************************************************************************)
EXTENDS ChatGate, SequenceTheorems, TLAPS

(* Places a coroutine or the gate points at exist.                            *)
PlacesOK ==
    /\ state \in {"VERIFYING", "ACTIVE", "RECONNECTING"} => connection \in Conns
    /\ \A w \in Writers : writer[w] # "idle" => wconn[w] \in Conns
    /\ reader.on => reader.conn \in Conns
    /\ writer["chat"] # "idle" => ticket.msg \in 1 .. submitted

(* An unchanged generation means an unbroken approval, for the chat on its    *)
(* way out and for every slot of the delivery table.                          *)
TicketOK ==
    writer["chat"] # "idle" =>
        /\ ticket.session = session /\ ticket.gen <= generation
        /\ ticket.gen = generation =>
              state = "ACTIVE" /\ approval = born[ticket.msg]

(* A slot of the present generation is of an approval that still holds.       *)
SlotsOK ==
    /\ SlotsAreOfThisGate
    /\ \A m \in deliveries :
          /\ m <= submitted /\ slotGen[m] <= generation
          /\ slotGen[m] = generation => state = "ACTIVE" /\ approval = born[m]

(* What was written, was written under the approval it was submitted under.   *)
HistoryOK ==
    /\ state = "ACTIVE" => approval # 0
    /\ \A p \in written : p[1] <= submitted
    /\ WrittenUnderItsApproval

IInv == TypeOK /\ PlacesOK /\ TicketOK /\ SlotsOK /\ HistoryOK

(* The invariant holds initially: nothing has been sent.                      *)
LEMMA InitIInv == Init => IInv
<1> SUFFICES ASSUME Init PROVE IInv
  OBVIOUS
<1> USE BoundsAssumption DEF Init
<1>1. GateTypeOK
  BY DEF GateTypeOK, State, Conns
<1>2. SendTypeOK
  BY DEF SendTypeOK, Writers, NoTicket, NoReader
<1>3. LogTypeOK
  BY DEF LogTypeOK, Status, Chats
<1>4. PeerTypeOK
  BY DEF PeerTypeOK, Chats
<1>5. HistTypeOK
  BY DEF HistTypeOK, Chats
<1>6. PlacesOK /\ TicketOK /\ SlotsOK /\ HistoryOK
  BY DEF PlacesOK, TicketOK, SlotsOK, HistoryOK, SlotsAreOfThisGate,
         WrittenUnderItsApproval, NoReader, Writers
<1> QED BY <1>1, <1>2, <1>3, <1>4, <1>5, <1>6 DEF IInv, TypeOK

(* What a transition does to the pair state, generation.                      *)
LEMMA TransitionOK ==
  ASSUME GateTypeOK, NEW to \in State, Transition(to)
  PROVE  /\ state' \in State /\ generation' \in Nat /\ generation <= generation'
         /\ generation' = generation => state' \in {state, "ACTIVE"}
BY DEF GateTypeOK, Transition, Generation

(* Entering and leaving send keeps every other coroutine where it was.        *)
LEMMA JoinSendOK ==
  ASSUME SendTypeOK, NEW w \in Writers, NEW c \in Conns, JoinSend(w, c)
  PROVE  /\ ahead' \in SUBSET (Writers \X Writers)
         /\ writer' \in [Writers -> {"idle", "waiting", "draining"}]
         /\ wconn' \in [Writers -> 0 .. MaxConns]
         /\ writer'[w] = "waiting" /\ wconn'[w] = c
         /\ \A v \in Writers \ {w} : writer'[v] = writer[v] /\ wconn'[v] = wconn[v]
<1>1. ahead' \in SUBSET (Writers \X Writers)
  BY DEF SendTypeOK, JoinSend
<1>2. QED
  BY <1>1, BoundsAssumption DEF SendTypeOK, JoinSend, Conns

LEMMA LeaveSendOK ==
  ASSUME SendTypeOK, NEW ws, LeaveSend(ws)
  PROVE  /\ reader' \in {reader, NoReader} => SendTypeOK'
         /\ \A v \in Writers : writer'[v] # "idle" =>
               v \notin ws /\ writer[v] # "idle" /\ wconn'[v] = wconn[v]
         /\ writer'["chat"] # "idle" => ticket' = ticket
<1>1. ahead' \in SUBSET (Writers \X Writers)
  BY DEF SendTypeOK, LeaveSend
<1>2. /\ writer' \in [Writers -> {"idle", "waiting", "draining"}]
      /\ wconn' \in [Writers -> 0 .. MaxConns]
      /\ ticket' \in [msg : 0 .. MaxChats, gen : Nat, session : Nat]
  BY BoundsAssumption DEF SendTypeOK, LeaveSend, NoTicket
<1>3. NoReader \in [on : BOOLEAN, conn : 0 .. MaxConns, gen : Nat]
  BY BoundsAssumption DEF NoReader
<1>4. reader' \in {reader, NoReader} => SendTypeOK'
  BY <1>1, <1>2, <1>3 DEF SendTypeOK
<1> QED BY <1>4 DEF SendTypeOK, LeaveSend, Writers

LEMMA CloseConnectionOK ==
  ASSUME GateTypeOK, NEW links \in [Conns -> BOOLEAN]
  PROVE  CloseConnection(links) \in [Conns -> BOOLEAN]
BY DEF CloseConnection

LEMMA FailDeliveriesOK ==
  ASSUME LogTypeOK, FailDeliveries
  PROVE  status' \in [Chats -> Status] /\ deliveries' = {}
BY DEF LogTypeOK, FailDeliveries, Status

(* restrict ends the session, and an unchanged generation means it already    *)
(* had ended.                                                                 *)
LEMMA RestrictionOK ==
  ASSUME GateTypeOK, LogTypeOK, NEW links \in [Conns -> BOOLEAN], Restriction(links)
  PROVE  /\ state' \in {"RESTRICTED", "CLOSED"} /\ generation' \in Nat
         /\ generation <= generation'
         /\ generation' = generation => state' = state
         /\ open' \in [Conns -> BOOLEAN]
         /\ status' \in [Chats -> Status] /\ deliveries' = {}
<1>1. open' \in [Conns -> BOOLEAN]
  BY CloseConnectionOK DEF Restriction
<1>2. status' \in [Chats -> Status] /\ deliveries' = {}
  BY FailDeliveriesOK DEF Restriction
<1>3. CASE state \in {"RESTRICTED", "CLOSED"}
  BY <1>1, <1>2, <1>3 DEF Restriction, GateTypeOK
<1>4. CASE state \notin {"RESTRICTED", "CLOSED"}
  BY <1>1, <1>2, <1>4 DEF Restriction, GateTypeOK, Transition, Generation
<1> QED BY <1>3, <1>4

(* An exception in the reader either restricts or leaves the gate alone.      *)
LEMMA ReaderRaisesOK ==
  ASSUME GateTypeOK, LogTypeOK, NEW links \in [Conns -> BOOLEAN], ReaderRaises(links)
  PROVE  /\ reader' = NoReader /\ open' \in [Conns -> BOOLEAN]
         /\ \/ UNCHANGED <<state, generation, status, deliveries>>
            \/ /\ state' \in {"RESTRICTED", "CLOSED"} /\ generation' \in Nat
               /\ generation <= generation'
               /\ generation' = generation => state' = state
               /\ status' \in [Chats -> Status] /\ deliveries' = {}
<1>1. CASE Restriction(links)
  BY <1>1, RestrictionOK DEF ReaderRaises
<1>2. CASE ~Restriction(links)
  BY <1>2 DEF ReaderRaises
<1> QED BY <1>1, <1>2

(* The approval a ticket or a slot stands for survives a step in which an     *)
(* unchanged generation leaves an open gate open under the same approval.     *)
GateKept ==
    /\ generation \in Nat /\ generation' \in Nat /\ generation <= generation'
    /\ session' = session
    /\ generation' = generation /\ state = "ACTIVE"
          => state' = "ACTIVE" /\ approval' = approval

LEMMA TicketKept ==
  ASSUME TicketOK, PlacesOK, SendTypeOK, GateKept,
         writer'["chat"] # "idle" => writer["chat"] # "idle" /\ ticket' = ticket,
         \A m \in 1 .. submitted : born'[m] = born[m]
  PROVE  TicketOK'
<1> SUFFICES ASSUME writer'["chat"] # "idle" PROVE TicketOK'
  BY DEF TicketOK
<1>1. ticket' = ticket /\ ticket.msg \in 1 .. submitted /\ ticket.gen \in Nat
  BY DEF PlacesOK, SendTypeOK
<1> QED BY <1>1 DEF TicketOK, GateKept

LEMMA SlotsKept ==
  ASSUME SlotsOK, LogTypeOK, GateKept, deliveries' \in SUBSET deliveries,
         slotGen' = slotGen, submitted' = submitted, born' = born,
         deliveries' # {} => state' \in {"ACTIVE", "VERIFYING"}
  PROVE  SlotsOK'
<1>1. \A m \in deliveries : slotGen[m] \in Nat
  BY DEF LogTypeOK
<1> QED BY <1>1 DEF SlotsOK, SlotsAreOfThisGate, GateKept

LEMMA HistoryKept ==
  ASSUME HistoryOK, UNCHANGED <<written, born, submitted>>,
         state' = "ACTIVE" => approval' # 0
  PROVE  HistoryOK'
BY DEF HistoryOK, WrittenUnderItsApproval

(* No coroutine moves to another place in send, none starts to.               *)
LEMMA PlacesKept ==
  ASSUME PlacesOK, UNCHANGED <<connection, submitted>>,
         state' \in {"VERIFYING", "ACTIVE", "RECONNECTING"}
            => state \in {"VERIFYING", "ACTIVE", "RECONNECTING"},
         \A w \in Writers : writer'[w] # "idle"
            => writer[w] # "idle" /\ wconn'[w] = wconn[w],
         writer'["chat"] # "idle" => ticket' = ticket,
         reader'.on => reader.on /\ reader'.conn = reader.conn
  PROVE  PlacesOK'
BY DEF PlacesOK, Writers

(* A step in which coroutines may leave send and the reader may stop, but     *)
(* nothing enters send, is written, or is attached.                           *)
LEMMA NoEntryOK ==
  ASSUME IInv, TypeOK', GateKept,
         UNCHANGED <<connection, submitted, slotGen, written, born>>,
         state' \in {"VERIFYING", "ACTIVE", "RECONNECTING"}
            => state \in {"VERIFYING", "ACTIVE", "RECONNECTING"},
         state' = "ACTIVE" => approval' # 0,
         \A w \in Writers : writer'[w] # "idle"
            => writer[w] # "idle" /\ wconn'[w] = wconn[w],
         writer'["chat"] # "idle" => ticket' = ticket,
         reader'.on => reader.on /\ reader'.conn = reader.conn,
         deliveries' \in SUBSET deliveries,
         deliveries' # {} => state' \in {"ACTIVE", "VERIFYING"}
  PROVE  IInv'
<1> USE DEF IInv, TypeOK
<1>1. TicketOK'
  <2>1. writer'["chat"] # "idle" => writer["chat"] # "idle" /\ ticket' = ticket
    BY DEF Writers
  <2> QED BY <2>1, TicketKept
<1>2. SlotsOK'
  BY SlotsKept
<1>3. HistoryOK'
  BY HistoryKept
<1>4. PlacesOK'
  BY PlacesKept
<1> QED BY <1>1, <1>2, <1>3, <1>4

(* Leaving send is such a step whichever coroutine leaves and however its     *)
(* caller takes the exception.                                                *)
LEMMA SendRaisesOK ==
  ASSUME IInv, NEW w \in Writers, NEW links \in [Conns -> BOOLEAN],
         writer[w] # "idle", SendRaises(w, links)
  PROVE  IInv'
<1> USE DEF IInv, TypeOK
<1>1. LeaveSend({w}) /\ UNCHANGED <<connection, session, conns, closing, submitted,
                                    slotGen, peerVars, cancels, histVars>>
  BY DEF SendRaises
<1>2. reader' \in {reader, NoReader} => SendTypeOK'
  BY <1>1, LeaveSendOK
<1>3. PeerTypeOK' /\ HistTypeOK'
  BY <1>1 DEF PeerTypeOK, HistTypeOK, peerVars, histVars
<1>4. CASE w = "chat"
  <2>1. /\ status' = [status EXCEPT ![ticket.msg] = "not delivered"]
        /\ deliveries' = deliveries \ {ticket.msg} /\ open' = links
        /\ UNCHANGED <<state, generation, reader>>
    BY <1>4 DEF SendRaises
  <2>2. GateTypeOK' /\ LogTypeOK'
    BY <1>1, <2>1 DEF GateTypeOK, LogTypeOK, Status
  <2>3. UNCHANGED <<state, generation, session, approval>> /\ generation \in Nat
    BY <1>1, <2>1 DEF GateTypeOK, histVars
  <2>4. GateKept
    BY <2>3 DEF GateKept
  <2> QED BY <1>1, <1>2, <1>3, <2>1, <2>2, <2>4, LeaveSendOK, NoEntryOK
             DEF SlotsOK, SlotsAreOfThisGate, HistoryOK, histVars
<1>5. CASE w = "reader"
  <2>1. ReaderRaises(links)
    BY <1>5 DEF SendRaises
  <2>2. GateTypeOK' /\ LogTypeOK'
    BY <1>1, <2>1, ReaderRaisesOK DEF GateTypeOK, LogTypeOK, State
  <2>3. GateKept
    BY <1>1, <2>1, ReaderRaisesOK DEF GateKept, GateTypeOK, histVars
  <2> QED BY <1>1, <1>2, <1>3, <2>1, <2>2, <2>3, ReaderRaisesOK, LeaveSendOK, NoEntryOK
             DEF SlotsOK, SlotsAreOfThisGate, HistoryOK, histVars, NoReader
<1>6. CASE w = "task"
  <2>1. Restriction(links) /\ UNCHANGED reader
    BY <1>6 DEF SendRaises
  <2>2. GateTypeOK' /\ LogTypeOK'
    BY <1>1, <2>1, RestrictionOK DEF GateTypeOK, LogTypeOK, State
  <2>3. GateKept
    BY <1>1, <2>1, RestrictionOK DEF GateKept, GateTypeOK, histVars
  <2> QED BY <1>1, <1>2, <1>3, <2>1, <2>2, <2>3, RestrictionOK, LeaveSendOK, NoEntryOK
             DEF SlotsOK, SlotsAreOfThisGate, HistoryOK, histVars
<1> QED BY <1>4, <1>5, <1>6 DEF Writers

(* The user presses send: a new ticket and a new slot, both of the approval   *)
(* under which the gate is open now.                                          *)
LEMMA SendChatOK == ASSUME IInv, SendChat PROVE IInv'
<1> USE DEF IInv, TypeOK
<1> DEFINE m == submitted + 1
<1>0. m \in Chats /\ submitted \in Nat /\ m \notin 1 .. submitted
  <2>1. submitted < MaxChats
    BY DEF SendChat
  <2>2. submitted \in 0 .. MaxChats
    BY DEF LogTypeOK
  <2> QED BY <2>1, <2>2, BoundsAssumption DEF Chats
<1>1. /\ submitted' = m /\ state = "ACTIVE" /\ connection \in Conns
      /\ born' = [born EXCEPT ![m] = approval]
      /\ slotGen' = [slotGen EXCEPT ![m] = generation]
      /\ UNCHANGED <<gateVars, open, reader, peerVars, cancels, approval,
                     written, badAck>>
  BY DEF SendChat, PlacesOK
<1>2. GateTypeOK' /\ PeerTypeOK'
  BY <1>0, <1>1 DEF GateTypeOK, PeerTypeOK, gateVars, peerVars
<1>3. HistTypeOK'
  BY <1>0, <1>1 DEF HistTypeOK
<1>4. HistoryOK'
  <2>1. ASSUME NEW p \in written PROVE p[1] <= submitted' /\ born'[p[1]] = born[p[1]]
    BY <1>0, <1>1 DEF HistoryOK, HistTypeOK, Chats
  <2> QED BY <1>0, <1>1, <2>1 DEF HistoryOK, WrittenUnderItsApproval, gateVars
<1>5. CASE open[connection]
  <2>1. /\ status' = [status EXCEPT ![m] = "sending"]
        /\ deliveries' = deliveries \cup {m}
        /\ ticket' = [msg |-> m, gen |-> generation, session |-> session]
        /\ JoinSend("chat", connection)
    BY <1>5 DEF SendChat
  <2>2. SendTypeOK'
    <3>1. ticket' \in [msg : 0 .. MaxChats, gen : Nat, session : Nat]
      BY <1>0, <1>1, <2>1, BoundsAssumption DEF GateTypeOK, Chats
    <3> QED BY <1>0, <1>1, <2>1, <3>1, JoinSendOK DEF SendTypeOK, Writers
  <2>3. LogTypeOK'
    <3>1. generation \in Nat /\ submitted' \in 0 .. MaxChats
      BY <1>0, <1>1, BoundsAssumption DEF GateTypeOK, Chats
    <3> QED BY <1>0, <1>1, <2>1, <3>1 DEF LogTypeOK, Status
  <2>4. PlacesOK'
    BY <1>0, <1>1, <2>1, JoinSendOK DEF PlacesOK, gateVars, Writers
  <2>5. TicketOK'
    BY <1>0, <1>1, <2>1 DEF TicketOK, gateVars, GateTypeOK, HistTypeOK
  <2>6. SlotsOK'
    BY <1>0, <1>1, <2>1 DEF SlotsOK, SlotsAreOfThisGate, gateVars, GateTypeOK,
                      LogTypeOK, HistTypeOK, Chats
  <2> QED BY <1>2, <1>3, <1>4, <2>2, <2>3, <2>4, <2>5, <2>6
<1>6. CASE ~open[connection]
  <2>1. /\ status' = [status EXCEPT ![m] = "not delivered"]
        /\ UNCHANGED <<deliveries, sendVars>>
    BY <1>6 DEF SendChat
  <2>2. SendTypeOK'
    BY <1>0, <1>1, <2>1 DEF SendTypeOK, sendVars
  <2>3. LogTypeOK'
    <3>1. generation \in Nat /\ submitted' \in 0 .. MaxChats
      BY <1>0, <1>1, BoundsAssumption DEF GateTypeOK, Chats
    <3> QED BY <1>0, <1>1, <2>1, <3>1 DEF LogTypeOK, Status
  <2>4. PlacesOK'
    <3>1. writer["chat"] = "idle"
      BY DEF SendChat
    <3> QED BY <1>1, <2>1, <3>1 DEF PlacesOK, gateVars, sendVars
  <2>5. TicketOK'
    BY <1>0, <1>1, <2>1 DEF TicketOK, PlacesOK, SendChat, gateVars, sendVars
  <2>6. SlotsOK'
    <3>1. ASSUME NEW d \in deliveries
          PROVE  d <= submitted' /\ slotGen'[d] = slotGen[d] /\ born'[d] = born[d]
      BY <1>0, <1>1 DEF SlotsOK, LogTypeOK, HistTypeOK, Chats
    <3> QED BY <1>1, <2>1, <3>1 DEF SlotsOK, SlotsAreOfThisGate, gateVars
  <2> QED BY <1>2, <1>3, <1>4, <2>2, <2>3, <2>4, <2>5, <2>6
<1> QED BY <1>5, <1>6

(* The write boundary: permitted has just found the ticket still valid.       *)
LEMMA WriteFrameOK == ASSUME IInv, NEW w \in Writers, WriteFrame(w) PROVE IInv'
<1> USE DEF IInv, TypeOK
<1>1. /\ writer[w] = "waiting" /\ MayWrite(w)
      /\ writer' = [writer EXCEPT ![w] = "draining"]
      /\ UNCHANGED <<gateVars, open, ahead, wconn, ticket, reader, logVars, inbox,
                     peerChats, shown, cancels, approval, born, badAck>>
  BY DEF WriteFrame
<1>2. GateTypeOK' /\ LogTypeOK' /\ SendTypeOK'
  BY <1>1 DEF GateTypeOK, LogTypeOK, SendTypeOK, gateVars, logVars
<1>3. PlacesOK' /\ TicketOK' /\ SlotsOK'
  BY <1>1 DEF PlacesOK, TicketOK, SlotsOK, SlotsAreOfThisGate, gateVars, logVars,
              SendTypeOK, Writers
<1>4. CASE w = "chat"
  <2>1. /\ buffer' = [buffer EXCEPT ![wconn[w]] = Append(@, ticket.msg)]
        /\ written' = written \cup {<<ticket.msg, IF state = "ACTIVE" THEN approval ELSE 0>>}
        /\ wconn[w] \in Conns
    BY <1>1, <1>4 DEF WriteFrame, PlacesOK
  <2>0. ticket.msg \in Chats /\ ticket.msg <= submitted
    BY <1>1, <1>4, BoundsAssumption DEF PlacesOK, LogTypeOK, Chats
  <2>2. PeerTypeOK'
    BY <1>1, <2>0, <2>1 DEF PeerTypeOK
  <2>3. state = "ACTIVE" /\ approval # 0 /\ approval = born[ticket.msg]
    BY <1>1, <1>4 DEF MayWrite, Permitted, TicketOK, HistoryOK
  <2>4. written' = written \cup {<<ticket.msg, approval>>}
    BY <2>1, <2>3
  <2>5. HistTypeOK'
    BY <1>1, <2>0, <2>4 DEF HistTypeOK
  <2>6. HistoryOK'
    BY <1>1, <2>0, <2>3, <2>4 DEF HistoryOK, WrittenUnderItsApproval, gateVars, logVars
  <2> QED BY <1>2, <1>3, <2>2, <2>5, <2>6
<1>5. CASE w # "chat"
  <2>1. UNCHANGED <<buffer, written>>
    BY <1>5 DEF WriteFrame
  <2>2. PeerTypeOK' /\ HistTypeOK'
    BY <1>1, <2>1 DEF PeerTypeOK, HistTypeOK
  <2>3. HistoryOK'
    BY <1>1, <2>1 DEF HistoryOK, WrittenUnderItsApproval, gateVars, logVars
  <2> QED BY <1>2, <1>3, <2>2, <2>3
<1> QED BY <1>4, <1>5

(* The reader takes a frame: an acknowledgement, or a chat to acknowledge.    *)
LEMMA ReceiveOK == ASSUME IInv, Receive PROVE IInv'
<1> USE DEF IInv, TypeOK
<1>1. /\ reader.on /\ writer["reader"] = "idle" /\ reader.conn \in Conns
      /\ inbox[reader.conn] # <<>>
      /\ inbox' = [inbox EXCEPT ![reader.conn] = Tail(@)]
      /\ UNCHANGED <<connection, session, conns, closing, submitted, slotGen,
                     buffer, peerChats, shown, cancels, approval, born, written>>
  BY DEF Receive, Reading, PlacesOK
<1>0. Head(inbox[reader.conn]) \in 0 .. MaxChats
      /\ Tail(inbox[reader.conn]) \in Seq(0 .. MaxChats)
  <2>1. inbox[reader.conn] \in Seq(0 .. MaxChats)
    BY <1>1 DEF PeerTypeOK
  <2> QED BY <1>1, <2>1, HeadTailProperties
<1>2. PeerTypeOK'
  BY <1>1, <1>0 DEF PeerTypeOK
<1>3. ASSUME ReaderLoops \/ reader' \in {reader, NoReader}, UNCHANGED <<ahead, writer, wconn, ticket>>
      PROVE  SendTypeOK' /\ (reader'.on => reader.on /\ reader'.conn = reader.conn)
  <2>1. generation \in Nat /\ NoReader \in [on : BOOLEAN, conn : 0 .. MaxConns, gen : Nat]
    BY BoundsAssumption DEF GateTypeOK, NoReader
  <2>2. reader' \in [on : BOOLEAN, conn : 0 .. MaxConns, gen : Nat]
    BY <1>3, <2>1 DEF SendTypeOK, ReaderLoops
  <2>3. reader'.on => reader.on /\ reader'.conn = reader.conn
    BY <1>1, <1>3 DEF SendTypeOK, ReaderLoops, NoReader
  <2> QED BY <1>3, <2>2, <2>3 DEF SendTypeOK
<1>4. CASE \E m \in Chats : HandleAck(m)
  <2>1. PICK m \in Chats : HandleAck(m)
    BY <1>4
  <2>2. /\ deliveries' = deliveries \ {m} /\ status' = [status EXCEPT ![m] = Acknowledged(m)]
        /\ ReaderLoops /\ UNCHANGED <<state, generation, open, badAck>>
        /\ UNCHANGED <<ahead, writer, wconn, ticket>>
    BY <2>1 DEF HandleAck, sendVars
  <2>3. GateTypeOK' /\ LogTypeOK' /\ HistTypeOK'
    BY <1>1, <2>2 DEF GateTypeOK, LogTypeOK, HistTypeOK, Acknowledged, Status
  <2>4. GateKept
    BY <1>1, <2>2 DEF GateKept, GateTypeOK
  <2> QED BY <1>1, <1>2, <1>3, <2>2, <2>3, <2>4, NoEntryOK
             DEF SlotsOK, SlotsAreOfThisGate, HistoryOK
<1>5. CASE \E m \in Chats : HandleUnknownAck(m)
  <2>1. /\ badAck' \in BOOLEAN /\ ReaderRaises(open)
        /\ UNCHANGED <<ahead, writer, wconn, ticket>>
    BY <1>5 DEF HandleUnknownAck, HistTypeOK, sendVars
  <2>2. /\ reader' = NoReader /\ open' \in [Conns -> BOOLEAN]
        /\ \/ UNCHANGED <<state, generation, status, deliveries>>
           \/ /\ state' \in {"RESTRICTED", "CLOSED"} /\ generation' \in Nat
              /\ generation <= generation' /\ (generation' = generation => state' = state)
              /\ status' \in [Chats -> Status] /\ deliveries' = {}
    BY <2>1, ReaderRaisesOK DEF GateTypeOK
  <2>3. GateTypeOK' /\ LogTypeOK' /\ HistTypeOK'
    BY <1>1, <2>1, <2>2 DEF GateTypeOK, LogTypeOK, HistTypeOK, State
  <2>4. GateKept
    BY <1>1, <2>2 DEF GateKept, GateTypeOK
  <2> QED BY <1>1, <1>2, <1>3, <2>1, <2>2, <2>3, <2>4, NoEntryOK
             DEF SlotsOK, SlotsAreOfThisGate, HistoryOK
<1>6. CASE HandleChat /\ (state # "ACTIVE" \/ reader.gen # generation)
  <2>1. ReaderLoops /\ UNCHANGED <<state, generation, status, deliveries, open, badAck>>
        /\ UNCHANGED <<ahead, writer, wconn, ticket>>
    BY <1>6 DEF HandleChat, sendVars
  <2>2. GateTypeOK' /\ LogTypeOK' /\ HistTypeOK'
    BY <1>1, <2>1 DEF GateTypeOK, LogTypeOK, HistTypeOK
  <2>3. GateKept
    BY <1>1, <2>1 DEF GateKept, GateTypeOK
  <2> QED BY <1>1, <1>2, <1>3, <2>1, <2>2, <2>3, NoEntryOK
             DEF SlotsOK, SlotsAreOfThisGate, HistoryOK
<1>7. CASE HandleChat /\ ~(state # "ACTIVE" \/ reader.gen # generation)
  <2>1. /\ JoinSend("reader", reader.conn)
        /\ UNCHANGED <<reader, ticket, state, generation, status, deliveries, open, badAck>>
    BY <1>7 DEF HandleChat
  <2>2. GateTypeOK' /\ LogTypeOK' /\ HistTypeOK'
    BY <1>1, <2>1 DEF GateTypeOK, LogTypeOK, HistTypeOK
  <2>3. SendTypeOK' /\ PlacesOK' /\ TicketOK'
    BY <1>1, <2>1, JoinSendOK DEF SendTypeOK, PlacesOK, TicketOK, Writers
  <2>4. SlotsOK' /\ HistoryOK'
    BY <1>1, <2>1 DEF SlotsOK, SlotsAreOfThisGate, HistoryOK, WrittenUnderItsApproval
  <2> QED BY <1>2, <2>2, <2>3, <2>4
<1>8. (\E m \in Chats : HandleAck(m)) \/ (\E m \in Chats : HandleUnknownAck(m)) \/ HandleChat
  BY <1>0, BoundsAssumption DEF Receive, PeerChat, Chats
<1> QED BY <1>4, <1>5, <1>6, <1>7, <1>8

(* A new connection: the send pipeline keeps its old one, the reader is new.  *)
LEMMA AttachOK == ASSUME IInv, Attach PROVE IInv'
<1> USE DEF IInv, TypeOK
<1>1. /\ state \in {"CONNECTING", "RECONNECTING"}
      /\ state' = "VERIFYING" /\ generation' = generation + 1
      /\ generation \in Nat /\ conns' = conns + 1 /\ connection' = conns + 1
      /\ conns + 1 \in Conns
      /\ open' = [open EXCEPT ![conns + 1] = TRUE]
      /\ reader' = [on |-> TRUE, conn |-> conns + 1, gen |-> generation + 1]
      /\ UNCHANGED <<session, closing, ahead, writer, wconn, ticket, logVars,
                     peerVars, cancels, histVars>>
  BY BoundsAssumption DEF Attach, Transition, Generation, GateTypeOK, Conns, sendVars
<1>2. GateTypeOK'
  BY <1>1, BoundsAssumption DEF GateTypeOK, State, Conns
<1>3. SendTypeOK'
  <2>1. reader' \in [on : BOOLEAN, conn : 0 .. MaxConns, gen : Nat]
    BY <1>1, BoundsAssumption DEF Conns
  <2> QED BY <1>1, <2>1 DEF SendTypeOK
<1>4. LogTypeOK' /\ PeerTypeOK' /\ HistTypeOK'
  BY <1>1 DEF LogTypeOK, PeerTypeOK, HistTypeOK, logVars, peerVars, histVars
<1>5. PlacesOK'
  BY <1>1 DEF PlacesOK, logVars
<1>6. TicketOK'
  <2>1. ticket.gen \in Nat
    BY DEF SendTypeOK
  <2> QED BY <1>1, <2>1 DEF TicketOK, histVars
<1>7. SlotsOK' /\ HistoryOK'
  BY <1>1 DEF SlotsOK, SlotsAreOfThisGate, HistoryOK, WrittenUnderItsApproval,
              logVars, histVars
<1> QED BY <1>2, <1>3, <1>4, <1>5, <1>6, <1>7

(* Another coroutine joins the queue for the lock; no ticket is involved.     *)
LEMMA SendControlOK == ASSUME IInv, SendControl PROVE IInv'
<1> USE DEF IInv, TypeOK
<1>1. /\ connection \in Conns /\ JoinSend("task", connection)
      /\ UNCHANGED <<gateVars, open, ticket, reader, logVars, peerVars, cancels,
                     histVars>>
  BY DEF SendControl, GateTypeOK, Conns
<1>2. GateTypeOK' /\ LogTypeOK' /\ PeerTypeOK' /\ HistTypeOK'
  BY <1>1 DEF GateTypeOK, LogTypeOK, PeerTypeOK, HistTypeOK, gateVars, logVars,
              peerVars, histVars
<1>3. SendTypeOK' /\ PlacesOK' /\ TicketOK'
  BY <1>1, JoinSendOK DEF SendTypeOK, PlacesOK, TicketOK, Writers, gateVars,
                          logVars, histVars
<1>4. SlotsOK' /\ HistoryOK'
  BY <1>1 DEF SlotsOK, SlotsAreOfThisGate, HistoryOK, WrittenUnderItsApproval,
              gateVars, logVars, histVars
<1> QED BY <1>2, <1>3, <1>4

(* Coroutines that leave send while the gate stays as it is.                  *)
LEMMA LeavingOK ==
  ASSUME IInv, NEW ws, LeaveSend(ws), UNCHANGED <<gateVars, submitted, slotGen,
            deliveries, peerVars, histVars>>,
         open' \in [Conns -> BOOLEAN], status' \in [Chats -> Status],
         reader' \in [on : BOOLEAN, conn : 0 .. MaxConns, gen : Nat],
         reader'.on => reader.on /\ reader'.conn = reader.conn,
         cancels' \in Nat
  PROVE  IInv'
<1> USE DEF IInv, TypeOK
<1>1. GateTypeOK' /\ LogTypeOK' /\ HistTypeOK'
  BY DEF GateTypeOK, LogTypeOK, HistTypeOK, gateVars, histVars
<1>2. SendTypeOK'
  <2>1. ahead' \in SUBSET (Writers \X Writers)
    BY DEF SendTypeOK, LeaveSend
  <2>2. /\ writer' \in [Writers -> {"idle", "waiting", "draining"}]
        /\ wconn' \in [Writers -> 0 .. MaxConns]
        /\ ticket' \in [msg : 0 .. MaxChats, gen : Nat, session : Nat]
    BY BoundsAssumption DEF SendTypeOK, LeaveSend, NoTicket
  <2> QED BY <2>1, <2>2 DEF SendTypeOK
<1>3. PeerTypeOK'
  BY DEF PeerTypeOK, peerVars
<1>4. GateKept
  BY DEF GateKept, GateTypeOK, gateVars, histVars
<1> QED BY <1>1, <1>2, <1>3, <1>4, LeaveSendOK, NoEntryOK
           DEF SlotsOK, SlotsAreOfThisGate, HistoryOK, gateVars, histVars

LEMMA CancelChatOK == ASSUME IInv, CancelChat PROVE IInv'
<1>1. /\ LeaveSend({"chat"}) /\ cancels' = cancels + 1
      /\ open' = [open EXCEPT ![wconn["chat"]] = FALSE]
      /\ UNCHANGED <<gateVars, reader, logVars, peerVars, histVars>>
  BY DEF CancelChat
<1>2. open' \in [Conns -> BOOLEAN]
  BY <1>1 DEF IInv, TypeOK, GateTypeOK
<1>4. cancels' \in Nat
  BY <1>1 DEF IInv, TypeOK, PeerTypeOK
<1>3. /\ status' \in [Chats -> Status]
      /\ reader' \in [on : BOOLEAN, conn : 0 .. MaxConns, gen : Nat]
  BY <1>1 DEF IInv, TypeOK, LogTypeOK, SendTypeOK, logVars
<1> QED BY <1>1, <1>2, <1>3, <1>4, LeavingOK DEF logVars

LEMMA DrainDoneOK == ASSUME IInv, NEW w \in Writers, DrainDone(w) PROVE IInv'
<1> USE DEF IInv, TypeOK
<1>1. /\ LeaveSend({w})
      /\ UNCHANGED <<gateVars, open, submitted, deliveries, slotGen,
                     peerVars, cancels, histVars>>
  BY DEF DrainDone
<1>2. status' \in [Chats -> Status]
  BY DEF DrainDone, LogTypeOK, Sent, Status
<1>3. reader.on /\ reader.conn \in 0 .. MaxConns => generation \in Nat
  BY DEF GateTypeOK
<1>4. /\ reader' \in [on : BOOLEAN, conn : 0 .. MaxConns, gen : Nat]
      /\ reader'.on => reader.on /\ reader'.conn = reader.conn
  <2>1. CASE w = "reader"
    <3>1. reader' \in {NoReader, [reader EXCEPT !.gen = generation]}
      BY <2>1 DEF DrainDone, ReaderLoops
    <3>2. NoReader \in [on : BOOLEAN, conn : 0 .. MaxConns, gen : Nat] /\ ~NoReader.on
      BY BoundsAssumption DEF NoReader
    <3> QED BY <3>1, <3>2 DEF SendTypeOK, GateTypeOK
  <2>2. CASE w # "reader"
    BY <2>2 DEF DrainDone, SendTypeOK
  <2> QED BY <2>1, <2>2
<1>5. open' \in [Conns -> BOOLEAN] /\ cancels' \in Nat
  BY <1>1 DEF GateTypeOK, PeerTypeOK
<1> QED BY <1>1, <1>2, <1>4, <1>5, LeavingOK

LEMMA CancelReaderOK == ASSUME IInv, CancelReader PROVE IInv'
<1>1. /\ LeaveSend({"reader"}) /\ reader' = NoReader
      /\ open' = [open EXCEPT ![reader.conn] = FALSE]
      /\ UNCHANGED <<gateVars, logVars, peerVars, cancels, histVars>>
  BY DEF CancelReader
<1>2. open' \in [Conns -> BOOLEAN] /\ cancels' \in Nat /\ status' \in [Chats -> Status]
  BY <1>1 DEF IInv, TypeOK, GateTypeOK, PeerTypeOK, LogTypeOK, logVars
<1>3. reader' \in [on : BOOLEAN, conn : 0 .. MaxConns, gen : Nat] /\ ~reader'.on
  BY <1>1, BoundsAssumption DEF NoReader
<1> QED BY <1>1, <1>2, <1>3, LeavingOK DEF logVars

(* A handler that only moves the gate: it keeps the approval as long as it    *)
(* keeps the generation, and it keeps slots only while the session lives.     *)
LEMMA GateMoveOK ==
  ASSUME IInv, OnlyGateMoves, UNCHANGED <<born, written, badAck>>,
         state' \in State, generation' \in Nat, generation <= generation',
         open' \in [Conns -> BOOLEAN], status' \in [Chats -> Status],
         approval' \in Nat, deliveries' \in SUBSET deliveries,
         generation' = generation /\ state = "ACTIVE"
            => state' = "ACTIVE" /\ approval' = approval,
         state' \in {"VERIFYING", "ACTIVE", "RECONNECTING"}
            => state \in {"VERIFYING", "ACTIVE", "RECONNECTING"},
         state' = "ACTIVE" => approval' # 0,
         deliveries' # {} => state' \in {"ACTIVE", "VERIFYING"}
  PROVE  IInv'
<1> USE DEF IInv, TypeOK
<1>1. UNCHANGED <<connection, session, conns, closing, ahead, writer, wconn,
                  ticket, reader, submitted, slotGen, peerVars, cancels>>
  BY DEF OnlyGateMoves, sendVars
<1>2. GateTypeOK' /\ SendTypeOK'
  BY <1>1 DEF GateTypeOK, SendTypeOK
<1>3. LogTypeOK' /\ PeerTypeOK' /\ HistTypeOK'
  BY <1>1 DEF LogTypeOK, PeerTypeOK, HistTypeOK, peerVars
<1>4. GateKept
  BY <1>1 DEF GateKept, GateTypeOK
<1> QED BY <1>1, <1>2, <1>3, <1>4, NoEntryOK

(* What the invariant says of the variables such a handler reads.             *)
LEMMA Readings ==
  ASSUME IInv
  PROVE  /\ state \in State /\ generation \in Nat /\ approval \in Nat
         /\ open \in [Conns -> BOOLEAN] /\ status \in [Chats -> Status]
         /\ CloseConnection(open) \in [Conns -> BOOLEAN]
         /\ deliveries # {} => state \in {"ACTIVE", "VERIFYING"}
         /\ state = "ACTIVE" => approval # 0
         /\ LogTypeOK /\ GateTypeOK
<1>1. GateTypeOK /\ LogTypeOK /\ HistTypeOK /\ SlotsAreOfThisGate /\ HistoryOK
  BY DEF IInv, TypeOK, SlotsOK
<1>2. CloseConnection(open) \in [Conns -> BOOLEAN]
  BY <1>1, CloseConnectionOK DEF GateTypeOK
<1> QED BY <1>1, <1>2 DEF GateTypeOK, LogTypeOK, HistTypeOK, SlotsAreOfThisGate, HistoryOK

LEMMA ApproveOK == ASSUME IInv, Approve PROVE IInv'
<1>1. /\ state = "VERIFYING" /\ state' = "ACTIVE" /\ generation' = generation
      /\ approval' = approval + 1 /\ OnlyGateMoves
      /\ UNCHANGED <<open, status, deliveries, born, written, badAck>>
  BY DEF Approve, Transition, Generation
<1>2. approval' \in Nat /\ approval' # 0
  BY <1>1, Readings
<1> QED BY <1>1, <1>2, Readings, GateMoveOK DEF State

LEMMA ReverifyOK == ASSUME IInv, Reverify PROVE IInv'
<1>1. /\ state = "ACTIVE" /\ state' = "VERIFYING" /\ generation' = generation + 1
      /\ OnlyGateMoves /\ UNCHANGED <<open, status, deliveries, histVars>>
  BY DEF Reverify, Transition, Generation
<1>2. generation' \in Nat /\ generation <= generation' /\ generation' # generation
  BY <1>1, Readings
<1> QED BY <1>1, <1>2, Readings, GateMoveOK DEF State, histVars

LEMMA ReserveRecoveryOK == ASSUME IInv, ReserveRecovery PROVE IInv'
<1>1. /\ state \in {"ACTIVE", "VERIFYING"} /\ state' = "RECONNECTING"
      /\ generation' = generation + 1
      /\ FailDeliveries /\ OnlyGateMoves /\ UNCHANGED <<open, histVars>>
  BY DEF ReserveRecovery, Transition, Generation
<1>2. generation' \in Nat /\ generation <= generation' /\ generation' # generation
  BY <1>1, Readings
<1>3. status' \in [Chats -> Status] /\ deliveries' = {}
  BY <1>1, Readings, FailDeliveriesOK
<1> QED BY <1>1, <1>2, <1>3, Readings, GateMoveOK DEF State, histVars

LEMMA CloseForRecoveryOK == ASSUME IInv, CloseForRecovery PROVE IInv'
<1>1. /\ open' = CloseConnection(open) /\ OnlyGateMoves
      /\ UNCHANGED <<state, generation, status, deliveries, histVars>>
  BY DEF CloseForRecovery
<1>2. generation <= generation'
  BY <1>1, Readings
<1> QED BY <1>1, <1>2, Readings, GateMoveOK DEF histVars

LEMMA RestrictSessionOK == ASSUME IInv, RestrictSession PROVE IInv'
<1>1. /\ state \notin {"LOCKED", "RESTRICTED", "CLOSED"} /\ Restriction(open)
      /\ OnlyGateMoves /\ UNCHANGED histVars
  BY DEF RestrictSession
<1>2. /\ state' \in {"RESTRICTED", "CLOSED"} /\ generation' \in Nat
      /\ generation <= generation'
      /\ generation' = generation => state' = state
      /\ open' \in [Conns -> BOOLEAN]
      /\ status' \in [Chats -> Status] /\ deliveries' = {}
  <2>1. GateTypeOK /\ LogTypeOK /\ open \in [Conns -> BOOLEAN]
    BY Readings
  <2> QED BY <1>1, <2>1, RestrictionOK
<1> QED BY <1>1, <1>2, Readings, GateMoveOK DEF State, histVars

(* The reader's exception, with nothing else going on in the step.            *)
LEMMA ReaderSeesCloseOK == ASSUME IInv, ReaderSeesClose PROVE IInv'
<1> USE DEF IInv, TypeOK
<1>1. /\ ReaderRaises(open)
      /\ UNCHANGED <<connection, session, conns, closing, ahead, writer, wconn,
                     ticket, submitted, slotGen, peerVars, cancels, histVars>>
  BY DEF ReaderSeesClose, sendVars
<1>2. /\ reader' = NoReader /\ open' \in [Conns -> BOOLEAN]
      /\ \/ UNCHANGED <<state, generation, status, deliveries>>
         \/ /\ state' \in {"RESTRICTED", "CLOSED"} /\ generation' \in Nat
            /\ generation <= generation' /\ (generation' = generation => state' = state)
            /\ status' \in [Chats -> Status] /\ deliveries' = {}
  BY <1>1, Readings, ReaderRaisesOK
<1>3. GateTypeOK' /\ LogTypeOK'
  BY <1>1, <1>2 DEF GateTypeOK, LogTypeOK, State
<1>4. PeerTypeOK' /\ HistTypeOK'
  BY <1>1 DEF PeerTypeOK, HistTypeOK, peerVars, histVars
<1>5. SendTypeOK' /\ ~reader'.on
  <2>1. NoReader \in [on : BOOLEAN, conn : 0 .. MaxConns, gen : Nat] /\ ~NoReader.on
    BY BoundsAssumption DEF NoReader
  <2> QED BY <1>1, <1>2, <2>1 DEF SendTypeOK
<1>6. GateKept
  BY <1>1, <1>2 DEF GateKept, GateTypeOK, histVars
<1> QED BY <1>1, <1>2, <1>3, <1>4, <1>5, <1>6, Readings, NoEntryOK DEF histVars

(* Frames in flight and the peer's own display touch nothing of the gate.     *)
LEMMA PeerStepOK == ASSUME IInv, NEW c \in Conns, PeerReads(c) \/ PeerWrites(c)
                    PROVE  IInv'
<1> USE DEF IInv, TypeOK
<1>1. UNCHANGED <<gateVars, open, sendVars, reader, logVars, histVars>>
  BY DEF PeerReads, PeerWrites
<1>2. GateTypeOK' /\ SendTypeOK' /\ LogTypeOK' /\ HistTypeOK' /\ PlacesOK'
      /\ TicketOK' /\ SlotsOK' /\ HistoryOK'
  BY <1>1 DEF GateTypeOK, SendTypeOK, LogTypeOK, HistTypeOK, PlacesOK, TicketOK,
       SlotsOK, SlotsAreOfThisGate, HistoryOK, WrittenUnderItsApproval, gateVars,
       sendVars, logVars, histVars
<1>3. CASE PeerReads(c)
  <2>1. Head(buffer[c]) \in Chats /\ Tail(buffer[c]) \in Seq(Chats)
    <3>1. buffer[c] \in Seq(Chats) /\ buffer[c] # <<>>
      BY <1>3 DEF PeerReads, PeerTypeOK
    <3> QED BY <3>1, HeadTailProperties
  <2>2. Head(buffer[c]) \in 0 .. MaxChats
    BY <2>1, BoundsAssumption DEF Chats
  <2>3. buffer' \in [Conns -> Seq(Chats)] /\ peerChats' \in Nat /\ cancels' \in Nat
    BY <1>3, <2>1 DEF PeerReads, PeerTypeOK
  <2>4. inbox' \in [Conns -> Seq(0 .. MaxChats)]
    <3>1. inbox' \in {inbox, [inbox EXCEPT ![c] = Append(@, Head(buffer[c]))]}
      BY <1>3 DEF PeerReads
    <3>2. Append(inbox[c], Head(buffer[c])) \in Seq(0 .. MaxChats)
      BY <2>2 DEF PeerTypeOK
    <3> QED BY <3>1, <3>2 DEF PeerTypeOK
  <2>5. shown' \in SUBSET Chats
    BY <1>3, <2>1 DEF PeerReads, PeerTypeOK
  <2> QED BY <1>2, <2>3, <2>4, <2>5 DEF PeerTypeOK
<1>4. CASE PeerWrites(c)
  <2>1. PeerChat \in 0 .. MaxChats
    BY BoundsAssumption DEF PeerChat
  <2>2. inbox' \in [Conns -> Seq(0 .. MaxChats)]
    BY <1>4, <2>1 DEF PeerWrites, PeerTypeOK
  <2>3. UNCHANGED <<buffer, shown, cancels>> /\ peerChats' \in Nat
    BY <1>4 DEF PeerWrites, PeerTypeOK
  <2> QED BY <1>2, <2>2, <2>3 DEF PeerTypeOK
<1> QED BY <1>3, <1>4

(* The connection fails under the reader, or a disconnect makes progress      *)
(* without having reached its end.                                            *)
LEMMA LinkStepOK ==
  ASSUME IInv, ReceiveFails \/ DisconnectBegins \/ DisconnectCloses \/ DisconnectAbandoned
  PROVE  IInv'
<1> USE DEF IInv, TypeOK
<1>1. /\ UNCHANGED <<state, generation, connection, session, conns, sendVars, reader,
                     logVars, peerVars, histVars>>
      /\ closing' \in {"no", "notice", "closed"} /\ cancels' \in {cancels, cancels + 1}
  BY DEF ReceiveFails, DisconnectBegins, DisconnectCloses, DisconnectAbandoned,
         gateVars, GateTypeOK
<1>2. open' \in [Conns -> BOOLEAN]
  BY Readings DEF ReceiveFails, DisconnectBegins, DisconnectCloses,
                  DisconnectAbandoned, GateTypeOK
<1>3. GateTypeOK' /\ LogTypeOK'
  BY <1>1, <1>2 DEF GateTypeOK, LogTypeOK, logVars
<1>4. SendTypeOK' /\ HistTypeOK' /\ PlacesOK' /\ TicketOK' /\ SlotsOK' /\ HistoryOK'
  BY <1>1 DEF SendTypeOK, HistTypeOK, PlacesOK, TicketOK, SlotsOK,
       SlotsAreOfThisGate, HistoryOK, WrittenUnderItsApproval, sendVars, logVars, histVars
<1>5. PeerTypeOK'
  BY <1>1 DEF PeerTypeOK, peerVars
<1> QED BY <1>3, <1>4, <1>5

(* The end of disconnect: readers and tasks leave send, no slot survives.     *)
LEMMA DisconnectEndsOK == ASSUME IInv, DisconnectEnds PROVE IInv'
<1> USE DEF IInv, TypeOK
<1>1. /\ Transition("CLOSED") /\ FailDeliveries /\ open' = CloseConnection(open)
      /\ closing' = "no" /\ reader' = NoReader /\ LeaveSend({"reader", "task"})
      /\ UNCHANGED <<connection, session, conns, submitted, slotGen, peerVars,
                     cancels, histVars>>
  BY DEF DisconnectEnds
<1>2. /\ state' = "CLOSED" /\ generation' \in Nat /\ generation <= generation'
      /\ generation' = generation => state = "CLOSED"
  BY <1>1 DEF Transition, Generation, GateTypeOK
<1>3. status' \in [Chats -> Status] /\ deliveries' = {}
  BY <1>1, Readings, FailDeliveriesOK
<1>4. open' \in [Conns -> BOOLEAN]
  BY <1>1, Readings
<1>5. GateTypeOK' /\ LogTypeOK'
  BY <1>1, <1>2, <1>3, <1>4 DEF GateTypeOK, LogTypeOK, State
<1>6. SendTypeOK'
  BY <1>1, LeaveSendOK
<1>7. PeerTypeOK' /\ HistTypeOK'
  BY <1>1 DEF PeerTypeOK, HistTypeOK, peerVars, histVars
<1>8. GateKept
  BY <1>1, <1>2 DEF GateKept, GateTypeOK
<1>9. ~reader'.on
  BY <1>1 DEF NoReader
<1> QED BY <1>1, <1>2, <1>3, <1>5, <1>6, <1>7, <1>8, <1>9, LeaveSendOK, NoEntryOK
           DEF histVars

(* A new Coordinator counts from one again.  No chat is in send and no slot   *)
(* is left, so nothing can mistake its generations for the old ones.          *)
LEMMA NewSessionOK == ASSUME IInv, NewSession PROVE IInv'
<1> USE DEF IInv, TypeOK
<1>1. /\ writer["chat"] = "idle" /\ state \notin {"ACTIVE", "VERIFYING"}
      /\ session' = session + 1
      /\ state' = "CONNECTING" /\ generation' = 1 /\ connection' = 0
      /\ UNCHANGED <<conns, closing, open, ahead, writer, wconn, ticket, reader,
                     logVars, peerVars, cancels, histVars>>
  BY DEF NewSession, sendVars
<1>2. GateTypeOK'
  BY <1>1, BoundsAssumption DEF GateTypeOK, State
<1>3. SendTypeOK' /\ LogTypeOK' /\ PeerTypeOK' /\ HistTypeOK'
  BY <1>1 DEF SendTypeOK, LogTypeOK, PeerTypeOK, HistTypeOK, logVars, peerVars, histVars
<1>4. PlacesOK' /\ TicketOK'
  BY <1>1 DEF PlacesOK, TicketOK, logVars, histVars
<1>5. SlotsOK' /\ HistoryOK'
  BY <1>1 DEF SlotsOK, SlotsAreOfThisGate, HistoryOK, WrittenUnderItsApproval,
              logVars, histVars
<1> QED BY <1>2, <1>3, <1>4, <1>5

LEMMA StepIInv == IInv /\ [Next]_vars => IInv'
<1> SUFFICES ASSUME IInv, [Next]_vars PROVE IInv'
  OBVIOUS
<1>1. CASE SendChat
  BY <1>1, SendChatOK
<1>2. CASE SendControl
  BY <1>2, SendControlOK
<1>3. CASE CancelChat
  BY <1>3, CancelChatOK
<1>4. ASSUME NEW w \in Writers, WriteFrame(w) \/ RefuseWrite(w) \/ SendAborts(w)
                                  \/ DrainDone(w)
      PROVE  IInv'
  <2>1. CASE WriteFrame(w)
    BY <2>1, WriteFrameOK
  <2>2. CASE RefuseWrite(w)
    BY <2>2, Readings, SendRaisesOK DEF RefuseWrite
  <2>3. CASE SendAborts(w)
    <3>1. [open EXCEPT ![wconn[w]] = FALSE] \in [Conns -> BOOLEAN]
      BY Readings
    <3> QED BY <2>3, <3>1, SendRaisesOK DEF SendAborts
  <2>4. CASE DrainDone(w)
    BY <2>4, DrainDoneOK
  <2> QED BY <1>4, <2>1, <2>2, <2>3, <2>4
<1>5. CASE \E c \in Conns : PeerReads(c) \/ PeerWrites(c)
  BY <1>5, PeerStepOK
<1>6. CASE Receive
  BY <1>6, ReceiveOK
<1>7. CASE ReceiveFails \/ DisconnectBegins \/ DisconnectCloses \/ DisconnectAbandoned
  BY <1>7, LinkStepOK
<1>8. CASE ReaderSeesClose
  BY <1>8, ReaderSeesCloseOK
<1>9. CASE CancelReader
  BY <1>9, CancelReaderOK
<1>10. CASE NewSession
  BY <1>10, NewSessionOK
<1>11. CASE Attach
  BY <1>11, AttachOK
<1>12. CASE Approve
  BY <1>12, ApproveOK
<1>13. CASE Reverify
  BY <1>13, ReverifyOK
<1>14. CASE ReserveRecovery
  BY <1>14, ReserveRecoveryOK
<1>15. CASE CloseForRecovery
  BY <1>15, CloseForRecoveryOK
<1>16. CASE RestrictSession
  BY <1>16, RestrictSessionOK
<1>17. CASE DisconnectEnds
  BY <1>17, DisconnectEndsOK
<1>18. CASE UNCHANGED vars
  <2>1. UNCHANGED <<gateVars, open, sendVars, reader, logVars, peerVars, cancels,
                    histVars>>
    BY <1>18 DEF vars
  <2>2. TypeOK'
    BY <2>1 DEF IInv, TypeOK, GateTypeOK, SendTypeOK, LogTypeOK, PeerTypeOK,
         HistTypeOK, gateVars, sendVars, logVars, peerVars, histVars
  <2>3. PlacesOK' /\ TicketOK' /\ SlotsOK' /\ HistoryOK'
    BY <2>1 DEF IInv, PlacesOK, TicketOK, SlotsOK, SlotsAreOfThisGate, HistoryOK,
         WrittenUnderItsApproval, gateVars, sendVars, logVars, histVars
  <2> QED BY <2>2, <2>3 DEF IInv
<1> QED BY <1>1, <1>2, <1>3, <1>4, <1>5, <1>6, <1>7, <1>8, <1>9, <1>10, <1>11,
           <1>12, <1>13, <1>14, <1>15, <1>16, <1>17, <1>18 DEF Next

LEMMA AlwaysIInv == Spec => []IInv
BY InitIInv, StepIInv, PTL DEF Spec

(* Every variable keeps its type, for any bounds.                             *)
THEOREM TypeCorrect == Spec => []TypeOK
<1>1. IInv => TypeOK
  BY DEF IInv
<1> QED BY <1>1, AlwaysIInv, PTL

(* A chat is written to the connection only under the approval that had       *)
(* opened the gate when the user sent it (flush_one's permitted predicate).   *)
THEOREM WrittenSafe == Spec => []WrittenUnderItsApproval
<1>1. IInv => WrittenUnderItsApproval
  BY DEF IInv, HistoryOK
<1> QED BY <1>1, AlwaysIInv, PTL

(* No delivery slot outlives the Coordinator whose generation it recorded.    *)
THEOREM SlotsSafe == Spec => []SlotsAreOfThisGate
<1>1. IInv => SlotsAreOfThisGate
  BY DEF IInv, SlotsOK
<1> QED BY <1>1, AlwaysIInv, PTL

(* Only an acknowledgement makes a chat "delivered", and only while the       *)
(* approval it was sent under still holds the gate open.                      *)
THEOREM DeliveredSafe == Spec => DeliveredUnderItsApproval
<1> DEFINE A == \A m \in Chats :
                  status'[m] = "delivered" /\ status[m] # "delivered"
                    => state = "ACTIVE" /\ approval = born[m]
<1>1. IInv /\ [Next]_vars => [A]_vars
  <2> SUFFICES ASSUME IInv, Next, NEW m \in Chats,
                      status'[m] = "delivered", status[m] # "delivered"
               PROVE  state = "ACTIVE" /\ approval = born[m]
    BY DEF A
  <2>1. status \in [Chats -> Status]
    BY Readings
  <2>2. ~FailDeliveries
    BY DEF FailDeliveries
  <2>3. ~UNCHANGED status
    OBVIOUS
  <2>4. \A links : ~Restriction(links) /\ ~ReaderRaises(links)
    BY <2>2, <2>3 DEF Restriction, ReaderRaises
  <2>5. \A links : \A w \in Writers : ~SendRaises(w, links)
    BY <2>1, <2>4 DEF SendRaises, Writers
  <2>6. ~\E w \in Writers : RefuseWrite(w) \/ SendAborts(w) \/ DrainDone(w) \/ WriteFrame(w)
    <3>1. \A w \in Writers : ~RefuseWrite(w) /\ ~SendAborts(w)
      BY <2>5 DEF RefuseWrite, SendAborts
    <3>2. \A w \in Writers : ~DrainDone(w)
      BY <2>1, <2>3 DEF DrainDone, Sent
    <3>3. \A w \in Writers : ~WriteFrame(w)
      BY <2>3 DEF WriteFrame, logVars
    <3> QED BY <3>1, <3>2, <3>3
  <2>7. ~SendChat
    BY <2>1, <2>3 DEF SendChat
  <2>8. Receive
    BY <2>2, <2>3, <2>4, <2>6, <2>7
       DEF Next, SendControl, CancelChat, PeerReads, PeerWrites, ReceiveFails,
           ReaderSeesClose, CancelReader, NewSession, Attach, Approve, Reverify,
           ReserveRecovery, CloseForRecovery, RestrictSession, DisconnectBegins,
           DisconnectCloses, DisconnectEnds, DisconnectAbandoned, logVars
  <2>9. PICK n : HandleAck(n)
    BY <2>3, <2>4, <2>8 DEF Receive, HandleChat, HandleUnknownAck
  <2>10. n = m /\ m \in deliveries /\ Acknowledged(m) = "delivered"
    BY <2>1, <2>9 DEF HandleAck
  <2>11. slotGen[m] = generation
    BY <2>10 DEF Acknowledged
  <2> QED BY <2>10, <2>11 DEF IInv, SlotsOK
<1>2. Spec => [][A]_vars
  BY <1>1, AlwaysIInv, PTL DEF Spec
<1> QED BY <1>2 DEF DeliveredUnderItsApproval

-------------------------------------------------------------------------------
(* Which chat is where.  The second inductive invariant follows every chat from *)
(* the press of send through the wires to its acknowledgement.                  *)

(* The chats a connection carries: frames the peer has not read, and the      *)
(* acknowledgements the reader has not taken.                                 *)
Vals(s) == {s[i] : i \in 1 .. Len(s)}
(* No chat is twice in a queue; the peer's own chats may be.                  *)
Once(s) == \A i, j \in 1 .. Len(s) : s[i] = s[j] /\ s[i] # PeerChat => i = j
(* The chats under way on connection c, the acknowledgements, and both        *)
Out(c) == Vals(buffer[c])
In(c) == Vals(inbox[c]) \ {PeerChat}
Flight(c) == Out(c) \cup In(c)
(* The gate has a connection that is open.                                    *)
Live == connection # 0 /\ open[connection]

(* A chat is on the wire at most once, in one direction of one connection,    *)
(* and the peer displayed what it acknowledges.                               *)
WiresOK ==
    /\ \A c \in Conns : /\ Once(buffer[c]) /\ Once(inbox[c])
                        /\ Out(c) \cap In(c) = {}
                        /\ Flight(c) \in SUBSET (1 .. submitted)
                        /\ In(c) \in SUBSET shown
    /\ \A c, d \in Conns : c # d => Flight(c) \cap Flight(d) = {}

(* A connection that was not made yet carries nothing.                        *)
UnusedOK ==
    /\ connection \in 0 .. conns
    /\ \A w \in Writers : writer[w] # "idle" => wconn[w] \in 1 .. conns
    /\ \A c \in Conns : c > conns => ~open[c] /\ buffer[c] = <<>> /\ inbox[c] = <<>>

(* The reader reads the gate's connection.                                    *)
ReaderOK ==
    /\ reader.on => reader.conn = connection
    /\ state \in {"LOCKED", "CLOSED"} => ~reader.on

(* A chat that waits for the lock is on no wire, and while its ticket is good *)
(* it has its slot; one that drains is on the wire it was written to.         *)
ChatOK ==
    /\ writer["chat"] = "waiting" =>
         /\ \A c \in Conns : ticket.msg \notin Flight(c)
         /\ ticket.gen = generation => ticket.msg \in deliveries
    /\ writer["chat"] = "draining" =>
         \A c \in Conns \ {wconn["chat"]} : ticket.msg \notin Flight(c)

(* Whatever is on the wire of a usable connection has a slot.                 *)
AckOK ==
    /\ HonestAckKnown
    /\ Live /\ state # "RECONNECTING" => Flight(connection) \in SUBSET deliveries

(* A slot's chat is under way, and an acknowledged one is never sent again.   *)
StatusOK ==
    /\ \A m \in deliveries : status[m] \in {"sending", "sent"}
    /\ \A m \in Chats : m > submitted => status[m] = "none"
    /\ \A m \in Chats : status[m] \in {"delivered", "delivery unconfirmed"} =>
          /\ m \in shown
          /\ \A c \in Conns : m \notin Out(c)
          /\ writer["chat"] = "waiting" => ticket.msg # m

(* The second invariant                                                       *)
FInv == IInv /\ WiresOK /\ UnusedOK /\ ReaderOK /\ ChatOK /\ AckOK /\ StatusOK

(* What the browser was told for good is not taken back by this step.         *)
Settled ==
    \A m \in Chats :
        status[m] \in {"delivered", "delivery unconfirmed", "not delivered"}
          => status'[m] = status[m]

(* Nothing is in flight before the first connection.                          *)
LEMMA InitFInv == Init => FInv
<1> SUFFICES ASSUME Init PROVE FInv
  OBVIOUS
<1>1. IInv
  BY InitIInv
<1>2. \A c \in Conns : Out(c) = {} /\ In(c) = {}
  BY DEF Init, Out, In, Vals
<1>3. WiresOK
  BY <1>2 DEF Init, WiresOK, Flight, Once
<1>4. UnusedOK /\ ReaderOK /\ ChatOK
  BY DEF Init, UnusedOK, ReaderOK, ChatOK, NoReader, Writers
<1>5. AckOK /\ StatusOK
  BY DEF Init, AckOK, StatusOK, HonestAckKnown, Live
<1> QED BY <1>1, <1>3, <1>4, <1>5 DEF FInv

(* What a queue holds after an append, and after its head is taken.           *)
LEMMA AppendVals ==
  ASSUME NEW S, NEW s \in Seq(S), NEW e \in S
  PROVE  /\ Vals(Append(s, e)) = Vals(s) \cup {e}
         /\ Once(s) /\ (e # PeerChat => e \notin Vals(s)) => Once(Append(s, e))
<1> DEFINE t == Append(s, e)
<1>1. /\ Len(t) = Len(s) + 1 /\ Len(s) \in Nat /\ t[Len(s) + 1] = e
      /\ \A i \in 1 .. Len(s) : t[i] = s[i]
  BY AppendProperties, LenProperties
<1> HIDE DEF t
<1>2. Vals(t) = Vals(s) \cup {e}
  BY <1>1 DEF Vals
<1>3. ASSUME Once(s), e # PeerChat => e \notin Vals(s) PROVE Once(t)
  BY <1>1, <1>3 DEF Vals, Once
<1> QED BY <1>2, <1>3 DEF t

(* What is left of a queue when its first frame is taken                      *)
LEMMA TailVals ==
  ASSUME NEW S, NEW s \in Seq(S), s # <<>>
  PROVE  /\ Head(s) \in Vals(s)
         /\ Vals(s) = Vals(Tail(s)) \cup {Head(s)}
         /\ Once(s) => Once(Tail(s)) /\ (Head(s) # PeerChat => Head(s) \notin Vals(Tail(s)))
<1> DEFINE t == Tail(s)
<1>1. /\ Len(s) \in Nat \ {0} /\ Len(t) = Len(s) - 1 /\ Head(s) = s[1]
      /\ \A i \in 1 .. Len(t) : t[i] = s[i + 1]
  BY HeadTailProperties, LenProperties, EmptySeq
<1> HIDE DEF t
<1>2. Head(s) \in Vals(s)
  BY <1>1 DEF Vals
<1>3. Vals(s) = Vals(t) \cup {Head(s)}
  <2>1. ASSUME NEW i \in 1 .. Len(s) PROVE s[i] \in Vals(t) \cup {Head(s)}
    <3>1. CASE i = 1
      BY <1>1, <3>1
    <3>2. CASE i # 1
      <4>1. i - 1 \in 1 .. Len(t) /\ t[i - 1] = s[i]
        BY <1>1, <3>2
      <4> QED BY <4>1 DEF Vals
    <3> QED BY <3>1, <3>2
  <2>2. ASSUME NEW i \in 1 .. Len(t) PROVE t[i] \in Vals(s)
    <3>1. i + 1 \in 1 .. Len(s) /\ t[i] = s[i + 1]
      BY <1>1
    <3> QED BY <3>1 DEF Vals
  <2> QED BY <1>2, <2>1, <2>2 DEF Vals
<1>4. ASSUME Once(s) PROVE Once(t)
  <2> SUFFICES ASSUME NEW i \in 1 .. Len(t), NEW j \in 1 .. Len(t),
                      t[i] = t[j], t[i] # PeerChat
               PROVE  i = j
    BY DEF Once
  <2>1. i + 1 \in 1 .. Len(s) /\ j + 1 \in 1 .. Len(s) /\ t[i] = s[i + 1] /\ t[j] = s[j + 1]
    BY <1>1
  <2>2. i + 1 = j + 1
    BY <1>4, <2>1 DEF Once
  <2> QED BY <2>2
<1>5. ASSUME Once(s), Head(s) # PeerChat PROVE Head(s) \notin Vals(t)
  <2> SUFFICES ASSUME NEW i \in 1 .. Len(t), t[i] = Head(s) PROVE FALSE
    BY DEF Vals
  <2>1. i + 1 \in 1 .. Len(s) /\ s[i + 1] = s[1] /\ s[1] # PeerChat /\ 1 \in 1 .. Len(s)
    BY <1>1, <1>5
  <2>2. i + 1 = 1
    BY <1>5, <2>1 DEF Once
  <2> QED BY <2>2
<1> QED BY <1>2, <1>3, <1>4, <1>5 DEF t

(* The gate's connection is one of the connections.                           *)
LEMMA ConnectionExists == ASSUME GateTypeOK, connection # 0 PROVE connection \in Conns
BY BoundsAssumption DEF GateTypeOK, Conns

(* Most steps put nothing on a wire: a coroutine may leave send, a connection *)
(* may close, slots may fail with their chats.                                *)
QuietMove ==
    /\ UNCHANGED <<buffer, shown, submitted, connection, conns, badAck>>
    /\ \A c \in Conns : open'[c] => open[c]
    /\ reader'.on => reader.on /\ reader'.conn = reader.conn
    /\ state' \in {"LOCKED", "CLOSED"} => ~reader'.on
    /\ state = "RECONNECTING" => state' = "RECONNECTING" \/ ~Live'

QuietGate == QuietMove /\ UNCHANGED inbox

(* The parts of FInv that a step leaves alone when it leaves these variables  *)
QuietSend ==
    /\ \A w \in Writers : writer'[w] # "idle" => writer'[w] = writer[w] /\ wconn'[w] = wconn[w]
    /\ writer'["chat"] # "idle" => ticket' = ticket

QuietSlots ==
    /\ deliveries' \in SUBSET deliveries
    /\ \A m \in deliveries \ deliveries' :
          state' = "RECONNECTING" \/ ~Live' \/ m \notin Flight(connection)'
    /\ writer'["chat"] = "waiting" /\ ticket.gen = generation' => ticket.msg \in deliveries'

QuietStatus ==
    /\ \A m \in Chats :
          /\ status'[m] \in {status[m], "sent", "not delivered"}
          /\ m > submitted => status'[m] = status[m]
          /\ m \in deliveries' => status'[m] \in {status[m], "sent"}
    /\ Settled

QuietLog == QuietSlots /\ QuietStatus

(* Such a step keeps who carries what, even if the reader takes a frame.      *)
LEMMA FlowOK ==
  ASSUME FInv, QuietMove, QuietSend, QuietSlots,
         \A c \in Conns : /\ In(c)' \in SUBSET In(c)
                          /\ inbox[c] = <<>> => inbox'[c] = <<>>
  PROVE  UnusedOK' /\ ReaderOK' /\ ChatOK' /\ AckOK'
<1> USE DEF FInv
<1>1. \A c \in Conns : Out(c)' = Out(c) /\ Flight(c)' \in SUBSET Flight(c)
  BY DEF QuietMove, Out, Flight
<1>2. UnusedOK' /\ ReaderOK'
  BY DEF UnusedOK, ReaderOK, QuietMove, QuietSend
<1>3. ChatOK'
  <2>1. "chat" \in Writers
    BY DEF Writers
  <2> QED BY <1>1, <2>1 DEF ChatOK, QuietSend, QuietSlots
<1>4. AckOK'
  <2>1. HonestAckKnown'
    BY DEF AckOK, HonestAckKnown, QuietMove
  <2>2. ASSUME Live', state' # "RECONNECTING" PROVE Flight(connection)' \in SUBSET deliveries'
    <3>1. connection' = connection /\ connection \in Conns
      BY <2>2, ConnectionExists DEF QuietMove, Live, IInv, TypeOK
    <3>2. Live /\ state # "RECONNECTING"
      BY <2>2, <3>1 DEF QuietMove, Live
    <3>3. PICK k \in Conns : k = connection
      BY <3>1
    <3>4. Flight(connection)' = Flight(k)' /\ Flight(connection) = Flight(k)
      BY <3>1, <3>3 DEF Flight, Out, In
    <3>5. Flight(k)' \in SUBSET Flight(k)
      BY <1>1
    <3>6. Flight(k) \in SUBSET deliveries
      BY <3>2, <3>4 DEF AckOK
    <3> QED BY <2>2, <3>4, <3>5, <3>6 DEF QuietSlots
  <2> QED BY <2>1, <2>2 DEF AckOK
<1> QED BY <1>2, <1>3, <1>4

(* A step that is quiet in every part keeps FInv.                             *)
LEMMA QuietStatusOK ==
  ASSUME FInv, QuietMove, QuietSend, QuietSlots, QuietStatus PROVE StatusOK'
<1> USE DEF FInv
<1>1. \A c \in Conns : Out(c)' = Out(c)
  BY DEF QuietMove, Out
<1>2. \A m \in deliveries' : status'[m] \in {"sending", "sent"} /\ m \in Chats
  BY DEF StatusOK, QuietSlots, QuietStatus, IInv, TypeOK, LogTypeOK
<1>3. \A m \in Chats : m > submitted' => status'[m] = "none"
  BY DEF StatusOK, QuietStatus, QuietMove
<1>4. ASSUME NEW m \in Chats, status'[m] \in {"delivered", "delivery unconfirmed"}
      PROVE  /\ m \in shown'
             /\ \A c \in Conns : m \notin Out(c)'
             /\ writer'["chat"] = "waiting" => ticket'.msg # m
  <2>1. status[m] \in {"delivered", "delivery unconfirmed"}
    BY <1>4 DEF QuietStatus
  <2>2. "chat" \in Writers
    BY DEF Writers
  <2> QED BY <1>1, <2>1, <2>2 DEF StatusOK, QuietMove, QuietSend
<1> QED BY <1>2, <1>3, <1>4 DEF StatusOK

LEMMA QuietOK ==
  ASSUME FInv, IInv', QuietGate, QuietSend, QuietLog PROVE FInv' /\ Settled
<1>1. \A c \in Conns : Out(c)' = Out(c) /\ In(c)' = In(c) /\ Flight(c)' = Flight(c)
  BY DEF QuietGate, QuietMove, Out, In, Flight
<1>2. WiresOK'
  BY <1>1 DEF FInv, WiresOK, QuietGate, QuietMove, Once
<1>3. UnusedOK' /\ ReaderOK' /\ ChatOK' /\ AckOK'
  <2>1. \A c \in Conns : /\ In(c)' \in SUBSET In(c)
                         /\ inbox[c] = <<>> => inbox'[c] = <<>>
    BY <1>1 DEF QuietGate
  <2> QED BY <2>1, FlowOK DEF QuietGate, QuietLog
<1>4. StatusOK'
  BY QuietStatusOK DEF QuietGate, QuietLog
<1> QED BY <1>2, <1>3, <1>4 DEF FInv, QuietLog, QuietStatus

(* Leaving send, and slots that fail all at once.                             *)
LEMMA LeaveSendQuiet ==
  ASSUME SendTypeOK, NEW ws, LeaveSend(ws) PROVE QuietSend
BY DEF SendTypeOK, LeaveSend, QuietSend, Writers

LEMMA FailDeliveriesQuiet ==
  ASSUME FInv, FailDeliveries, state' = "RECONNECTING" \/ ~Live',
         writer'["chat"] = "waiting" => writer["chat"] = "waiting",
         generation' \in Nat, generation <= generation',
         state = "ACTIVE" => generation # generation'
  PROVE  QuietLog
<1> USE DEF FInv, IInv, TypeOK
<1>1. status \in [Chats -> Status] /\ deliveries \in SUBSET Chats
  BY DEF LogTypeOK
<1>2. /\ deliveries' = {}
      /\ \A m \in Chats : status'[m] = IF m \in deliveries THEN "not delivered" ELSE status[m]
  BY <1>1 DEF FailDeliveries
<1>3. ASSUME writer'["chat"] = "waiting", ticket.gen = generation' PROVE FALSE
  <2>1. ticket.gen \in Nat /\ generation \in Nat
    BY DEF SendTypeOK, GateTypeOK
  <2>2. CASE state = "ACTIVE"
    BY <1>3, <2>1, <2>2 DEF TicketOK
  <2>3. CASE state # "ACTIVE"
    BY <1>3, <2>1, <2>3 DEF TicketOK
  <2> QED BY <2>2, <2>3
<1>4. \A m \in deliveries : m <= submitted /\ submitted \in Nat /\ m \in Nat
  BY <1>1, BoundsAssumption DEF SlotsOK, LogTypeOK, Chats
<1>5. Settled
  BY <1>2 DEF Settled, StatusOK
<1>6. ASSUME NEW m \in Chats
      PROVE  /\ status'[m] \in {status[m], "sent", "not delivered"}
             /\ m > submitted => status'[m] = status[m]
             /\ m \notin deliveries'
  <2>1. m \in deliveries => ~(m > submitted)
    BY <1>4
  <2> QED BY <1>2, <2>1
<1> QED BY <1>2, <1>3, <1>5, <1>6 DEF QuietLog, QuietSlots, QuietStatus

(* restrict leaves no usable connection, so it may drop every slot.           *)
LEMMA RestrictionQuiet ==
  ASSUME FInv, NEW links \in [Conns -> BOOLEAN], Restriction(links),
         \A c \in Conns : links[c] => open[c],
         connection' = connection,
         writer'["chat"] = "waiting" => writer["chat"] = "waiting"
  PROVE  /\ \A c \in Conns : open'[c] => open[c]
         /\ state' \in {"LOCKED", "CLOSED"} => state' = state
         /\ ~Live'
         /\ QuietLog
<1>1. GateTypeOK /\ LogTypeOK /\ connection \in 0 .. MaxConns
  BY DEF FInv, IInv, TypeOK, GateTypeOK
<1>2. /\ state' \in {"RESTRICTED", "CLOSED"} /\ generation' \in Nat
      /\ generation <= generation'
      /\ generation' = generation => state' = state
  BY <1>1, RestrictionOK
<1>3. open' = CloseConnection(links) /\ FailDeliveries
  BY DEF Restriction
<1>4. \A c \in Conns : open'[c] => open[c] /\ c # connection
  BY <1>1, <1>3 DEF CloseConnection, Conns
<1>5. ~Live'
  BY <1>1, <1>4, BoundsAssumption DEF Live, Conns
<1>6. state' \in {"LOCKED", "CLOSED"} => state' = state
  BY <1>2 DEF Restriction, Transition
<1>7. state = "ACTIVE" => generation # generation'
  BY <1>2
<1>8. QuietLog
  BY <1>2, <1>3, <1>5, <1>7, FailDeliveriesQuiet
<1> QED BY <1>4, <1>5, <1>6, <1>8

(* A step that leaves the delivery table, the ticket's gate and every status  *)
(* alone.                                                                     *)
LEMMA SameLogQuiet ==
  ASSUME FInv, UNCHANGED <<status, deliveries>>,
         writer'["chat"] = "waiting" => writer["chat"] = "waiting",
         generation' \in Nat, generation <= generation'
  PROVE  QuietLog
<1>1. /\ ticket.gen \in Nat /\ generation \in Nat
      /\ writer["chat"] = "waiting" =>
           /\ ticket.gen <= generation
           /\ ticket.gen = generation => state = "ACTIVE" /\ ticket.msg \in deliveries
  BY DEF FInv, IInv, TypeOK, SendTypeOK, GateTypeOK, TicketOK, ChatOK
<1>2. writer'["chat"] = "waiting" /\ ticket.gen = generation' => ticket.msg \in deliveries'
  BY <1>1
<1>3. deliveries \in SUBSET Chats
  BY DEF FInv, IInv, TypeOK, LogTypeOK
<1> QED BY <1>2, <1>3 DEF QuietLog, QuietSlots, QuietStatus, Settled

(* The reader's exception either restricts or changes nothing but the reader. *)
LEMMA ReaderRaisesQuiet ==
  ASSUME FInv, NEW links \in [Conns -> BOOLEAN], ReaderRaises(links),
         \A c \in Conns : links[c] => open[c],
         connection' = connection,
         writer'["chat"] = "waiting" => writer["chat"] = "waiting"
  PROVE  /\ \A c \in Conns : open'[c] => open[c]
         /\ ~reader'.on
         /\ state = "RECONNECTING" => state' = "RECONNECTING" \/ ~Live'
         /\ QuietLog
<1>1. ~reader'.on
  BY DEF ReaderRaises, NoReader
<1>2. CASE Restriction(links)
  BY <1>1, <1>2, RestrictionQuiet
<1>3. CASE ~Restriction(links)
  <2>1. open' = links /\ UNCHANGED <<state, generation, status, deliveries>>
    BY <1>3 DEF ReaderRaises
  <2>2. generation \in Nat
    BY DEF FInv, IInv, TypeOK, GateTypeOK
  <2>3. QuietLog
    BY <2>1, <2>2, SameLogQuiet
  <2> QED BY <1>1, <2>1, <2>3
<1> QED BY <1>2, <1>3

(* The exceptional end of a send.  The chat it drops from the table is on no  *)
(* wire, or on one that closes with the send.                                 *)
LEMMA SendRaisesQuiet ==
  ASSUME FInv, IInv', NEW w \in Writers, NEW links \in [Conns -> BOOLEAN],
         writer[w] # "idle", SendRaises(w, links),
         \A c \in Conns : links[c] => open[c],
         w = "chat" /\ writer[w] = "draining" =>
            ~links[wconn[w]] /\ ticket.msg \in Out(wconn[w])
  PROVE  FInv' /\ Settled
<1>1. LeaveSend({w}) /\ UNCHANGED <<connection, session, conns, closing, submitted,
                                    slotGen, peerVars, cancels, histVars>>
  BY DEF SendRaises
<1>2. SendTypeOK /\ LogTypeOK /\ GateTypeOK /\ PlacesOK
  BY DEF FInv, IInv, TypeOK
<1>3. QuietSend
  BY <1>1, <1>2, LeaveSendQuiet
<1>4. writer'["chat"] = "waiting" => writer["chat"] = "waiting"
  BY <1>3 DEF QuietSend, Writers
<1>5. UNCHANGED <<buffer, inbox, shown, submitted, connection, conns, badAck>>
  BY <1>1 DEF peerVars, histVars
<1>6. CASE w = "chat"
  <2>1. /\ status' = [status EXCEPT ![ticket.msg] = "not delivered"]
        /\ deliveries' = deliveries \ {ticket.msg} /\ open' = links
        /\ UNCHANGED <<state, generation, reader>>
    BY <1>6 DEF SendRaises
  <2>2. ticket.msg \in Chats /\ ticket.msg <= submitted /\ wconn["chat"] \in Conns
    BY <1>2, <1>6, BoundsAssumption DEF PlacesOK, LogTypeOK, Chats
  <2>3. writer["chat"] \in {"waiting", "draining"} /\ writer'["chat"] = "idle"
    BY <1>1, <1>2, <1>6 DEF SendTypeOK, LeaveSend, Writers
  <2>4. status[ticket.msg] \notin {"delivered", "delivery unconfirmed"}
    BY <1>6, <2>2, <2>3 DEF FInv, StatusOK
  <2>5. ~Live' \/ ticket.msg \notin Flight(connection)'
    <3> SUFFICES ASSUME Live' PROVE ticket.msg \notin Flight(connection)
      BY <1>5 DEF Flight, Out, In
    <3>1. connection # 0 /\ links[connection]
      BY <1>5, <2>1 DEF Live
    <3>2. connection \in Conns /\ links[connection]
      BY <1>2, <3>1, ConnectionExists
    <3>3. CASE writer["chat"] = "waiting"
      BY <3>2, <3>3 DEF FInv, ChatOK
    <3>4. CASE writer["chat"] = "draining"
      <4>1. connection # wconn["chat"]
        BY <1>6, <3>2, <3>4
      <4> QED BY <3>2, <3>4, <4>1 DEF FInv, ChatOK
    <3> QED BY <2>3, <3>3, <3>4
  <2>6. Settled
    BY <1>2, <2>1, <2>2, <2>4 DEF Settled, LogTypeOK
  <2>7. QuietLog
    <3>1. \A m \in Chats : m > submitted => m # ticket.msg
      BY <1>2, <2>2 DEF LogTypeOK, Chats
    <3>2. ASSUME NEW m \in Chats
          PROVE  /\ status'[m] \in {status[m], "sent", "not delivered"}
                 /\ m > submitted => status'[m] = status[m]
                 /\ m \in deliveries' => status'[m] \in {status[m], "sent"}
      <4>1. CASE m = ticket.msg
        BY <1>2, <2>1, <2>2, <3>1, <4>1 DEF LogTypeOK
      <4>2. CASE m # ticket.msg
        BY <1>2, <2>1, <4>2 DEF LogTypeOK
      <4> QED BY <4>1, <4>2
    <3> QED BY <2>1, <2>3, <2>5, <2>6, <3>2 DEF QuietLog, QuietSlots, QuietStatus
  <2>8. QuietGate
    BY <1>5, <2>1 DEF QuietGate, QuietMove, FInv, ReaderOK
  <2> QED BY <1>3, <2>6, <2>7, <2>8, QuietOK
<1>7. CASE w = "reader"
  <2>1. ReaderRaises(links)
    BY <1>7 DEF SendRaises
  <2>2. QuietLog /\ QuietGate
    BY <1>4, <1>5, <2>1, ReaderRaisesQuiet DEF QuietGate, QuietMove
  <2> QED BY <1>3, <2>2, QuietOK
<1>8. CASE w = "task"
  <2>1. Restriction(links) /\ UNCHANGED reader
    BY <1>8 DEF SendRaises
  <2>2. QuietLog /\ QuietGate
    BY <1>4, <1>5, <2>1, RestrictionQuiet DEF QuietGate, QuietMove, FInv, ReaderOK
  <2> QED BY <1>3, <2>2, QuietOK
<1> QED BY <1>6, <1>7, <1>8 DEF Writers

LEMMA CancelChatQuiet == ASSUME FInv, IInv', CancelChat PROVE FInv' /\ Settled
<1>1. /\ LeaveSend({"chat"}) /\ open' = [open EXCEPT ![wconn["chat"]] = FALSE]
      /\ UNCHANGED <<gateVars, reader, logVars, peerVars, histVars>>
  BY DEF CancelChat
<1>2. GateTypeOK /\ SendTypeOK /\ generation \in Nat
  BY DEF FInv, IInv, TypeOK, GateTypeOK
<1>3. QuietSend
  BY <1>1, <1>2, LeaveSendQuiet
<1>4. writer'["chat"] = "waiting" => writer["chat"] = "waiting"
  BY <1>3 DEF QuietSend, Writers
<1>5. QuietLog
  BY <1>1, <1>2, <1>4, SameLogQuiet DEF gateVars, logVars
<1>6. QuietGate
  BY <1>1, <1>2 DEF QuietGate, QuietMove, GateTypeOK, gateVars, logVars, peerVars, histVars,
                    FInv, ReaderOK
<1> QED BY <1>3, <1>5, <1>6, QuietOK

(* After a send that returned only "sending" becomes "sent".                  *)
LEMMA DrainDoneQuiet ==
  ASSUME FInv, IInv', NEW w \in Writers, DrainDone(w) PROVE FInv' /\ Settled
<1>1. /\ LeaveSend({w})
      /\ status' = IF w = "chat" THEN [status EXCEPT ![ticket.msg] = Sent(ticket.msg)]
                                 ELSE status
      /\ IF w = "reader" THEN ReaderLoops ELSE UNCHANGED reader
      /\ UNCHANGED <<gateVars, open, submitted, deliveries, slotGen,
                     peerVars, cancels, histVars>>
  BY DEF DrainDone
<1>2. GateTypeOK /\ SendTypeOK /\ LogTypeOK /\ generation \in Nat
  BY DEF FInv, IInv, TypeOK, GateTypeOK
<1>3. QuietSend
  BY <1>1, <1>2, LeaveSendQuiet
<1>4. writer'["chat"] = "waiting" => writer["chat"] = "waiting"
  BY <1>3 DEF QuietSend, Writers
<1>5. ASSUME NEW m \in Chats
      PROVE  status'[m] = status[m] \/ (status[m] = "sending" /\ status'[m] = "sent")
  BY <1>1, <1>2 DEF LogTypeOK, Sent
<1>6. \A m \in Chats : m > submitted => status'[m] = status[m]
  BY <1>5 DEF FInv, StatusOK
<1>7. Settled
  BY <1>5 DEF Settled
<1>8. /\ ticket.gen = generation /\ writer["chat"] = "waiting" => ticket.msg \in deliveries
      /\ UNCHANGED <<deliveries, generation>> /\ deliveries \in SUBSET Chats
  BY <1>1, <1>2 DEF FInv, ChatOK, LogTypeOK, gateVars
<1>9. QuietLog
  BY <1>4, <1>5, <1>6, <1>7, <1>8 DEF QuietLog, QuietSlots, QuietStatus
<1>10. reader'.on => reader.on /\ reader'.conn = reader.conn
  BY <1>1, <1>2 DEF SendTypeOK, ReaderLoops, NoReader
<1>11. QuietGate
  BY <1>1, <1>10 DEF QuietGate, QuietMove, gateVars, peerVars, histVars, FInv, ReaderOK
<1> QED BY <1>3, <1>7, <1>9, <1>11, QuietOK

(* Steps that only close connections, stop the reader or move a disconnect on.*)
LEMMA LinkStepQuiet ==
  ASSUME FInv, IInv',
         ReceiveFails \/ DisconnectBegins \/ DisconnectCloses \/ DisconnectAbandoned
  PROVE  FInv' /\ Settled
<1>1. UNCHANGED <<state, generation, connection, session, conns, sendVars, reader,
                  logVars, peerVars, histVars>>
  BY DEF ReceiveFails, DisconnectBegins, DisconnectCloses, DisconnectAbandoned, gateVars
<1>2. GateTypeOK /\ generation \in Nat
  BY DEF FInv, IInv, TypeOK, GateTypeOK
<1>3. \A c \in Conns : open'[c] => open[c]
  BY <1>2 DEF ReceiveFails, DisconnectBegins, DisconnectCloses, DisconnectAbandoned,
              CloseConnection, GateTypeOK
<1>4. QuietSend
  BY <1>1 DEF QuietSend, sendVars
<1>5. QuietLog
  BY <1>1, <1>2, SameLogQuiet DEF sendVars, logVars
<1>6. QuietGate
  BY <1>1, <1>3 DEF QuietGate, QuietMove, logVars, peerVars, histVars, FInv, ReaderOK
<1> QED BY <1>4, <1>5, <1>6, QuietOK

LEMMA ReaderSeesCloseQuiet == ASSUME FInv, IInv', ReaderSeesClose PROVE FInv' /\ Settled
<1>1. /\ ReaderRaises(open)
      /\ UNCHANGED <<connection, session, conns, closing, sendVars, submitted,
                     slotGen, peerVars, cancels, histVars>>
  BY DEF ReaderSeesClose
<1>2. open \in [Conns -> BOOLEAN]
  BY DEF FInv, IInv, TypeOK, GateTypeOK
<1>3. QuietSend /\ writer'["chat"] = writer["chat"]
  BY <1>1 DEF QuietSend, sendVars
<1>4. QuietLog /\ QuietGate
  BY <1>1, <1>2, <1>3, ReaderRaisesQuiet DEF QuietGate, QuietMove, peerVars, histVars
<1> QED BY <1>3, <1>4, QuietOK

LEMMA CancelReaderQuiet == ASSUME FInv, IInv', CancelReader PROVE FInv' /\ Settled
<1>1. /\ LeaveSend({"reader"}) /\ reader' = NoReader
      /\ open' = [open EXCEPT ![reader.conn] = FALSE]
      /\ UNCHANGED <<gateVars, logVars, peerVars, cancels, histVars>>
  BY DEF CancelReader
<1>2. GateTypeOK /\ SendTypeOK /\ generation \in Nat
  BY DEF FInv, IInv, TypeOK, GateTypeOK
<1>3. QuietSend
  BY <1>1, <1>2, LeaveSendQuiet
<1>4. writer'["chat"] = "waiting" => writer["chat"] = "waiting"
  BY <1>3 DEF QuietSend, Writers
<1>5. QuietLog
  BY <1>1, <1>2, <1>4, SameLogQuiet DEF gateVars, logVars
<1>6. QuietGate
  BY <1>1, <1>2 DEF QuietGate, QuietMove, GateTypeOK, gateVars, logVars, peerVars, histVars,
      NoReader
<1> QED BY <1>3, <1>5, <1>6, QuietOK

(* The gate opens, asks again, or closes the connection it is replacing.      *)
LEMMA GateStepQuiet ==
  ASSUME FInv, IInv', Approve \/ Reverify \/ CloseForRecovery PROVE FInv' /\ Settled
<1>1. GateTypeOK /\ generation \in Nat
  BY DEF FInv, IInv, TypeOK, GateTypeOK
<1>2. /\ OnlyGateMoves /\ UNCHANGED <<status, deliveries, badAck>>
      /\ generation' \in Nat /\ generation <= generation'
      /\ state' = state \/ (state # "RECONNECTING" /\ state' \in {"ACTIVE", "VERIFYING"})
  BY <1>1 DEF Approve, Reverify, CloseForRecovery, Transition, Generation, histVars
<1>3. \A c \in Conns : open'[c] => open[c]
  BY <1>1 DEF Approve, Reverify, CloseForRecovery, CloseConnection, GateTypeOK
<1>4. QuietSend /\ writer'["chat"] = writer["chat"]
  BY <1>2 DEF QuietSend, OnlyGateMoves, sendVars
<1>5. QuietLog
  BY <1>2, <1>4, SameLogQuiet
<1>6. QuietGate
  BY <1>2, <1>3 DEF QuietGate, QuietMove, OnlyGateMoves, peerVars, FInv, ReaderOK
<1> QED BY <1>4, <1>5, <1>6, QuietOK

LEMMA ReserveRecoveryQuiet == ASSUME FInv, IInv', ReserveRecovery PROVE FInv' /\ Settled
<1>1. GateTypeOK /\ generation \in Nat
  BY DEF FInv, IInv, TypeOK, GateTypeOK
<1>2. /\ OnlyGateMoves /\ FailDeliveries /\ UNCHANGED <<open, badAck>>
      /\ generation' = generation + 1 /\ state' = "RECONNECTING"
  BY DEF ReserveRecovery, Transition, Generation, histVars
<1>3. QuietSend /\ writer'["chat"] = writer["chat"]
  BY <1>2 DEF QuietSend, OnlyGateMoves, sendVars
<1>4. QuietLog
  BY <1>1, <1>2, <1>3, FailDeliveriesQuiet
<1>5. QuietGate
  BY <1>2 DEF QuietGate, QuietMove, OnlyGateMoves, peerVars
<1> QED BY <1>3, <1>4, <1>5, QuietOK

LEMMA RestrictSessionQuiet == ASSUME FInv, IInv', RestrictSession PROVE FInv' /\ Settled
<1>1. open \in [Conns -> BOOLEAN]
  BY DEF FInv, IInv, TypeOK, GateTypeOK
<1>2. Restriction(open) /\ OnlyGateMoves /\ UNCHANGED badAck
  BY DEF RestrictSession, histVars
<1>3. QuietSend /\ writer'["chat"] = writer["chat"] /\ connection' = connection
  BY <1>2 DEF QuietSend, OnlyGateMoves, sendVars
<1>4. QuietLog /\ QuietGate
  BY <1>1, <1>2, <1>3, RestrictionQuiet DEF QuietGate, QuietMove, OnlyGateMoves, peerVars, FInv,
      ReaderOK
<1> QED BY <1>3, <1>4, QuietOK

LEMMA DisconnectEndsQuiet == ASSUME FInv, IInv', DisconnectEnds PROVE FInv' /\ Settled
<1>1. /\ Transition("CLOSED") /\ FailDeliveries /\ open' = CloseConnection(open)
      /\ reader' = NoReader /\ LeaveSend({"reader", "task"})
      /\ UNCHANGED <<connection, session, conns, submitted, slotGen, peerVars,
                     cancels, histVars>>
  BY DEF DisconnectEnds
<1>2. GateTypeOK /\ SendTypeOK /\ generation \in Nat
  BY DEF FInv, IInv, TypeOK, GateTypeOK
<1>3. /\ generation' \in Nat /\ generation <= generation'
      /\ state = "ACTIVE" => generation # generation'
  BY <1>1, <1>2 DEF Transition, Generation
<1>4. QuietSend
  BY <1>1, <1>2, LeaveSendQuiet
<1>5. writer'["chat"] = "waiting" => writer["chat"] = "waiting"
  BY <1>4 DEF QuietSend, Writers
<1>6. (\A c \in Conns : open'[c] => open[c]) /\ ~Live'
  <2>1. \A c \in Conns : open'[c] => open[c] /\ c # connection
    BY <1>1, <1>2 DEF CloseConnection, GateTypeOK, Conns
  <2>2. connection' = connection
    BY <1>1
  <2> QED BY <1>2, <2>1, <2>2, ConnectionExists DEF Live
<1>7. QuietLog
  BY <1>1, <1>3, <1>5, <1>6, FailDeliveriesQuiet
<1>8. QuietGate
  BY <1>1, <1>6 DEF QuietGate, QuietMove, peerVars, histVars, NoReader
<1> QED BY <1>4, <1>7, <1>8, QuietOK

(* Steps that leave the wires alone leave every flight alone.                 *)
LEMMA SameWires ==
  ASSUME UNCHANGED <<buffer, inbox>>
  PROVE  \A c \in Conns : Out(c)' = Out(c) /\ In(c)' = In(c) /\ Flight(c)' = Flight(c)
BY DEF Out, In, Flight

(* Another coroutine queues for the lock: it sends no chat.                   *)
LEMMA JoinControlOK ==
  ASSUME FInv, IInv', NEW w \in Writers \ {"chat"}, NEW c \in Conns, JoinSend(w, c),
         c \in 1 .. conns,
         UNCHANGED <<state, generation, connection, conns, open, ticket, reader, submitted,
                     status, deliveries, buffer, shown, badAck>>,
         \A d \in Conns : Out(d)' = Out(d) /\ In(d)' \in SUBSET In(d),
         \A d \in Conns : inbox[d] = <<>> => inbox'[d] = <<>>,
         WiresOK'
  PROVE  FInv'
<1>1. /\ writer'[w] = "waiting" /\ wconn'[w] = c
      /\ \A v \in Writers \ {w} : writer'[v] = writer[v] /\ wconn'[v] = wconn[v]
  <2>1. SendTypeOK
    BY DEF FInv, IInv, TypeOK
  <2> QED BY <2>1, JoinSendOK
<1>2. \A d \in Conns : Flight(d)' \in SUBSET Flight(d)
  BY DEF Flight
<1>3. writer'["chat"] = writer["chat"] /\ wconn'["chat"] = wconn["chat"]
  BY <1>1 DEF Writers
<1>4. UnusedOK' /\ ReaderOK'
  BY <1>1 DEF FInv, UnusedOK, ReaderOK
<1>5. ChatOK'
  BY <1>2, <1>3 DEF FInv, ChatOK
<1>6. AckOK'
  <2>1. GateTypeOK
    BY DEF FInv, IInv, TypeOK
  <2>2. HonestAckKnown'
    BY DEF FInv, AckOK, HonestAckKnown
  <2>3. ASSUME Live', state' # "RECONNECTING" PROVE Flight(connection)' \in SUBSET deliveries'
    <3>1. Live /\ connection \in Conns
      BY <2>1, <2>3, ConnectionExists DEF Live
    <3>2. Flight(connection) \in SUBSET deliveries
      BY <2>3, <3>1 DEF FInv, AckOK
    <3>3. Flight(connection)' \in SUBSET Flight(connection)
      BY <1>2, <3>1
    <3> QED BY <3>2, <3>3
  <2> QED BY <2>2, <2>3 DEF AckOK
<1>7. StatusOK'
  BY <1>3 DEF FInv, StatusOK
<1> QED BY <1>4, <1>5, <1>6, <1>7 DEF FInv

LEMMA SendControlQuiet == ASSUME FInv, IInv', SendControl PROVE FInv' /\ Settled
<1>1. /\ JoinSend("task", connection) /\ connection # 0
      /\ UNCHANGED <<gateVars, open, ticket, reader, logVars, peerVars, cancels, histVars>>
  BY DEF SendControl
<1>2. connection \in Conns /\ connection \in 1 .. conns
  <2>1. GateTypeOK /\ connection \in 0 .. conns /\ conns \in Nat
    BY BoundsAssumption DEF FInv, IInv, TypeOK, UnusedOK, GateTypeOK
  <2> QED BY <1>1, <2>1, ConnectionExists
<1>3. \A d \in Conns : Out(d)' = Out(d) /\ In(d)' = In(d) /\ Flight(d)' = Flight(d)
  BY <1>1, SameWires DEF peerVars
<1>4. WiresOK'
  BY <1>1, <1>3 DEF FInv, WiresOK, logVars, peerVars, Once
<1>5. "task" \in Writers \ {"chat"}
  BY DEF Writers
<1>6. /\ UNCHANGED <<state, generation, connection, conns, open, ticket, reader, submitted,
                     status, deliveries, buffer, inbox, shown, badAck>>
  BY <1>1 DEF gateVars, logVars, peerVars, histVars
<1> QED BY <1>1, <1>2, <1>3, <1>4, <1>5, <1>6, JoinControlOK DEF Settled

(* A new session and a new connection begin with nothing in flight.           *)
LEMMA NewSessionQuiet == ASSUME FInv, IInv', NewSession PROVE FInv' /\ Settled
<1>1. /\ writer["chat"] = "idle" /\ state' = "CONNECTING" /\ connection' = 0 /\ ~reader.on
      /\ UNCHANGED <<conns, open, sendVars, reader, logVars, peerVars, cancels, histVars>>
  BY DEF NewSession, FInv, ReaderOK
<1>2. \A c \in Conns : Out(c)' = Out(c) /\ In(c)' = In(c) /\ Flight(c)' = Flight(c)
  BY <1>1, SameWires DEF peerVars
<1>3. WiresOK'
  BY <1>1, <1>2 DEF FInv, WiresOK, logVars, peerVars, Once
<1>4. UnusedOK' /\ ReaderOK'
  <2>1. 0 \in 0 .. conns
    BY BoundsAssumption DEF FInv, IInv, TypeOK, GateTypeOK
  <2> QED BY <1>1, <2>1 DEF FInv, UnusedOK, ReaderOK, sendVars, peerVars
<1>5. ChatOK' /\ AckOK'
  BY <1>1 DEF FInv, ChatOK, AckOK, HonestAckKnown, Live, sendVars, histVars
<1>6. StatusOK'
  BY <1>1, <1>2 DEF FInv, StatusOK, sendVars, logVars, peerVars
<1>7. Settled
  BY <1>1 DEF Settled, logVars
<1> QED BY <1>3, <1>4, <1>5, <1>6, <1>7 DEF FInv

LEMMA AttachQuiet == ASSUME FInv, IInv', Attach PROVE FInv' /\ Settled
<1>1. /\ ~reader.on /\ state' = "VERIFYING" /\ generation' = generation + 1
      /\ generation \in Nat /\ conns' = conns + 1 /\ connection' = conns + 1
      /\ conns \in Nat /\ conns + 1 \in Conns
      /\ open' = [open EXCEPT ![conns + 1] = TRUE]
      /\ reader' = [on |-> TRUE, conn |-> conns + 1, gen |-> generation + 1]
      /\ UNCHANGED <<sendVars, logVars, peerVars, histVars>>
  BY BoundsAssumption DEF Attach, Transition, Generation, GateTypeOK, Conns, FInv, IInv, TypeOK
<1>2. \A c \in Conns : Out(c)' = Out(c) /\ In(c)' = In(c) /\ Flight(c)' = Flight(c)
  BY <1>1, SameWires DEF peerVars
<1>3. WiresOK'
  BY <1>1, <1>2 DEF FInv, WiresOK, logVars, peerVars, Once
<1>4. UnusedOK' /\ ReaderOK'
  <2>1. \A c \in Conns : c > conns + 1 => c > conns /\ c # conns + 1
    BY <1>1 DEF Conns
  <2>2. open \in [Conns -> BOOLEAN]
    BY DEF FInv, IInv, TypeOK, GateTypeOK
  <2>3. \A w \in Writers : writer'[w] # "idle" => wconn'[w] \in 1 .. conns'
    BY <1>1 DEF FInv, UnusedOK, sendVars
  <2>4. \A c \in Conns : c > conns' => ~open'[c] /\ buffer'[c] = <<>> /\ inbox'[c] = <<>>
    BY <1>1, <2>1, <2>2 DEF FInv, UnusedOK, peerVars
  <2>5. connection' \in 0 .. conns'
    BY <1>1
  <2>6. ReaderOK'
    BY <1>1 DEF ReaderOK
  <2> QED BY <2>3, <2>4, <2>5, <2>6 DEF UnusedOK
<1>5. ChatOK'
  <2>1. writer["chat"] = "waiting" => ticket.gen # generation'
    BY <1>1 DEF FInv, IInv, TypeOK, SendTypeOK, TicketOK
  <2> QED BY <1>1, <1>2, <2>1 DEF FInv, ChatOK, sendVars
<1>6. AckOK'
  <2>1. conns + 1 > conns
    BY <1>1
  <2>2. buffer[conns + 1] = <<>> /\ inbox[conns + 1] = <<>>
    BY <1>1, <2>1 DEF FInv, UnusedOK
  <2>3. Flight(connection)' = {}
    BY <1>1, <2>2 DEF Flight, Out, In, Vals, peerVars
  <2> QED BY <1>1, <2>3 DEF FInv, AckOK, HonestAckKnown, histVars
<1>7. StatusOK'
  BY <1>1, <1>2 DEF FInv, StatusOK, sendVars, logVars, peerVars
<1>8. Settled
  BY <1>1 DEF Settled, logVars
<1> QED BY <1>3, <1>4, <1>5, <1>6, <1>7, <1>8 DEF FInv

(* The user presses send: a chat nobody has seen, so it is on no wire.        *)
LEMMA SendChatQuiet == ASSUME FInv, IInv', SendChat PROVE FInv' /\ Settled
<1> DEFINE m == submitted + 1
<1>1. submitted \in Nat /\ m \in Chats /\ m > submitted
  <2>1. submitted < MaxChats
    BY DEF SendChat
  <2>2. submitted \in 0 .. MaxChats
    BY DEF FInv, IInv, TypeOK, LogTypeOK
  <2> QED BY <2>1, <2>2, BoundsAssumption DEF Chats
<1>2. /\ submitted' = m /\ writer["chat"] = "idle" /\ state = "ACTIVE"
      /\ UNCHANGED <<gateVars, open, reader, peerVars, cancels, approval, written, badAck>>
  BY DEF SendChat
<1>3. status \in [Chats -> Status] /\ deliveries \in SUBSET Chats
  BY DEF FInv, IInv, TypeOK, LogTypeOK
<1>4. \A c \in Conns : Out(c)' = Out(c) /\ In(c)' = In(c) /\ Flight(c)' = Flight(c)
  BY <1>2, SameWires DEF peerVars
<1>5. \A c \in Conns : m \notin Flight(c)
  BY <1>1 DEF FInv, WiresOK
<1>6. status[m] = "none" /\ \A d \in deliveries : d # m
  <2>1. status[m] = "none"
    BY <1>1 DEF FInv, StatusOK
  <2> QED BY <2>1 DEF FInv, StatusOK
<1>7. WiresOK'
  <2>1. 1 .. submitted \in SUBSET (1 .. m)
    BY <1>1
  <2>2. UNCHANGED <<buffer, inbox, shown>>
    BY <1>2 DEF peerVars
  <2> QED BY <1>2, <1>4, <2>1, <2>2 DEF FInv, WiresOK, Once
<1>8. ReaderOK'
  BY <1>2 DEF FInv, ReaderOK, gateVars
<1>9. \A n \in Chats : n > m => n > submitted /\ n # m
  BY <1>1, BoundsAssumption DEF Chats
<1>10. \A n \in Conns : n \in 0 .. conns => n \in 1 .. conns
  <2>1. conns \in 0 .. MaxConns
    BY DEF FInv, IInv, TypeOK, GateTypeOK
  <2> QED BY <2>1, BoundsAssumption DEF Conns
<1>11. PICK s \in {"sending", "not delivered"} : status' = [status EXCEPT ![m] = s]
  BY DEF SendChat
<1>12. \A n \in Chats : n # m => status'[n] = status[n]
  BY <1>3, <1>11
<1>13. Settled
  BY <1>6, <1>12 DEF Settled
<1>14. status'[m] = s
  BY <1>1, <1>3, <1>11
<1>15. \A n \in Chats : n > submitted' => status'[n] = "none"
  <2> SUFFICES ASSUME NEW n \in Chats, n > m PROVE status'[n] = "none"
    BY <1>2
  <2>1. n > submitted /\ n # m
    BY <1>9
  <2> QED BY <1>12, <2>1 DEF FInv, StatusOK
<1> HIDE DEF m
<1>16. CASE open[connection]
  <2>1. /\ status' = [status EXCEPT ![m] = "sending"]
        /\ deliveries' = deliveries \cup {m}
        /\ ticket' = [msg |-> m, gen |-> generation, session |-> session]
        /\ JoinSend("chat", connection)
    BY <1>16 DEF SendChat, m
  <2>2. connection \in Conns /\ connection \in 1 .. conns
    <3>1. connection \in Conns
      BY <1>2 DEF FInv, IInv, PlacesOK
    <3>2. connection \in 0 .. conns /\ conns \in 0 .. MaxConns
      BY DEF FInv, IInv, TypeOK, GateTypeOK, UnusedOK
    <3> QED BY <1>10, <3>1, <3>2
  <2>3. /\ writer'["chat"] = "waiting" /\ wconn'["chat"] = connection
        /\ \A v \in Writers \ {"chat"} : writer'[v] = writer[v] /\ wconn'[v] = wconn[v]
    <3>1. SendTypeOK /\ "chat" \in Writers
      BY DEF FInv, IInv, TypeOK, Writers
    <3> QED BY <2>1, <2>2, <3>1, JoinSendOK
  <2>4. UnusedOK'
    BY <1>2, <2>2, <2>3 DEF FInv, UnusedOK, gateVars, peerVars
  <2>5. ChatOK'
    BY <1>4, <1>5, <2>1, <2>3 DEF ChatOK
  <2>6. AckOK'
    BY <1>2, <1>4, <2>1, <2>2 DEF FInv, AckOK, HonestAckKnown, Live, gateVars
  <2>7. StatusOK'
    <3>1. \A n \in deliveries' : status'[n] \in {"sending", "sent"}
      BY <1>1, <1>3, <1>6, <1>12, <2>1 DEF FInv, StatusOK
    <3>2. ASSUME NEW n \in Chats, status'[n] \in {"delivered", "delivery unconfirmed"}
          PROVE  /\ n \in shown'
                 /\ \A c \in Conns : n \notin Out(c)'
                 /\ writer'["chat"] = "waiting" => ticket'.msg # n
      <4>1. n # m /\ status'[n] = status[n]
        BY <1>11, <1>12, <1>14, <3>2
      <4> QED BY <1>2, <1>4, <2>1, <3>2, <4>1 DEF FInv, StatusOK, peerVars
    <3> QED BY <1>15, <3>1, <3>2 DEF StatusOK
  <2> QED BY <1>7, <1>8, <1>13, <2>4, <2>5, <2>6, <2>7 DEF FInv
<1>17. CASE ~open[connection]
  <2>1. UNCHANGED <<deliveries, ahead, writer, wconn, ticket>>
    BY <1>17 DEF SendChat, sendVars
  <2>2. UnusedOK' /\ ChatOK'
    BY <1>2, <2>1 DEF FInv, UnusedOK, ChatOK, gateVars, peerVars
  <2>3. AckOK'
    BY <1>2, <1>17, <2>1 DEF FInv, AckOK, HonestAckKnown, Live, gateVars
  <2>4. StatusOK'
    <3>1. \A n \in deliveries' : status'[n] \in {"sending", "sent"}
      BY <1>3, <1>6, <1>12, <2>1 DEF FInv, StatusOK
    <3>2. ASSUME NEW n \in Chats, status'[n] \in {"delivered", "delivery unconfirmed"}
          PROVE  /\ n \in shown'
                 /\ \A c \in Conns : n \notin Out(c)'
                 /\ writer'["chat"] = "waiting" => ticket'.msg # n
      <4>1. n # m /\ status'[n] = status[n]
        BY <1>11, <1>12, <1>14, <3>2
      <4> QED BY <1>2, <1>4, <2>1, <3>2, <4>1 DEF FInv, StatusOK, peerVars
    <3> QED BY <1>15, <3>1, <3>2 DEF StatusOK
  <2> QED BY <1>7, <1>8, <1>13, <2>2, <2>3, <2>4 DEF FInv
<1> QED BY <1>16, <1>17

(* A write puts the chat at hand on its wire, under a ticket that is still    *)
(* good; every other frame carries no chat.                                   *)
LEMMA WriteFrameQuiet ==
  ASSUME FInv, IInv', NEW w \in Writers, WriteFrame(w) PROVE FInv' /\ Settled
<1>1. /\ writer[w] = "waiting" /\ MayWrite(w)
      /\ writer' = [writer EXCEPT ![w] = "draining"]
      /\ UNCHANGED <<gateVars, open, wconn, ticket, reader, logVars, inbox, shown, badAck>>
  BY DEF WriteFrame
<1>2. /\ SendTypeOK /\ GateTypeOK /\ PeerTypeOK /\ PlacesOK /\ WiresOK /\ UnusedOK /\ ReaderOK
      /\ ChatOK /\ AckOK /\ StatusOK
  BY DEF FInv, IInv, TypeOK
<1>3. \A v \in Writers : writer'[v] = IF v = w THEN "draining" ELSE writer[v]
  BY <1>1, <1>2 DEF SendTypeOK
<1>4. Settled
  BY <1>1 DEF Settled, logVars
<1>5. ReaderOK'
  BY <1>1, <1>2 DEF ReaderOK, gateVars
<1>6. CASE w # "chat"
  <2>1. UNCHANGED <<buffer, inbox>> /\ writer'["chat"] = writer["chat"]
    BY <1>1, <1>3, <1>6 DEF WriteFrame, Writers
  <2>2. \A c \in Conns : Out(c)' = Out(c) /\ In(c)' = In(c) /\ Flight(c)' = Flight(c)
    BY <2>1, SameWires
  <2>3. WiresOK'
    BY <1>1, <1>2, <2>1, <2>2 DEF WiresOK, logVars, Once
  <2>4. UnusedOK'
    BY <1>1, <1>2, <1>3, <2>1 DEF UnusedOK, gateVars
  <2>5. ChatOK'
    BY <1>1, <1>2, <2>1, <2>2 DEF ChatOK, gateVars, logVars
  <2>6. AckOK'
    BY <1>1, <1>2, <2>1, <2>2 DEF AckOK, HonestAckKnown, Live, Flight, Out, In, gateVars, logVars
  <2>7. StatusOK'
    BY <1>1, <1>2, <2>1, <2>2 DEF StatusOK, logVars
  <2> QED BY <1>4, <1>5, <2>3, <2>4, <2>5, <2>6, <2>7 DEF FInv
<1>7. CASE w = "chat"
  <2>w. wconn["chat"] \in Conns /\ ticket.msg \in 1 .. submitted /\ ticket.msg \in Chats
    BY <1>1, <1>2, <1>7, BoundsAssumption DEF PlacesOK, FInv, IInv, TypeOK, LogTypeOK, Chats
  <2>k. PICK k \in Conns : k = wconn["chat"]
    BY <2>w
  <2>m. PICK m \in Chats : m = ticket.msg
    BY <2>w
  <2>1. m \in 1 .. submitted
    BY <2>w, <2>m
  <2>2. buffer' = [buffer EXCEPT ![k] = Append(buffer[k], m)]
    BY <1>7, <2>k, <2>m DEF WriteFrame
  <2>3. /\ ticket.gen = generation /\ k = connection /\ open[k]
        /\ m \in deliveries /\ \A c \in Conns : m \notin Flight(c)
    BY <1>1, <1>2, <1>7, <2>k, <2>m DEF MayWrite, Permitted, ChatOK
  <2>4. status[m] \in {"sending", "sent"}
    BY <1>2, <2>3 DEF StatusOK
  <2>5. /\ Out(k)' = Out(k) \cup {m} /\ Once(buffer'[k])
        /\ \A c \in Conns \ {k} : Out(c)' = Out(c) /\ buffer'[c] = buffer[c]
    <3>1. buffer[k] \in Seq(Chats) /\ buffer'[k] = Append(buffer[k], m)
      BY <1>2, <2>1, <2>2 DEF PeerTypeOK
    <3>2. \A c \in Conns \ {k} : buffer'[c] = buffer[c]
      BY <1>2, <2>1, <2>2 DEF PeerTypeOK
    <3>3. Once(buffer[k]) /\ m \notin Vals(buffer[k])
      BY <1>2, <2>1, <2>3 DEF WiresOK, Flight, Out
    <3>4. Vals(Append(buffer[k], m)) = Vals(buffer[k]) \cup {m} /\ Once(Append(buffer[k], m))
      BY <2>1, <3>1, <3>3, AppendVals
    <3> QED BY <2>1, <3>1, <3>2, <3>4 DEF Out
  <2>6. \A c \in Conns : In(c)' = In(c)
    BY <1>1 DEF In
  <2>7. /\ Flight(k)' = Flight(k) \cup {m}
        /\ \A c \in Conns \ {k} : Flight(c)' = Flight(c)
    BY <2>1, <2>5, <2>6 DEF Flight
  <2>8. WiresOK'
    <3>1. UNCHANGED <<inbox, shown, submitted>>
      BY <1>1 DEF logVars
    <3>2. ASSUME NEW c \in Conns
          PROVE  /\ Once(buffer[c])' /\ Once(inbox[c])' /\ (Out(c) \cap In(c) = {})'
                 /\ Flight(c)' \in SUBSET (1 .. submitted') /\ In(c)' \in SUBSET shown'
      <4>1. Once(buffer[c])' /\ Once(inbox[c])'
        BY <1>2, <2>5, <3>1 DEF WiresOK, Once
      <4>2. Out(c)' \cap In(c)' = {}
        BY <1>2, <2>3, <2>5, <2>6 DEF WiresOK, Flight
      <4>3. Flight(c)' \in SUBSET (1 .. submitted') /\ In(c)' \in SUBSET shown'
        BY <1>2, <2>1, <2>6, <2>7, <3>1 DEF WiresOK
      <4> QED BY <4>1, <4>2, <4>3
    <3>3. ASSUME NEW c \in Conns, NEW d \in Conns, c # d
          PROVE  Flight(c)' \cap Flight(d)' = {}
      BY <1>2, <2>3, <2>7, <3>3 DEF WiresOK
    <3> QED BY <3>2, <3>3 DEF WiresOK
  <2>9. UnusedOK'
    <3>1. k \in 1 .. conns /\ UNCHANGED <<conns, connection, open, inbox, wconn>>
      BY <1>1, <1>2, <1>7, <2>k DEF UnusedOK, gateVars
    <3>2. conns \in Nat
      BY <1>2, BoundsAssumption DEF GateTypeOK
    <3>3. \A c \in Conns : c > conns => c # k
      BY <3>1, <3>2
    <3>4. \A c \in Conns : c > conns => buffer'[c] = buffer[c]
      BY <2>5, <3>3
    <3> QED BY <1>1, <1>2, <1>3, <3>1, <3>4 DEF UnusedOK
  <2>10. writer'["chat"] = "draining" /\ wconn'["chat"] = k
    BY <1>1, <1>3, <1>7, <2>k
  <2>11. ChatOK'
    BY <1>1, <2>3, <2>7, <2>10, <2>m DEF ChatOK
  <2>12. AckOK'
    <3>1. UNCHANGED <<connection, open, state, deliveries, badAck>>
      BY <1>1 DEF gateVars, logVars
    <3>2. Live /\ state # "RECONNECTING" => Flight(k)' \in SUBSET deliveries
      BY <1>2, <2>3, <2>7 DEF AckOK
    <3>3. Flight(connection)' = Flight(k)'
      BY <2>3, <3>1 DEF Flight, Out, In
    <3> QED BY <1>2, <3>1, <3>2, <3>3 DEF AckOK, HonestAckKnown, Live
  <2>13. StatusOK'
    <3>1. UNCHANGED <<status, deliveries, submitted, shown>>
      BY <1>1 DEF logVars
    <3>2. ASSUME NEW n \in Chats, status'[n] \in {"delivered", "delivery unconfirmed"}
          PROVE  /\ n \in shown'
                 /\ \A c \in Conns : n \notin Out(c)'
                 /\ writer'["chat"] = "waiting" => ticket'.msg # n
      <4>1. n # m
        BY <2>4, <3>1, <3>2
      <4>2. n \in shown /\ \A c \in Conns : n \notin Out(c)
        BY <1>2, <3>1, <3>2 DEF StatusOK
      <4> QED BY <2>5, <2>10, <3>1, <4>1, <4>2
    <3> QED BY <1>2, <3>1, <3>2 DEF StatusOK
  <2> QED BY <1>4, <1>5, <2>8, <2>9, <2>11, <2>12, <2>13 DEF FInv
<1> QED BY <1>6, <1>7

(* The peer reads a chat: it leaves the outgoing queue, and if the peer shows *)
(* it the acknowledgement takes its place.                                    *)
LEMMA PeerReadsQuiet ==
  ASSUME FInv, IInv', NEW k \in Conns, PeerReads(k) PROVE FInv' /\ Settled
<1>1. /\ SendTypeOK /\ GateTypeOK /\ PeerTypeOK /\ WiresOK /\ UnusedOK /\ ReaderOK
      /\ ChatOK /\ AckOK /\ StatusOK
  BY DEF FInv, IInv, TypeOK
<1>2. /\ buffer[k] # <<>> /\ buffer[k] \in Seq(Chats) /\ inbox[k] \in Seq(0 .. MaxChats)
      /\ UNCHANGED <<gateVars, open, sendVars, reader, logVars, histVars>>
  BY <1>1 DEF PeerReads, PeerTypeOK
<1>3. PICK m : m = Head(buffer[k])
  OBVIOUS
<1>4. /\ m \in Out(k) /\ Out(k) = Vals(Tail(buffer[k])) \cup {m}
      /\ Once(Tail(buffer[k])) /\ m \notin Vals(Tail(buffer[k]))
      /\ m \in Chats /\ m # PeerChat /\ m \in 0 .. MaxChats
  <2>1. m \in Chats
    BY <1>2, <1>3, HeadTailProperties
  <2>2. m # PeerChat /\ m \in 0 .. MaxChats
    BY <2>1, BoundsAssumption DEF Chats, PeerChat
  <2>3. Once(buffer[k])
    BY <1>1 DEF WiresOK
  <2> QED BY <1>2, <1>3, <2>1, <2>2, <2>3, TailVals DEF Out
<1>5. buffer' = [buffer EXCEPT ![k] = Tail(buffer[k])]
  BY DEF PeerReads
<1>6. /\ buffer'[k] = Tail(buffer[k]) /\ Out(k) = Out(k)' \cup {m} /\ m \notin Out(k)'
      /\ \A c \in Conns \ {k} : buffer'[c] = buffer[c] /\ Out(c)' = Out(c)
  <2>1. buffer'[k] = Tail(buffer[k]) /\ \A c \in Conns \ {k} : buffer'[c] = buffer[c]
    BY <1>1, <1>5 DEF PeerTypeOK
  <2> QED BY <1>4, <2>1 DEF Out
<1>7. \/ shown' = shown \cup {m} /\ inbox' = [inbox EXCEPT ![k] = Append(inbox[k], m)]
      \/ UNCHANGED <<shown, inbox>>
  BY <1>3 DEF PeerReads
<1>8. m \notin In(k) /\ \A c \in Conns \ {k} : m \notin Flight(c)
  BY <1>1, <1>4 DEF WiresOK, Flight
<1>9. /\ In(k)' \in {In(k), In(k) \cup {m}} /\ Once(inbox'[k])
      /\ \A c \in Conns \ {k} : inbox'[c] = inbox[c] /\ In(c)' = In(c)
      /\ shown \in SUBSET shown' /\ (m \in In(k)' => m \in shown')
      /\ m \in In(k)' \/ In(k)' = In(k)
  <2>1. CASE UNCHANGED <<shown, inbox>>
    BY <1>1, <1>8, <2>1 DEF In, WiresOK
  <2>2. CASE shown' = shown \cup {m} /\ inbox' = [inbox EXCEPT ![k] = Append(inbox[k], m)]
    <3>1. /\ inbox'[k] = Append(inbox[k], m)
          /\ \A c \in Conns \ {k} : inbox'[c] = inbox[c]
      BY <1>1, <2>2 DEF PeerTypeOK
    <3>2. Once(inbox[k]) /\ m \notin Vals(inbox[k])
      BY <1>1, <1>4, <1>8 DEF WiresOK, In
    <3>3. Vals(Append(inbox[k], m)) = Vals(inbox[k]) \cup {m} /\ Once(Append(inbox[k], m))
      <4>1. PICK S : S = 0 .. MaxChats
        OBVIOUS
      <4>2. inbox[k] \in Seq(S) /\ m \in S
        BY <1>2, <1>4, <4>1
      <4> QED BY <3>2, <4>2, AppendVals
    <3>4. In(k)' = In(k) \cup {m}
      BY <1>4, <3>1, <3>3 DEF In
    <3> QED BY <2>2, <3>1, <3>3, <3>4 DEF In
  <2> QED BY <1>7, <2>1, <2>2
<1>10. \A c \in Conns : Flight(c)' \in SUBSET Flight(c) /\ Out(c)' \in SUBSET Out(c)
  BY <1>4, <1>6, <1>9 DEF Flight
<1>11. WiresOK'
  <2>1. submitted' = submitted
    BY <1>2 DEF logVars
  <2>2. ASSUME NEW c \in Conns
        PROVE  /\ Once(buffer[c])' /\ Once(inbox[c])' /\ (Out(c) \cap In(c) = {})'
               /\ Flight(c)' \in SUBSET (1 .. submitted') /\ In(c)' \in SUBSET shown'
    <3>1. Once(buffer[c])' /\ Once(inbox[c])'
      BY <1>1, <1>4, <1>6, <1>9 DEF WiresOK
    <3>2. Out(c)' \cap In(c)' = {}
      BY <1>1, <1>6, <1>9 DEF WiresOK
    <3>3. Flight(c)' \in SUBSET (1 .. submitted')
      BY <1>1, <1>10, <2>1 DEF WiresOK
    <3>4. In(c)' \in SUBSET shown'
      BY <1>1, <1>9 DEF WiresOK
    <3> QED BY <3>1, <3>2, <3>3, <3>4
  <2>3. \A c, d \in Conns : c # d => Flight(c)' \cap Flight(d)' = {}
    BY <1>1, <1>10 DEF WiresOK
  <2> QED BY <2>2, <2>3 DEF WiresOK
<1>12. UnusedOK' /\ ReaderOK'
  <2>1. \A c \in Conns : c > conns => c # k
    BY <1>1, <1>2 DEF UnusedOK
  <2> QED BY <1>1, <1>2, <1>6, <1>9, <2>1 DEF UnusedOK, ReaderOK, gateVars, sendVars
<1>13. ChatOK'
  BY <1>1, <1>2, <1>10 DEF ChatOK, gateVars, sendVars, logVars
<1>14. AckOK'
  <2>1. UNCHANGED <<connection, open, state, deliveries, badAck>>
    BY <1>2 DEF gateVars, logVars, histVars
  <2>2. Live => Flight(connection)' \in SUBSET Flight(connection)
    <3> SUFFICES ASSUME Live PROVE Flight(connection)' \in SUBSET Flight(connection)
      OBVIOUS
    <3>1. PICK c \in Conns : c = connection
      BY <1>1, ConnectionExists DEF Live
    <3>2. Flight(c)' = Flight(connection)' /\ Flight(c) = Flight(connection)
      BY <2>1, <3>1 DEF Flight, Out, In
    <3> QED BY <1>10, <3>2
  <2> QED BY <1>1, <2>1, <2>2 DEF AckOK, HonestAckKnown, Live
<1>15. StatusOK'
  BY <1>1, <1>2, <1>9, <1>10 DEF StatusOK, sendVars, logVars
<1>16. Settled
  BY <1>2 DEF Settled, logVars
<1> QED BY <1>11, <1>12, <1>13, <1>14, <1>15, <1>16 DEF FInv

(* A chat of the peer's own is no acknowledgement.                            *)
LEMMA PeerWritesQuiet ==
  ASSUME FInv, IInv', NEW k \in Conns, PeerWrites(k) PROVE FInv' /\ Settled
<1>1. /\ SendTypeOK /\ GateTypeOK /\ PeerTypeOK /\ WiresOK /\ UnusedOK /\ ReaderOK
      /\ ChatOK /\ AckOK /\ StatusOK
  BY DEF FInv, IInv, TypeOK
<1>2. /\ open[k] /\ inbox' = [inbox EXCEPT ![k] = Append(inbox[k], PeerChat)]
      /\ UNCHANGED <<gateVars, open, sendVars, reader, logVars, buffer, shown, histVars>>
  BY DEF PeerWrites
<1>3. /\ inbox'[k] = Append(inbox[k], PeerChat)
      /\ \A c \in Conns \ {k} : inbox'[c] = inbox[c]
  BY <1>1, <1>2 DEF PeerTypeOK
<1>4. /\ Vals(Append(inbox[k], PeerChat)) = Vals(inbox[k]) \cup {PeerChat}
      /\ Once(Append(inbox[k], PeerChat))
  <2>1. PICK S : S = 0 .. MaxChats
    OBVIOUS
  <2>2. inbox[k] \in Seq(S) /\ PeerChat \in S /\ Once(inbox[k])
    BY <1>1, <2>1, BoundsAssumption DEF PeerTypeOK, PeerChat, WiresOK
  <2> QED BY <2>2, AppendVals
<1>5. \A c \in Conns : Out(c)' = Out(c) /\ In(c)' = In(c) /\ Once(inbox[c])'
  BY <1>1, <1>2, <1>3, <1>4 DEF Out, In, WiresOK
<1>6. \A c \in Conns : Flight(c)' = Flight(c)
  BY <1>5 DEF Flight
<1>7. WiresOK'
  BY <1>1, <1>2, <1>5, <1>6 DEF WiresOK, logVars
<1>8. UnusedOK' /\ ReaderOK'
  <2>1. \A c \in Conns : c > conns => c # k
    BY <1>1, <1>2 DEF UnusedOK
  <2> QED BY <1>1, <1>2, <1>3, <2>1 DEF UnusedOK, ReaderOK, gateVars, sendVars
<1>9. ChatOK'
  BY <1>1, <1>2, <1>6 DEF ChatOK, gateVars, sendVars, logVars
<1>10. AckOK'
  <2>1. UNCHANGED <<connection, open, state, deliveries, badAck>>
    BY <1>2 DEF gateVars, logVars, histVars
  <2>2. Live => Flight(connection)' = Flight(connection)
    <3> SUFFICES ASSUME Live PROVE Flight(connection)' = Flight(connection)
      OBVIOUS
    <3>1. PICK c \in Conns : c = connection
      BY <1>1, ConnectionExists DEF Live
    <3>2. Flight(c)' = Flight(connection)' /\ Flight(c) = Flight(connection)
      BY <2>1, <3>1 DEF Flight, Out, In
    <3> QED BY <1>6, <3>2
  <2> QED BY <1>1, <2>1, <2>2 DEF AckOK, HonestAckKnown, Live
<1>11. StatusOK'
  BY <1>1, <1>2, <1>5 DEF StatusOK, sendVars, logVars
<1>12. Settled
  BY <1>2 DEF Settled, logVars
<1> QED BY <1>7, <1>8, <1>9, <1>10, <1>11, <1>12 DEF FInv

(* The reader takes a frame off the gate's connection.                        *)
LEMMA TakenOK ==
  ASSUME FInv, IInv', Receive, NEW k \in Conns, k = reader.conn, NEW m, m = Head(inbox[k])
  PROVE  /\ \A c \in Conns : /\ In(c)' \in SUBSET In(c)
                             /\ inbox[c] = <<>> => inbox'[c] = <<>>
         /\ WiresOK'
         /\ m # PeerChat => /\ m \in In(k) /\ m \notin Flight(k)'
                            /\ \A c \in Conns : m \notin Out(c)
<1>1. /\ PeerTypeOK /\ WiresOK
      /\ inbox[k] # <<>> /\ inbox' = [inbox EXCEPT ![k] = Tail(inbox[k])]
      /\ UNCHANGED <<buffer, shown, submitted>>
  BY DEF FInv, IInv, TypeOK, Receive
<1>2. inbox[k] \in Seq(0 .. MaxChats) /\ Once(inbox[k])
  BY <1>1 DEF PeerTypeOK, WiresOK
<1>3. /\ m \in Vals(inbox[k]) /\ Vals(inbox[k]) = Vals(Tail(inbox[k])) \cup {m}
      /\ Once(Tail(inbox[k])) /\ (m # PeerChat => m \notin Vals(Tail(inbox[k])))
  <2>1. PICK S : S = 0 .. MaxChats
    OBVIOUS
  <2>2. inbox[k] \in Seq(S)
    BY <1>2, <2>1
  <2> QED BY <1>1, <1>2, <2>2, TailVals
<1>4. inbox'[k] = Tail(inbox[k]) /\ \A c \in Conns \ {k} : inbox'[c] = inbox[c]
  BY <1>1 DEF PeerTypeOK
<1>5. \A c \in Conns : In(c)' \in SUBSET In(c) /\ Out(c)' = Out(c) /\ Once(inbox[c])'
  BY <1>1, <1>3, <1>4 DEF In, Out, WiresOK
<1>6. \A c \in Conns : inbox[c] = <<>> => inbox'[c] = <<>>
  BY <1>1, <1>4
<1>7. \A c \in Conns : Flight(c)' \in SUBSET Flight(c)
  BY <1>5 DEF Flight
<1>8. WiresOK'
  BY <1>1, <1>5, <1>7 DEF WiresOK
<1>9. ASSUME m # PeerChat
      PROVE  m \in In(k) /\ m \notin Flight(k)' /\ \A c \in Conns : m \notin Out(c)
  <2>1. m \in In(k) /\ m \notin In(k)'
    BY <1>3, <1>4, <1>9 DEF In
  <2>2. \A c \in Conns : m \notin Out(c)
    BY <1>1, <2>1 DEF WiresOK, Flight
  <2> QED BY <1>5, <2>1, <2>2 DEF Flight
<1> QED BY <1>5, <1>6, <1>8, <1>9

(* An acknowledgement answers the one chat it is for; the only one that finds *)
(* no slot is one the reader of a reconnecting gate swallows.                 *)
LEMMA ReceiveQuiet == ASSUME FInv, IInv', Receive PROVE FInv' /\ Settled
<1>1. /\ reader.on /\ reader.conn \in Conns /\ reader.conn = connection
      /\ open[reader.conn] /\ connection # 0
      /\ UNCHANGED <<connection, session, conns, closing, submitted, slotGen,
                     buffer, peerChats, shown, cancels, approval, born, written>>
  BY DEF Receive, Reading, FInv, IInv, PlacesOK, ReaderOK, Conns
<1>2. /\ SendTypeOK /\ GateTypeOK /\ LogTypeOK /\ generation \in Nat
      /\ open \in [Conns -> BOOLEAN]
  BY DEF FInv, IInv, TypeOK, GateTypeOK
<1>3. PICK k \in Conns : k = reader.conn
  BY <1>1
<1>4. PICK m : m = Head(inbox[k])
  OBVIOUS
<1>5. /\ \A c \in Conns : /\ In(c)' \in SUBSET In(c)
                          /\ inbox[c] = <<>> => inbox'[c] = <<>>
      /\ WiresOK'
      /\ m # PeerChat => /\ m \in In(k) /\ m \notin Flight(k)'
                         /\ \A c \in Conns : m \notin Out(c)
  BY <1>3, <1>4, TakenOK
<1>6. ASSUME UNCHANGED <<state, generation, open, sendVars, badAck>>,
             reader' \in {NoReader, [reader EXCEPT !.gen = generation], reader}
      PROVE  QuietMove /\ QuietSend
  <2>1. reader'.on => reader.on /\ reader'.conn = reader.conn
    BY <1>2, <1>6 DEF SendTypeOK, NoReader
  <2>2. state' \notin {"LOCKED", "CLOSED"}
    BY <1>1, <1>6 DEF FInv, ReaderOK
  <2> QED BY <1>1, <1>6, <2>1, <2>2 DEF QuietMove, QuietSend, sendVars
<1>7. CASE m # PeerChat /\ HandleAck(m)
  <2>1. /\ m \in deliveries /\ deliveries' = deliveries \ {m} /\ m \in Chats
        /\ status' = [status EXCEPT ![m] = Acknowledged(m)] /\ ReaderLoops
        /\ UNCHANGED <<state, generation, open, sendVars, badAck>>
    BY <1>2, <1>7 DEF HandleAck, LogTypeOK
  <2>2. QuietMove /\ QuietSend
    BY <1>6, <2>1 DEF ReaderLoops
  <2>3. m \in In(k) /\ m \in Flight(k) /\ m \notin Flight(k)' /\ \A c \in Conns : m \notin Out(c)
    BY <1>5, <1>7 DEF Flight
  <2>4. Flight(connection)' = Flight(k)'
    BY <1>1, <1>3 DEF Flight, Out, In
  <2>5. writer["chat"] = "waiting" => ticket.msg # m
    BY <2>3 DEF FInv, ChatOK
  <2>6. QuietSlots
    BY <2>1, <2>3, <2>4, <2>5 DEF QuietSlots, FInv, ChatOK, sendVars
  <2>7. UnusedOK' /\ ReaderOK' /\ ChatOK' /\ AckOK'
    BY <1>5, <2>2, <2>6, FlowOK
  <2>8. m \in shown /\ m <= submitted
    BY <2>3 DEF FInv, WiresOK
  <2>9. \A n \in Chats : n # m => status'[n] = status[n]
    BY <1>2, <2>1 DEF LogTypeOK
  <2>10. StatusOK'
    <3>1. \A n \in deliveries' : status'[n] \in {"sending", "sent"}
      BY <1>2, <2>1, <2>9 DEF FInv, StatusOK, LogTypeOK
    <3>2. \A n \in Chats : n > submitted' => status'[n] = "none"
      <4>1. \A n \in Chats : n > submitted => n # m
        BY <1>2, <2>8 DEF LogTypeOK, Chats
      <4> QED BY <1>1, <2>9, <4>1 DEF FInv, StatusOK
    <3>3. ASSUME NEW n \in Chats, status'[n] \in {"delivered", "delivery unconfirmed"}
          PROVE  /\ n \in shown'
                 /\ \A c \in Conns : n \notin Out(c)'
                 /\ writer'["chat"] = "waiting" => ticket'.msg # n
      <4>1. \A c \in Conns : Out(c)' = Out(c)
        BY <1>1 DEF Out
      <4>2. CASE n = m
        BY <1>1, <2>1, <2>3, <2>5, <2>8, <4>1, <4>2 DEF sendVars
      <4>3. CASE n # m
        <5>1. status[n] \in {"delivered", "delivery unconfirmed"}
          BY <2>9, <3>3, <4>3
        <5>2. /\ n \in shown /\ \A c \in Conns : n \notin Out(c)
              /\ writer["chat"] = "waiting" => ticket.msg # n
          BY <5>1 DEF FInv, StatusOK
        <5> QED BY <1>1, <2>1, <4>1, <5>2 DEF sendVars
      <4> QED BY <4>2, <4>3
    <3> QED BY <3>1, <3>2, <3>3 DEF StatusOK
  <2>11. Settled
    BY <2>1, <2>9 DEF Settled, FInv, StatusOK
  <2> QED BY <1>5, <2>7, <2>10, <2>11 DEF FInv
<1>8. CASE m # PeerChat /\ HandleUnknownAck(m)
  <2>1. state = "RECONNECTING"
    <3> SUFFICES ASSUME state # "RECONNECTING" PROVE FALSE
      OBVIOUS
    <3>1. Flight(connection) \in SUBSET deliveries
      BY <1>1 DEF FInv, AckOK, Live
    <3>2. m \in Flight(connection)
      BY <1>1, <1>3, <1>5, <1>8 DEF Flight
    <3> QED BY <1>8, <3>1, <3>2 DEF HandleUnknownAck
  <2>2. /\ UNCHANGED <<state, generation, status, deliveries, open, sendVars>>
        /\ reader' = NoReader
    BY <1>8, <2>1 DEF HandleUnknownAck, ReaderRaises
  <2>3. badAck' = badAck
    BY <1>8, <2>1 DEF HandleUnknownAck, FInv, IInv, TypeOK, HistTypeOK
  <2>4. QuietMove /\ QuietSend
    BY <1>6, <2>2, <2>3
  <2>5. QuietLog
    BY <1>2, <2>2, SameLogQuiet DEF sendVars
  <2> QED BY <1>5, <2>4, <2>5, FlowOK, QuietStatusOK DEF QuietLog, QuietStatus, FInv
<1>9. CASE m = PeerChat
  <2>0. HandleChat
    BY <1>3, <1>4, <1>9 DEF Receive
  <2>1. UNCHANGED <<state, generation, status, deliveries, open, badAck>>
    BY <2>0 DEF HandleChat
  <2>2. CASE ReaderLoops /\ UNCHANGED sendVars
    <3>1. QuietMove /\ QuietSend
      BY <1>6, <2>1, <2>2 DEF ReaderLoops
    <3>2. QuietLog
      BY <1>2, <2>1, <2>2, SameLogQuiet DEF sendVars
    <3> QED BY <1>5, <3>1, <3>2, FlowOK, QuietStatusOK DEF QuietLog, QuietStatus, FInv
  <2>3. CASE JoinSend("reader", reader.conn) /\ UNCHANGED <<reader, ticket>>
    <3>1. JoinSend("reader", k)
      BY <1>3, <2>3
    <3>2. k \in 1 .. conns
      <4>1. connection \in 0 .. conns /\ conns \in 0 .. MaxConns
        BY <1>2 DEF FInv, UnusedOK, GateTypeOK
      <4> QED BY <1>1, <1>3, <4>1, BoundsAssumption DEF Conns
    <3>3. "reader" \in Writers \ {"chat"}
      BY DEF Writers
    <3>4. \A d \in Conns : Out(d)' = Out(d) /\ In(d)' \in SUBSET In(d)
      BY <1>1, <1>5 DEF Out
    <3>5. FInv'
      BY <1>1, <1>5, <2>1, <2>3, <3>1, <3>2, <3>3, <3>4, JoinControlOK
    <3> QED BY <2>1, <3>5 DEF Settled
  <2> QED BY <2>0, <2>2, <2>3 DEF HandleChat
<1> QED
  <2>1. m = PeerChat \/ (m # PeerChat /\ HandleAck(m)) \/ (m # PeerChat /\ HandleUnknownAck(m))
    BY <1>3, <1>4 DEF Receive
  <2> QED BY <1>7, <1>8, <1>9, <2>1

(* Every step keeps the second invariant, and every final status.             *)
LEMMA StepFInv == FInv /\ [Next]_vars => FInv' /\ (Settled \/ UNCHANGED vars)
<1> SUFFICES ASSUME FInv, [Next]_vars PROVE FInv' /\ (Settled \/ UNCHANGED vars)
  OBVIOUS
<1>1. IInv'
  BY StepIInv DEF FInv
<1>2. CASE SendChat \/ SendControl \/ CancelChat
  BY <1>1, <1>2, SendChatQuiet, SendControlQuiet, CancelChatQuiet
<1>3. ASSUME NEW w \in Writers, WriteFrame(w) \/ RefuseWrite(w) \/ SendAborts(w)
                                  \/ DrainDone(w)
      PROVE  FInv' /\ Settled
  <2>0. open \in [Conns -> BOOLEAN] /\ wconn[w] \in 0 .. MaxConns
    BY DEF FInv, IInv, TypeOK, GateTypeOK, SendTypeOK
  <2>1. CASE WriteFrame(w)
    BY <1>1, <2>1, WriteFrameQuiet
  <2>2. CASE RefuseWrite(w)
    BY <1>1, <2>0, <2>2, SendRaisesQuiet DEF RefuseWrite
  <2>3. CASE SendAborts(w)
    <3> DEFINE links == [open EXCEPT ![wconn[w]] = FALSE]
    <3>1. /\ writer[w] # "idle" /\ SendRaises(w, links)
          /\ w = "chat" /\ writer[w] = "draining" =>
               \E i \in 1 .. Len(buffer[wconn[w]]) : buffer[wconn[w]][i] = ticket.msg
      BY <2>3 DEF SendAborts
    <3>2. wconn[w] \in Conns
      BY <3>1 DEF FInv, IInv, PlacesOK
    <3>3. links \in [Conns -> BOOLEAN] /\ ~links[wconn[w]] /\ \A c \in Conns : links[c] => open[c]
      BY <2>0, <3>2
    <3>4. w = "chat" /\ writer[w] = "draining" => ticket.msg \in Out(wconn[w])
      BY <3>1 DEF Out, Vals
    <3> HIDE DEF links
    <3> QED BY <1>1, <3>1, <3>3, <3>4, SendRaisesQuiet
  <2>4. CASE DrainDone(w)
    BY <1>1, <2>4, DrainDoneQuiet
  <2> QED BY <1>3, <2>1, <2>2, <2>3, <2>4
<1>4. CASE \E c \in Conns : PeerReads(c) \/ PeerWrites(c)
  BY <1>1, <1>4, PeerReadsQuiet, PeerWritesQuiet
<1>5. CASE Receive \/ ReceiveFails \/ ReaderSeesClose \/ CancelReader
  BY <1>1, <1>5, ReceiveQuiet, LinkStepQuiet, ReaderSeesCloseQuiet, CancelReaderQuiet
<1>6. CASE NewSession \/ Attach \/ Approve \/ Reverify
  BY <1>1, <1>6, NewSessionQuiet, AttachQuiet, GateStepQuiet
<1>7. CASE ReserveRecovery \/ CloseForRecovery \/ RestrictSession
  BY <1>1, <1>7, ReserveRecoveryQuiet, GateStepQuiet, RestrictSessionQuiet
<1>8. CASE DisconnectBegins \/ DisconnectCloses \/ DisconnectEnds \/ DisconnectAbandoned
  BY <1>1, <1>8, LinkStepQuiet, DisconnectEndsQuiet
<1>9. CASE UNCHANGED vars
  <2>1. UNCHANGED <<gateVars, open, sendVars, reader, logVars, peerVars, cancels,
                    histVars>>
    BY <1>9 DEF vars
  <2>2. \A c \in Conns : Out(c)' = Out(c) /\ In(c)' = In(c) /\ Flight(c)' = Flight(c)
    BY <2>1, SameWires DEF peerVars
  <2>3. WiresOK'
    BY <2>1, <2>2 DEF FInv, WiresOK, Once, logVars, peerVars
  <2>4. UnusedOK' /\ ReaderOK'
    BY <2>1 DEF FInv, UnusedOK, ReaderOK, gateVars, sendVars, peerVars
  <2>5. ChatOK' /\ StatusOK'
    BY <2>1, <2>2 DEF FInv, ChatOK, StatusOK, gateVars, sendVars, logVars, peerVars
  <2>6. AckOK'
    BY <2>1 DEF FInv, AckOK, HonestAckKnown, Live, Flight, Out, In,
         gateVars, logVars, peerVars, histVars
  <2> QED BY <1>1, <1>9, <2>3, <2>4, <2>5, <2>6 DEF FInv
<1> QED BY <1>2, <1>3, <1>4, <1>5, <1>6, <1>7, <1>8, <1>9 DEF Next

(* So it holds in every state.                                                *)
LEMMA AlwaysFInv == Spec => []FInv
BY InitFInv, StepFInv, PTL DEF Spec

(* The browser hears "delivered" or "delivery unconfirmed" only of a chat the *)
(* peer displayed: every acknowledgement on a wire was sent with the display. *)
THEOREM DeliveredShown == Spec => []DeliveredWasShown
<1>1. FInv => DeliveredWasShown
  BY DEF FInv, StatusOK, DeliveredWasShown
<1> QED BY <1>1, AlwaysFInv, PTL

(* An acknowledgement of an honest peer always finds its slot, unless the     *)
(* gate is reconnecting: nothing that empties the delivery table leaves the   *)
(* connection usable.                                                         *)
THEOREM AcksKnown == Spec => []HonestAckKnown
<1>1. FInv => HonestAckKnown
  BY DEF FInv, AckOK
<1> QED BY <1>1, AlwaysFInv, PTL

(* A final status is never taken back.                                        *)
THEOREM FinalStays == Spec => FinalStatusStays
<1>1. FInv /\ [Next]_vars => [Settled]_vars
  BY StepFInv
<1>2. Spec => [][Settled]_vars
  BY <1>1, AlwaysFInv, PTL DEF Spec
<1> QED BY <1>2 DEF FinalStatusStays, Settled

===============================================================================
