---------------------------- MODULE SessionProofs ----------------------------
(***************************************************************************)
(* Proofs about the two-device session: that every step keeps its types,   *)
(* and that no gate opens unless both people answered MATCH.               *)
(*                                                                         *)
(* TypeOK by itself is not inductive: a handler has a case only for the    *)
(* frames its peer ever sends, so what travels on the links and what a     *)
(* reader holds while it waits for verification_lock are part of the       *)
(* invariant (Wires and Held, over the frames Spoken), as are the place of *)
(* Bob's reader (SeatOK) and room for the sessions under way (RoomOK).     *)
(*                                                                         *)
(* An answer is then followed from the human to the gate.  AnswersOK: a    *)
(* command, a wire, a reader and a comparison carry a MATCH only where its *)
(* human gave it.  AInv, Alice's side: what her guard, her tasks and her   *)
(* gate go on rests on a comparison that both people matched, through      *)
(* every recovery and burst.  BInv, the same for Bob's gate and for the    *)
(* approval he keeps while Alice redials.                                  *)
(*                                                                         *)
(* The lemmas are named for the action or the operator of ChatSession they *)
(* are about: XType, it keeps the types of what it writes; XWires, it puts *)
(* only allowed frames on the wires; XMoves, how it moves the readers;     *)
(* XStill, it leaves the other role's variables alone.  NextX says that    *)
(* every step of the system keeps X.                                       *)
(***************************************************************************)
EXTENDS ChatSession, SequenceTheorems, TLAPS

Ends == [up : [Role -> BOOLEAN], wire : [Role -> Seq(Message)]]
Links == [Conns -> Ends]
Refs == 0 .. MaxConns

(* There are two roles, each the other's peer.                                *)
LEMMA PeerOK == ASSUME NEW r \in Role PROVE Peer(r) \in Role /\ Peer(r) # r
BY DEF Role, Peer

(* The ends of a connection when the wire to role r holds s                   *)
WithWire(k, r, s) == [k EXCEPT !.wire = [@ EXCEPT ![r] = s]]

(* Changing one wire, one connection, keeps the links' type.                  *)
LEMMA WireOK ==
  ASSUME NEW k \in Ends, NEW r \in Role, NEW s \in Seq(Message)
  PROVE  /\ WithWire(k, r, s) \in Ends
         /\ WithWire(k, r, s).up = k.up
         /\ \A q \in Role : WithWire(k, r, s).wire[q] = IF q = r THEN s ELSE k.wire[q]
BY DEF Ends, WithWire

LEMMA ReplaceOK ==
  ASSUME NEW l \in Links, NEW c \in Conns, NEW k \in Ends
  PROVE  /\ [l EXCEPT ![c] = k] \in Links
         /\ [l EXCEPT ![c] = k][c] = k
         /\ \A d \in Conns : d # c => [l EXCEPT ![c] = k][d] = l[d]
BY DEF Links

(* Taking a frame from a wire, putting one on it, shutting an end             *)
LEMMA TakeOK ==
  ASSUME NEW l \in Links, NEW r \in Role, NEW c \in Conns, l[c].wire[r] # <<>>
  PROVE  /\ Take(l, r, c) \in Links
         /\ Head(l[c].wire[r]) \in Message
         /\ \A d \in Conns, q \in Role :
               /\ \/ Take(l, r, c)[d].wire[q] = l[d].wire[q]
                  \/ d = c /\ q = r /\ Take(l, r, c)[d].wire[q] = Tail(l[d].wire[q])
               /\ Take(l, r, c)[d].up = l[d].up
<1> DEFINE u == Tail(l[c].wire[r])
           t == WithWire(l[c], r, u)
<1>0. l[c] \in Ends /\ l[c].wire[r] \in Seq(Message)
  BY DEF Links, Ends
<1>1. u \in Seq(Message) /\ Head(l[c].wire[r]) \in Message
  BY <1>0, HeadTailProperties
<1>3. Take(l, r, c) = [l EXCEPT ![c] = t]
  BY DEF Take, WithWire
<1> HIDE DEF u
<1>5. /\ t \in Ends /\ t.up = l[c].up
      /\ \A q \in Role : t.wire[q] = IF q = r THEN u ELSE l[c].wire[q]
  BY <1>0, <1>1, WireOK
<1> HIDE DEF t
<1>6. /\ [l EXCEPT ![c] = t] \in Links
      /\ \A d \in Conns : [l EXCEPT ![c] = t][d] = IF d = c THEN t ELSE l[d]
  BY <1>5, ReplaceOK
<1> QED
  BY <1>1, <1>3, <1>5, <1>6 DEF u

LEMMA PutOK ==
  ASSUME NEW l \in Links, NEW r \in Role, NEW c \in Conns, NEW m \in Message
  PROVE  /\ Put(l, r, c, m) \in Links
         /\ \A d \in Conns, q \in Role :
               /\ \/ Put(l, r, c, m)[d].wire[q] = l[d].wire[q]
                  \/ d = c /\ q = Peer(r) /\ Put(l, r, c, m)[d].wire[q] = Append(l[d].wire[q], m)
               /\ Put(l, r, c, m)[d].up = l[d].up
<1> DEFINE p == Peer(r)
           s == Append(l[c].wire[p], m)
<1>1. p \in Role
  BY PeerOK
<1>2. l[c] \in Ends /\ l[c].wire[p] \in Seq(Message)
  BY <1>1 DEF Links, Ends
<1>3. s \in Seq(Message)
  BY <1>2, AppendProperties
<1> DEFINE t == WithWire(l[c], p, s)
<1>4. Put(l, r, c, m) \in {l, [l EXCEPT ![c] = t]}
  BY DEF Put, WithWire
<1> HIDE DEF s
<1>5. /\ t \in Ends /\ t.up = l[c].up
      /\ \A q \in Role : t.wire[q] = IF q = p THEN s ELSE l[c].wire[q]
  BY <1>1, <1>2, <1>3, WireOK, SMTT(40)
<1> HIDE DEF t
<1>6. /\ [l EXCEPT ![c] = t] \in Links
      /\ \A d \in Conns : [l EXCEPT ![c] = t][d] = IF d = c THEN t ELSE l[d]
  BY <1>5, ReplaceOK
<1> QED
  BY <1>1, <1>4, <1>5, <1>6 DEF s

LEMMA ShutOK ==
  ASSUME NEW l \in Links, NEW r \in Role, NEW c \in Refs
  PROVE  /\ Shut(l, r, c) \in Links
         /\ \A d \in Conns, q \in Role :
               /\ Shut(l, r, c)[d].wire[q] \in {l[d].wire[q], <<>>}
               /\ Shut(l, r, c)[d].up[q] => l[d].up[q]
<1>1. CASE c = 0
  BY <1>1 DEF Shut
<1>2. CASE c # 0
  <2> DEFINE k == [l[c] EXCEPT !.up = [@ EXCEPT ![r] = FALSE]]
             e == <<>>
             s == WithWire(k, r, e)
  <2>1. c \in Conns
    BY <1>2, EndpointAssumption DEF Refs, Conns
  <2>2. Shut(l, r, c) = [l EXCEPT ![c] = s]
    BY <1>2, <2>1 DEF Shut, Links, Ends, WithWire
  <2>3. l[c] \in Ends
    BY <2>1 DEF Links
  <2>4. k \in Ends /\ k.wire = l[c].wire /\ \A q \in Role : k.up[q] => l[c].up[q]
    BY <2>3 DEF Ends
  <2>e. e \in Seq(Message)
    OBVIOUS
  <2> HIDE DEF k, e
  <2>5. /\ s \in Ends /\ \A q \in Role : s.up[q] => l[c].up[q]
        /\ \A q \in Role : s.wire[q] \in {l[c].wire[q], e}
    BY <2>4, <2>e, WireOK
  <2> HIDE DEF s
  <2>6. /\ [l EXCEPT ![c] = s] \in Links
        /\ \A d \in Conns : [l EXCEPT ![c] = s][d] = IF d = c THEN s ELSE l[d]
    BY <2>1, <2>5, ReplaceOK
  <2> QED
    BY <2>2, <2>5, <2>6 DEF e
<1> QED BY <1>1, <1>2

-------------------------------------------------------------------------------
(* What the wires carry: S[c][r] is a set of frames for the end of role r of  *)
(* connection c.                                                              *)
Wires(l, S) == \A c \in Conns, r \in Role : l[c].wire[r] \in Seq(S[c][r])

(* The same three operators only carry frames that are allowed.               *)
LEMMA ShutWires ==
  ASSUME NEW l \in Links, NEW S, Wires(l, S), NEW r \in Role, NEW c \in Refs
  PROVE  Wires(Shut(l, r, c), S)
<1> SUFFICES ASSUME NEW d \in Conns, NEW q \in Role
             PROVE  Shut(l, r, c)[d].wire[q] \in Seq(S[d][q])
  BY DEF Wires
<1>1. l[d].wire[q] \in Seq(S[d][q]) /\ <<>> \in Seq(S[d][q])
  BY DEF Wires
<1>2. Shut(l, r, c)[d].wire[q] \in {l[d].wire[q], <<>>}
  BY ShutOK
<1> QED BY <1>1, <1>2

LEMMA PutWires ==
  ASSUME NEW l \in Links, NEW S, Wires(l, S), NEW r \in Role, NEW c \in Conns,
         NEW m \in Message, m \in S[c][Peer(r)]
  PROVE  Wires(Put(l, r, c, m), S)
<1> SUFFICES ASSUME NEW d \in Conns, NEW q \in Role
             PROVE  Put(l, r, c, m)[d].wire[q] \in Seq(S[d][q])
  BY DEF Wires
<1>1. l[d].wire[q] \in Seq(S[d][q])
  BY DEF Wires
<1>2. \/ Put(l, r, c, m)[d].wire[q] = l[d].wire[q]
      \/ d = c /\ q = Peer(r) /\ Put(l, r, c, m)[d].wire[q] = Append(l[d].wire[q], m)
  BY PutOK
<1>3. CASE d = c /\ q = Peer(r)
  <2>1. m \in S[d][q]
    BY <1>3
  <2>2. Append(l[d].wire[q], m) \in Seq(S[d][q])
    BY <1>1, <2>1, AppendProperties
  <2> QED BY <1>1, <1>2, <2>2
<1> QED BY <1>1, <1>2, <1>3

LEMMA TakeWires ==
  ASSUME NEW l \in Links, NEW S, Wires(l, S), NEW r \in Role, NEW c \in Conns,
         l[c].wire[r] # <<>>
  PROVE  Wires(Take(l, r, c), S) /\ Head(l[c].wire[r]) \in S[c][r]
<1>1. Tail(l[c].wire[r]) \in Seq(S[c][r]) /\ Head(l[c].wire[r]) \in S[c][r]
  BY HeadTailProperties DEF Wires
<1> SUFFICES ASSUME NEW d \in Conns, NEW q \in Role
             PROVE  Take(l, r, c)[d].wire[q] \in Seq(S[d][q])
  BY <1>1 DEF Wires
<1>2. l[d].wire[q] \in Seq(S[d][q])
  BY DEF Wires
<1>3. \/ Take(l, r, c)[d].wire[q] = l[d].wire[q]
      \/ d = c /\ q = r /\ Take(l, r, c)[d].wire[q] = Tail(l[d].wire[q])
  BY TakeOK
<1> QED BY <1>1, <1>2, <1>3

(* Allowing more frames allows those that are on the wires.                   *)
LEMMA WiresGrow ==
  ASSUME NEW l, NEW S, NEW T, Wires(l, S),
         \A c \in Conns, r \in Role : S[c][r] \subseteq T[c][r]
  PROVE  Wires(l, T)
<1> SUFFICES ASSUME NEW c \in Conns, NEW r \in Role
             PROVE  l[c].wire[r] \in Seq(T[c][r])
  BY DEF Wires
<1>1. l[c].wire[r] \in Seq(S[c][r]) /\ S[c][r] \subseteq T[c][r]
  BY DEF Wires
<1> QED BY <1>1

-------------------------------------------------------------------------------
(* The types of the records that tasks, readers and commands are              *)
Places == {"off", "loop", "sleep", "ping", "pong", "assess", "request", "ready",
           "result", "notice", "close", "establish", "proof", "confirm", "conclude",
           "resume", "failed", "wait", "next", "demo"}
Readers == [pc : {"off", "recv", "lock", "pong", "ready"}, conn : Refs, msg : Message]
Commands == [pc : {"idle", "deciding", "connecting", "stopping", "notice"},
             conn : Refs, id : 0 .. MaxIds, match : BOOLEAN]
Bases == [id : 0 .. MaxIds, on : Refs, recovery : BOOLEAN]
Resumes == [id : 0 .. MaxIds, confirmed : BOOLEAN]

(* TypeOK, by the parts that an action writes                                 *)
CoreOK ==
    /\ gate \in [Role -> State] /\ conn \in [Role -> Refs] /\ link \in Links
    /\ dual \in [Role -> Dual] /\ resume \in Resumes
    /\ guard \in {"none", "unverified", "verified"}
ReaderOK == reader \in [Role -> Readers]
CommandOK == cmd \in [Role -> Commands] /\ closing \in [Role -> BOOLEAN]
CountOK == conns \in Refs /\ ids \in 0 .. MaxIds
HistOK ==
    /\ matched \in [Role -> SUBSET Ids] /\ basis \in [Role -> Bases]
    /\ refused \in SUBSET Role
TaskOK ==
    /\ task \in [Tasks -> Places] /\ via \in [Tasks -> Refs]
    /\ asked \in [id : 0 .. MaxIds, recovery : BOOLEAN]
RetryOK ==
    /\ tries \in 0 .. Attempts /\ left \in 0 .. Attempts
    /\ approved \in 0 .. MaxIds
WaitOK ==
    /\ ping \in {"none", "sent", "done"}
    /\ recovered \in {"none", "waiting", "done"}
BoundOK == sessions \in [Role -> 0 .. MaxSessions] /\ bursts \in 0 .. MaxBursts

EndpointOK == CoreOK /\ ReaderOK /\ CommandOK /\ CountOK /\ HistOK
AliceOK == TaskOK /\ RetryOK /\ WaitOK

(* TypeOK is its parts.                                                       *)
LEMMA TypeParts ==
  /\ TypeOK <=> EndpointOK /\ AliceOK /\ BobTypeOK /\ BoundOK
  /\ TypeOK' <=> EndpointOK' /\ AliceOK' /\ BobTypeOK' /\ BoundOK'
BY DEF TypeOK, EndpointTypeOK, AliceTypeOK, EndpointOK, AliceOK, CoreOK, ReaderOK,
       CommandOK, CountOK, HistOK, TaskOK, RetryOK, WaitOK, BoundOK, Links, Ends,
       Readers, Commands, Bases, Resumes, Places, Refs

(* The constant records that actions assign have their types.                 *)
LEMMA ValuesOK ==
  /\ \A type \in {"verify_request", "verify_response", "verification_result",
                   "demo_mode", "ping", "pong", "reconnect", "ready",
                   "shutdown", "none"} :
        /\ Notice(type) \in Message /\ Notice(type).type = type
        /\ \A id \in 0 .. MaxIds, flag \in BOOLEAN :
              /\ Msg(type, id, flag) \in Message
              /\ Msg(type, id, flag).type = type /\ Msg(type, id, flag).id = id
              /\ Msg(type, id, flag).flag = flag
  /\ NoMsg \in Message /\ NoMsg.type = "none"
  /\ NoDual \in Dual /\ NoResume \in Resumes /\ NoReader \in Readers
  /\ NoCommand \in Commands /\ NoBasis \in Bases
  /\ NotAsked \in [id : 0 .. MaxIds, recovery : BOOLEAN]
BY EndpointAssumption DEF Notice, Msg, Message, NoMsg, NoDual, Dual, NoResume, Resumes,
   NoReader, Readers, NoCommand, Commands, NoBasis, Bases, NotAsked, Refs

LEMMA InitTypes == Init => TypeOK
<1> SUFFICES ASSUME Init PROVE TypeOK
  OBVIOUS
<1> USE DEF Init
<1>1. CoreOK
  <2>1. [c \in Conns |-> [up |-> [r \in Role |-> FALSE],
                         wire |-> [r \in Role |-> <<>>]]] \in Links
    BY DEF Links, Ends
  <2> QED BY <2>1, ValuesOK, EndpointAssumption DEF EndpointInit, CoreOK, State, Refs
<1>2. ReaderOK /\ CommandOK /\ CountOK /\ HistOK
  BY ValuesOK, EndpointAssumption DEF EndpointInit, ReaderOK, CommandOK, CountOK, HistOK,
     Refs, Ids
<1>3. AliceOK
  BY ValuesOK, EndpointAssumption DEF AliceInit, AliceOK, TaskOK, RetryOK, WaitOK, Places, Refs
<1>4. BobTypeOK
  <2>1. NoCand \in [pc : {"none", "arrived", "proof"}, id : 0 .. MaxIds]
    BY EndpointAssumption DEF NoCand
  <2>2. server = FALSE /\ cand = [c \in Conns |-> NoCand]
    BY DEF BobInit
  <2> QED BY <2>1, <2>2 DEF BobTypeOK
<1>5. BoundOK
  BY SessionAssumption DEF BoundOK, Role
<1> QED BY <1>1, <1>2, <1>3, <1>4, <1>5, TypeParts DEF EndpointOK

-------------------------------------------------------------------------------
(* The helpers that several actions share                                     *)
LEMMA RestrictsType ==
  ASSUME CoreOK, NEW r \in Role, NEW l \in Links, Restricts(r, l)
  PROVE  CoreOK'
<1>1. conn[r] \in Refs
  BY DEF CoreOK
<1>2. link' \in Links
  BY <1>1, ShutOK DEF Restricts
<1>3. gate' \in [Role -> State]
  BY DEF Restricts, CoreOK, State
<1>4. dual' \in [Role -> Dual]
  BY ValuesOK DEF Restricts, CoreOK
<1> QED BY <1>2, <1>3, <1>4, ValuesOK DEF Restricts, CoreOK

LEMMA RaisesType ==
  ASSUME CoreOK, TaskOK, NEW t \in Tasks, NEW l \in Links, Raises(t, l)
  PROVE  CoreOK' /\ TaskOK'
<1>1. TaskOK'
  BY ValuesOK, EndpointAssumption DEF TaskOK, Raises, Goto, Places, Refs
<1>2. CASE Restricts("alice", l)
  BY <1>1, <1>2, RestrictsType DEF Role
<1>3. CASE ~Restricts("alice", l)
  <2>1. "alice" \in Role /\ conn["alice"] \in Refs
    BY DEF CoreOK, Role
  <2>2. link' \in Links
    BY <1>3, <2>1, ShutOK DEF Raises
  <2>3. dual' \in [Role -> Dual]
    BY <1>3, ValuesOK DEF Raises, CoreOK
  <2> QED BY <1>1, <1>3, <2>2, <2>3 DEF Raises, CoreOK
<1> QED BY <1>2, <1>3

LEMMA ReaderLoopsType ==
  ASSUME ReaderOK, NEW r \in Role, ReaderLoops(r)
  PROVE  ReaderOK'
<1> DEFINE next == [reader[r] EXCEPT !.pc = "recv", !.msg = NoMsg]
<1>1. next \in Readers
  <2>1. reader[r] \in Readers /\ NoMsg \in Message
    BY ValuesOK DEF ReaderOK
  <2> QED BY <2>1 DEF Readers
<1>2. reader' = [reader EXCEPT ![r] = next] \/ reader' = [reader EXCEPT ![r] = NoReader]
  <2>1. CASE ~closing[r] /\ reader[r].conn = conn'[r] /\ link'[reader[r].conn].up[r]
    BY <2>1, Zenon DEF ReaderLoops
  <2>2. CASE ~(~closing[r] /\ reader[r].conn = conn'[r] /\ link'[reader[r].conn].up[r])
    BY <2>2, Zenon DEF ReaderLoops
  <2> QED BY <2>1, <2>2
<1> HIDE DEF next
<1> QED BY <1>1, <1>2, ValuesOK DEF ReaderOK

LEMMA ReaderRaisesType ==
  ASSUME CoreOK, ReaderOK, NEW r \in Role, NEW l \in Links, ReaderRaises(r, l)
  PROVE  CoreOK' /\ ReaderOK'
<1>1. ReaderOK' /\ reader[r].conn \in Refs
  BY ValuesOK DEF ReaderOK, ReaderRaises, Readers
<1>2. CASE Restricts(r, l)
  BY <1>1, <1>2, RestrictsType
<1>3. CASE ~Restricts(r, l)
  <2>1. link' \in Links
    BY <1>1, <1>3, ShutOK DEF ReaderRaises
  <2> QED BY <1>1, <1>3, <2>1 DEF ReaderRaises, CoreOK
<1> QED BY <1>2, <1>3

LEMMA RefuseType ==
  ASSUME CoreOK, ReaderOK, HistOK, NEW r \in Role, NEW l \in Links, Refuse(r, l)
  PROVE  CoreOK' /\ ReaderOK' /\ HistOK'
<1>1. CoreOK' /\ ReaderOK'
  BY ReaderRaisesType DEF Refuse
<1>2. HistOK'
  BY DEF Refuse, HistOK
<1> QED BY <1>1, <1>2

(* A decision recorded in a dual is that of one more role.                    *)
LEMMA DecidedOK ==
  ASSUME NEW d \in Dual, NEW r \in Role, NEW match \in BOOLEAN
  PROVE  /\ Decided(d, r, match) \in Dual
         /\ Decided(d, r, match).id = d.id /\ Decided(d, r, match).recovery = d.recovery
         /\ \A q \in Role : Decided(d, r, match).decisions[q] =
               IF q # r THEN d.decisions[q] ELSE IF match THEN "MATCH" ELSE "other"
         /\ d.ready # "waiting" => Decided(d, r, match).ready = d.ready
         /\ d.ready = "waiting" => Decided(d, r, match).ready =
               IF ~match THEN "no" ELSE IF d.decisions[Peer(r)] # "none" THEN "yes"
               ELSE "waiting"
BY DEF Decided, Dual

LEMMA HandleResponseType ==
  ASSUME CoreOK, ReaderOK, HistOK, NEW r \in Role, NEW m \in Message, NEW l \in Links,
         HandleResponse(r, m, l)
  PROVE  CoreOK' /\ ReaderOK' /\ HistOK'
<1>1. CASE Refuse(r, l)
  BY <1>1, RefuseType
<1>2. CASE ~Refuse(r, l)
  <2>1. ReaderLoops(r) /\ UNCHANGED hist
    BY <1>2 DEF HandleResponse
  <2>2. ReaderOK' /\ HistOK'
    BY <2>1, ReaderLoopsType DEF HistOK, hist
  <2>3. CASE Restricts(r, l)
    BY <2>2, <2>3, RestrictsType
  <2>4. CASE ~Restricts(r, l)
    <3>1. /\ dual' = [dual EXCEPT ![r] = Decided(dual[r], Peer(r), m.flag)]
          /\ link' = l /\ UNCHANGED <<gate, conn, resume, guard>>
      BY <1>2, <2>4 DEF HandleResponse
    <3>2. dual[r] \in Dual /\ m.flag \in BOOLEAN
      BY DEF CoreOK, Message
    <3>3. Decided(dual[r], Peer(r), m.flag) \in Dual
      BY <3>2, DecidedOK, PeerOK
    <3> QED BY <2>2, <3>1, <3>3 DEF CoreOK
  <2> QED BY <2>3, <2>4
<1> QED BY <1>1, <1>2

LEMMA SendsType ==
  ASSUME TaskOK, NEW t \in Tasks, NEW pc \in Places, NEW m \in Message, NEW l \in Links,
         conn'["alice"] \in Conns, Sends(t, pc, m, l), asked' = asked
  PROVE  link' \in Links /\ TaskOK'
<1>1. link' \in Links
  BY PutOK DEF Sends, Role
<1>2. TaskOK'
  BY DEF TaskOK, Sends, Goto, Conns, Refs
<1> QED BY <1>1, <1>2

-------------------------------------------------------------------------------
(* What both processes do.                                                    *)

LEMMA LinkFailsType ==
  ASSUME EndpointOK, NEW r \in Role, NEW c \in Refs, LinkFails(r, c)
  PROVE  EndpointOK'
<1>1. link' \in Links
  BY ShutOK DEF LinkFails, EndpointOK, CoreOK
<1> QED BY <1>1 DEF LinkFails, EndpointOK, CoreOK, ReaderOK, CommandOK, CountOK, HistOK, hist

LEMMA EndOfStreamType ==
  ASSUME EndpointOK, NEW r \in Role, EndOfStream(r)
  PROVE  EndpointOK'
<1>1. reader[r].conn \in Refs
  BY DEF EndpointOK, ReaderOK, Readers
<1> QED BY <1>1, LinkFailsType DEF EndOfStream

LEMMA ReaderSeesCloseType ==
  ASSUME EndpointOK, NEW r \in Role, ReaderSeesClose(r)
  PROVE  EndpointOK'
<1>1. CoreOK' /\ ReaderOK'
  BY ReaderRaisesType DEF ReaderSeesClose, EndpointOK, CoreOK
<1> QED BY <1>1 DEF ReaderSeesClose, EndpointOK, CommandOK, CountOK, HistOK, hist

LEMMA ReaderSentType ==
  ASSUME EndpointOK, NEW r \in Role, ReaderSent(r)
  PROVE  EndpointOK'
<1> USE DEF EndpointOK
<1>1. link \in Links
  BY DEF CoreOK
<1>2. CASE UNCHANGED core /\ ReaderLoops(r)
  <2>1. CoreOK'
    BY <1>2 DEF core, CoreOK
  <2>2. ReaderOK'
    BY <1>2, ReaderLoopsType
  <2> QED BY <2>1, <2>2 DEF ReaderSent, CommandOK, CountOK, HistOK, hist
<1>3. CASE ReaderRaises(r, link)
  <2>1. CoreOK' /\ ReaderOK'
    BY <1>1, <1>3, ReaderRaisesType
  <2> QED BY <2>1 DEF ReaderSent, CommandOK, CountOK, HistOK, hist
<1> QED BY <1>2, <1>3 DEF ReaderSent

LEMMA VerificationEndsType ==
  ASSUME EndpointOK, NEW r \in Role, VerificationEnds(r)
  PROVE  EndpointOK'
<1>1. CoreOK'
  BY RestrictsType DEF VerificationEnds, EndpointOK, CoreOK
<1> QED BY <1>1 DEF VerificationEnds, EndpointOK, ReaderOK, CommandOK, CountOK, HistOK, hist

LEMMA ControlOK ==
  ASSUME CoreOK, NEW r \in Role, CanControl(r)
  PROVE  conn[r] \in Conns /\ gate[r] \in State \ ControlRefused
BY EndpointAssumption DEF CanControl, CoreOK, Up, Refs, Conns

LEMMA ConfirmType ==
  ASSUME EndpointOK, NEW r \in Role, NEW id \in 1 .. ids, NEW match \in BOOLEAN,
         Confirm(r, id, match)
  PROVE  EndpointOK'
<1> USE DEF EndpointOK
<1>0. link \in Links /\ id \in Ids /\ id \in 0 .. MaxIds
  BY EndpointAssumption DEF CoreOK, CountOK, Ids
<1>1. ReaderOK' /\ CountOK' /\ closing' \in [Role -> BOOLEAN]
  BY DEF Confirm, ReaderOK, CountOK, CommandOK
<1>2. CASE Restricts(r, link) /\ UNCHANGED <<cmd, matched>>
  <2>1. CoreOK'
    BY <1>0, <1>2, RestrictsType
  <2> QED BY <1>1, <1>2, <2>1 DEF Confirm, CommandOK, HistOK
<1>3. CASE /\ CanControl(r)
           /\ link' = Put(link, r, conn[r], Msg("verify_response", id, match))
           /\ cmd' = [cmd EXCEPT ![r] = [pc |-> "deciding", conn |-> conn[r],
                                         id |-> id, match |-> match]]
           /\ matched' = IF match THEN [matched EXCEPT ![r] = @ \cup {id}] ELSE matched
           /\ UNCHANGED <<gate, conn, dual, resume, guard>>
  <2>1. conn[r] \in Conns /\ conn[r] \in Refs
    BY <1>3, ControlOK DEF CoreOK
  <2>2. Msg("verify_response", id, match) \in Message
    BY <1>0, ValuesOK
  <2>3. CoreOK'
    BY <1>0, <1>3, <2>1, <2>2, PutOK DEF CoreOK
  <2>4. CommandOK'
    BY <1>0, <1>1, <1>3, <2>1 DEF CommandOK, Commands
  <2>5. HistOK'
    BY <1>0, <1>3 DEF HistOK, Confirm
  <2> QED BY <1>1, <2>3, <2>4, <2>5
<1> QED BY <1>2, <1>3, Zenon DEF Confirm

LEMMA DecideType ==
  ASSUME EndpointOK, NEW r \in Role, Decide(r)
  PROVE  EndpointOK'
<1> USE DEF EndpointOK
<1>0. link \in Links /\ cmd[r].match \in BOOLEAN /\ dual[r] \in Dual
  BY DEF CoreOK, CommandOK, Commands
<1>1. ReaderOK' /\ CountOK' /\ HistOK'
  BY DEF Decide, ReaderOK, CountOK, HistOK, hist
<1>2. CommandOK'
  BY ValuesOK DEF Decide, CommandOK
<1>3. CASE UNCHANGED core
  BY <1>1, <1>2, <1>3 DEF core, CoreOK
<1>4. CASE Restricts(r, link)
  BY <1>0, <1>1, <1>2, <1>4, RestrictsType
<1>5. CASE /\ dual' = [dual EXCEPT ![r] = Decided(@, r, cmd[r].match)]
           /\ UNCHANGED <<gate, conn, link, resume, guard>>
  <2>1. Decided(dual[r], r, cmd[r].match) \in Dual
    BY <1>0, DecidedOK
  <2>2. dual' \in [Role -> Dual]
    BY <1>5, <2>1 DEF CoreOK
  <2> QED BY <1>1, <1>2, <1>5, <2>2 DEF CoreOK
<1> QED BY <1>3, <1>4, <1>5, Zenon DEF Decide

LEMMA ConfirmAbandonedType ==
  ASSUME EndpointOK, NEW r \in Role, ConfirmAbandoned(r)
  PROVE  EndpointOK'
<1> USE DEF EndpointOK
<1>0. link \in Links /\ cmd[r].conn \in Refs
  BY DEF CoreOK, CommandOK, Commands
<1>1. link' \in Links
  BY <1>0, ShutOK DEF ConfirmAbandoned
<1>2. CommandOK'
  BY ValuesOK DEF ConfirmAbandoned, CommandOK
<1> QED
  BY <1>1, <1>2 DEF ConfirmAbandoned, CoreOK, ReaderOK, CountOK, HistOK, hist

LEMMA SendShutdownType ==
  ASSUME EndpointOK, NEW r \in Role, SendShutdown(r)
  PROVE  EndpointOK'
<1> USE DEF EndpointOK
<1>0. link \in Links /\ Notice("shutdown") \in Message
  BY ValuesOK DEF CoreOK
<1>1. link' \in Links
  BY <1>0, ControlOK, PutOK DEF SendShutdown
<1>2. [NoCommand EXCEPT !.pc = "notice"] \in Commands
  BY ValuesOK DEF Commands
<1>3. CommandOK'
  BY <1>2 DEF SendShutdown, CommandOK
<1> QED
  BY <1>1, <1>3 DEF SendShutdown, CoreOK, ReaderOK, CountOK, HistOK, hist

LEMMA DisconnectAbandonedType ==
  ASSUME EndpointOK, NEW r \in Role, DisconnectAbandoned(r)
  PROVE  EndpointOK'
<1> USE DEF EndpointOK
<1>0. link \in Links /\ conn[r] \in Refs
  BY DEF CoreOK
<1>1. link' \in Links
  BY <1>0, ShutOK DEF DisconnectAbandoned
<1>2. CommandOK'
  BY ValuesOK DEF DisconnectAbandoned, CommandOK
<1> QED
  BY <1>1, <1>2 DEF DisconnectAbandoned, CoreOK, ReaderOK, CountOK, HistOK, hist

LEMMA DisconnectEndsType ==
  ASSUME EndpointOK, NEW r \in Role, NEW l \in Links, DisconnectEnds(r, l)
  PROVE  EndpointOK'
<1> USE DEF EndpointOK
<1>0. conn[r] \in Refs
  BY DEF CoreOK
<1>1. link' \in Links
  BY <1>0, ShutOK DEF DisconnectEnds
<1>2. CommandOK' /\ ReaderOK'
  BY ValuesOK DEF DisconnectEnds, CommandOK, ReaderOK
<1>3. gate' \in [Role -> State] /\ dual' \in [Role -> Dual] /\ resume' \in Resumes
  BY ValuesOK DEF DisconnectEnds, CoreOK, State
<1> QED
  BY <1>1, <1>2, <1>3 DEF DisconnectEnds, CoreOK, CountOK, HistOK, hist

-------------------------------------------------------------------------------
(* Alice's measurements, bursts and recoveries.                               *)

LEMMA GotoType ==
  ASSUME TaskOK, NEW t \in Tasks, NEW pc \in Places, Goto(t, pc), UNCHANGED <<via, asked>>
  PROVE  TaskOK'
BY DEF TaskOK, Goto

LEMMA TaskStepType ==
  ASSUME EndpointOK, AliceOK, TaskStep, CoreOK', ReaderOK', TaskOK', RetryOK', WaitOK',
         ids' \in 0 .. MaxIds, basis' \in [Role -> Bases]
  PROVE  EndpointOK' /\ AliceOK'
BY DEF TaskStep, EndpointOK, AliceOK, CommandOK, CountOK, HistOK

(* A step of a task that only moves it, sends, or fails.                      *)
LEMMA PlainStepType ==
  ASSUME EndpointOK, AliceOK, NEW t \in Tasks, TaskStep, CoreOK', TaskOK',
         UNCHANGED <<reader, ids, basis, tries, left, approved, ping, recovered>>
  PROVE  EndpointOK' /\ AliceOK'
BY TaskStepType DEF EndpointOK, AliceOK, ReaderOK, RetryOK, WaitOK, CountOK, HistOK

LEMMA RaisesHereType ==
  ASSUME CoreOK, TaskOK, NEW t \in Tasks, Raises(t, link)
  PROVE  CoreOK' /\ TaskOK'
BY RaisesType DEF CoreOK

(* A frame sent on Alice's usable connection.                                 *)
LEMMA SendsHereType ==
  ASSUME CoreOK, TaskOK, NEW t \in Tasks, NEW pc \in Places, NEW m \in Message,
         CanControl("alice"), Sends(t, pc, m, link),
         UNCHANGED <<gate, conn, dual, resume, guard, asked>>
  PROVE  CoreOK' /\ TaskOK'
<1>1. link \in Links /\ conn'["alice"] \in Conns
  BY ControlOK DEF CoreOK, Role
<1>2. link' \in Links /\ TaskOK'
  BY <1>1, SendsType
<1> QED BY <1>2 DEF CoreOK

LEMMA GuardFailedType ==
  ASSUME EndpointOK, AliceOK, GuardFailed
  PROVE  EndpointOK' /\ AliceOK'
<1>1. link \in Links /\ "alice" \in Role /\ "measure" \in Tasks /\ "off" \in Places
  BY DEF EndpointOK, CoreOK, Role, Tasks, Places
<1>2. CoreOK'
  BY <1>1, RestrictsType DEF GuardFailed, EndpointOK
<1>3. TaskOK'
  BY <1>1, GotoType DEF GuardFailed, AliceOK
<1> QED BY <1>2, <1>3 DEF GuardFailed, EndpointOK, AliceOK, ReaderOK, CommandOK, CountOK,
           HistOK, RetryOK, WaitOK, hist

LEMMA LoopHeadType ==
  ASSUME EndpointOK, AliceOK, LoopHead
  PROVE  EndpointOK' /\ AliceOK'
<1>1. TaskOK'
  BY GotoType DEF LoopHead, AliceOK, Tasks, Places
<1>2. CoreOK'
  BY DEF LoopHead, EndpointOK, CoreOK, core
<1> QED BY <1>1, <1>2, PlainStepType DEF LoopHead, Tasks

LEMMA HeartbeatType ==
  ASSUME EndpointOK, AliceOK, Heartbeat
  PROVE  EndpointOK' /\ AliceOK'
<1> USE DEF EndpointOK, AliceOK
<1>0. "measure" \in Tasks /\ {"loop", "ping"} \subseteq Places /\ Notice("ping") \in Message
  BY ValuesOK DEF Tasks, Places
<1>1. CoreOK' /\ TaskOK'
  <2>1. CASE Goto("measure", "loop") /\ UNCHANGED <<core, via, asked>>
    <3>1. TaskOK'
      BY <1>0, <2>1, GotoType
    <3> QED BY <2>1, <3>1 DEF core, CoreOK
  <2>2. CASE Raises("measure", link)
    BY <1>0, <2>2, RaisesHereType
  <2>3. CASE /\ CanControl("alice") /\ Sends("measure", "ping", Notice("ping"), link)
             /\ UNCHANGED <<gate, conn, dual, resume, guard, asked>>
    BY <1>0, <2>3, SendsHereType
  <2> QED BY <2>1, <2>2, <2>3 DEF Heartbeat
<1>2. WaitOK'
  BY DEF Heartbeat, WaitOK
<1> QED BY <1>1, <1>2, TaskStepType DEF Heartbeat, ReaderOK, RetryOK, CountOK, HistOK

LEMMA PingSentType ==
  ASSUME EndpointOK, AliceOK, PingSent
  PROVE  EndpointOK' /\ AliceOK'
<1>0. "measure" \in Tasks /\ "pong" \in Places
  BY DEF Tasks, Places
<1>1. CASE Goto("measure", "pong") /\ UNCHANGED <<core, via, asked>>
  <2>1. TaskOK'
    BY <1>0, <1>1, GotoType DEF AliceOK
  <2>2. CoreOK'
    BY <1>1 DEF EndpointOK, CoreOK, core
  <2> QED BY <1>0, <2>1, <2>2, PlainStepType DEF PingSent
<1>2. CASE Raises("measure", link)
  BY <1>0, <1>2, RaisesHereType, PlainStepType DEF PingSent, EndpointOK, AliceOK
<1> QED BY <1>1, <1>2 DEF PingSent

LEMMA HeartbeatStopsType ==
  ASSUME EndpointOK, AliceOK, HeartbeatStops
  PROVE  EndpointOK' /\ AliceOK'
<1>0. "measure" \in Tasks
  BY DEF Tasks
<1>1. CoreOK' /\ TaskOK'
  BY <1>0, RaisesHereType DEF HeartbeatStops, EndpointOK, AliceOK
<1> QED BY <1>0, <1>1, PlainStepType DEF HeartbeatStops

LEMMA ConcludesType ==
  ASSUME CoreOK, TaskOK, Concludes
  PROVE  CoreOK' /\ TaskOK'
<1>0. /\ "measure" \in Tasks /\ {"loop", "resume", "off"} \subseteq Places
      /\ Notice("ready") \in Message /\ link \in Links /\ "alice" \in Role
  BY ValuesOK DEF Tasks, Places, CoreOK, Role
<1>1. CASE Goto("measure", "loop") /\ UNCHANGED <<gate, link, dual, resume, guard, via>>
  <2>1. TaskOK'
    BY <1>0, <1>1, GotoType DEF Concludes
  <2> QED BY <1>1, <2>1 DEF Concludes, CoreOK
<1>2. CASE /\ gate' = [gate EXCEPT !["alice"] = "ACTIVE"]
           /\ Goto("measure", "loop") /\ UNCHANGED <<link, dual, resume, guard, via>>
  <2>1. TaskOK'
    BY <1>0, <1>2, GotoType DEF Concludes
  <2> QED BY <1>2, <2>1 DEF Concludes, CoreOK, State
<1>3. CASE /\ CanControl("alice") /\ UNCHANGED <<gate, dual, resume, guard>>
           /\ Sends("measure", "resume", Notice("ready"), link)
  BY <1>0, <1>3, SendsHereType DEF Concludes
<1>4. CASE Restricts("alice", link) /\ Goto("measure", "off") /\ UNCHANGED via
  <2>1. TaskOK'
    BY <1>0, <1>4, GotoType DEF Concludes
  <2> QED BY <1>0, <1>4, <2>1, RestrictsType
<1> QED BY <1>1, <1>2, <1>3, <1>4, Zenon DEF Concludes

LEMMA ConcludeType ==
  ASSUME EndpointOK, AliceOK, Conclude
  PROVE  EndpointOK' /\ AliceOK'
<1>1. CoreOK' /\ TaskOK' /\ "measure" \in Tasks
  BY ConcludesType DEF Conclude, EndpointOK, AliceOK, Tasks
<1> QED BY <1>1, PlainStepType DEF Conclude

LEMMA AssessKeepsType ==
  ASSUME EndpointOK, AliceOK, AssessKeeps
  PROVE  EndpointOK' /\ AliceOK'
<1>1. CoreOK' /\ TaskOK'
  BY ConcludesType DEF AssessKeeps, EndpointOK, AliceOK
<1>2. WaitOK'
  BY DEF AssessKeeps, Assessed, AliceOK, WaitOK
<1> QED BY <1>1, <1>2, TaskStepType DEF AssessKeeps, EndpointOK, AliceOK, ReaderOK, RetryOK,
           CountOK, HistOK

LEMMA AssessRotatesType ==
  ASSUME EndpointOK, AliceOK, AssessRotates
  PROVE  EndpointOK' /\ AliceOK'
<1>1. CoreOK' /\ TaskOK'
  BY RaisesHereType DEF AssessRotates, EndpointOK, AliceOK, Tasks
<1>2. WaitOK'
  BY DEF AssessRotates, Assessed, AliceOK, WaitOK
<1> QED BY <1>1, <1>2, TaskStepType DEF AssessRotates, EndpointOK, AliceOK, ReaderOK, RetryOK,
           CountOK, HistOK

LEMMA NewDualOK ==
  ASSUME NEW id \in 0 .. MaxIds, NEW recovery \in BOOLEAN
  PROVE  NewDual(id, recovery) \in Dual
BY DEF NewDual, Dual

LEMMA AssessVerifiesType ==
  ASSUME EndpointOK, AliceOK, AssessVerifies
  PROVE  EndpointOK' /\ AliceOK'
<1> DEFINE recovery == guard = "verified"
           begins == gate["alice"] \in {"ACTIVE", "VERIFYING"} /\ Up("alice", conn["alice"])
<1>0. /\ "measure" \in Tasks /\ "request" \in Places /\ link \in Links
      /\ "alice" \in Role /\ recovery \in BOOLEAN
  BY DEF Tasks, Places, EndpointOK, CoreOK, Role
<1>1. WaitOK'
  BY DEF AssessVerifies, Assessed, AliceOK, WaitOK
<1>2. CASE begins
  <2>1. /\ ids < MaxIds /\ ids' = ids + 1 /\ BeginVerification("alice", ids + 1, recovery)
        /\ asked' = [id |-> ids + 1, recovery |-> recovery]
        /\ UNCHANGED <<conn, resume, guard>>
        /\ Sends("measure", "request", Msg("verify_request", ids + 1, recovery), link)
    BY <1>2, Zenon DEF AssessVerifies
  <2>2. ids + 1 \in 0 .. MaxIds
    BY <2>1, EndpointAssumption DEF EndpointOK, CountOK
  <2>3. NewDual(ids + 1, recovery) \in Dual /\ Msg("verify_request", ids + 1, recovery) \in Message
    BY <1>0, <2>2, NewDualOK, ValuesOK
  <2> HIDE DEF recovery
  <2>4. conn'["alice"] \in Conns /\ gate' \in [Role -> State] /\ dual' \in [Role -> Dual]
    BY <1>2, <2>1, <2>3, EndpointAssumption
       DEF EndpointOK, CoreOK, Up, Refs, Conns, Role, BeginVerification, State
  <2>5. link' \in Links
    BY <1>0, <2>1, <2>3, <2>4, PutOK DEF Sends
  <2>6. TaskOK'
    BY <1>0, <2>1, <2>2, <2>4 DEF Sends, Goto, AliceOK, TaskOK, Conns, Refs
  <2>7. CoreOK'
    BY <2>1, <2>4, <2>5 DEF EndpointOK, CoreOK
  <2> QED BY <1>1, <2>1, <2>2, <2>6, <2>7, TaskStepType DEF AssessVerifies, EndpointOK, AliceOK,
             ReaderOK, RetryOK, HistOK
<1>3. CASE ~begins
  <2>1. Raises("measure", link) /\ UNCHANGED ids
    BY <1>3, Zenon DEF AssessVerifies
  <2>2. CoreOK' /\ TaskOK'
    BY <1>0, <2>1, RaisesHereType DEF EndpointOK, AliceOK
  <2> QED BY <1>1, <2>1, <2>2, TaskStepType DEF AssessVerifies, EndpointOK, AliceOK, ReaderOK,
             RetryOK, CountOK, HistOK
<1> QED BY <1>2, <1>3

LEMMA RequestSentType ==
  ASSUME EndpointOK, AliceOK, RequestSent
  PROVE  EndpointOK' /\ AliceOK'
<1>0. "measure" \in Tasks /\ "ready" \in Places
  BY DEF Tasks, Places
<1>1. CASE Goto("measure", "ready") /\ UNCHANGED <<core, via, asked>>
  <2>1. TaskOK'
    BY <1>0, <1>1, GotoType DEF AliceOK
  <2>2. CoreOK'
    BY <1>1 DEF EndpointOK, CoreOK, core
  <2> QED BY <1>0, <2>1, <2>2, PlainStepType DEF RequestSent
<1>2. CASE Raises("measure", link)
  BY <1>0, <1>2, RaisesHereType, PlainStepType DEF RequestSent, EndpointOK, AliceOK
<1> QED BY <1>1, <1>2 DEF RequestSent

LEMMA BothDecidedType ==
  ASSUME EndpointOK, AliceOK, BothDecided
  PROVE  EndpointOK' /\ AliceOK'
<1>0. "measure" \in Tasks /\ "result" \in Places /\ TaskOK /\ CoreOK
  BY DEF Tasks, Places, EndpointOK, AliceOK
<1>1. Msg("verification_result", asked.id, asked.recovery) \in Message
  BY <1>0, ValuesOK DEF TaskOK
<1>2. CoreOK' /\ TaskOK'
  BY <1>0, <1>1, RaisesHereType, SendsHereType DEF BothDecided
<1> QED BY <1>0, <1>2, PlainStepType DEF BothDecided

LEMMA RespondTimesOutType ==
  ASSUME EndpointOK, AliceOK, RespondTimesOut
  PROVE  EndpointOK' /\ AliceOK'
<1>0. "measure" \in Tasks
  BY DEF Tasks
<1>1. CoreOK' /\ TaskOK'
  BY <1>0, RaisesHereType DEF RespondTimesOut, EndpointOK, AliceOK
<1> QED BY <1>0, <1>1, PlainStepType DEF RespondTimesOut

LEMMA ResultSentType ==
  ASSUME EndpointOK, AliceOK, ResultSent
  PROVE  EndpointOK' /\ AliceOK'
<1>0. /\ "measure" \in Tasks /\ {"conclude", "notice"} \subseteq Places /\ TaskOK /\ CoreOK
      /\ HistOK /\ RetryOK /\ Notice("reconnect") \in Message
  BY ValuesOK DEF Tasks, Places, EndpointOK, AliceOK
<1>1. asked.id \in 0 .. MaxIds /\ asked.recovery \in BOOLEAN /\ via["measure"] \in Refs
  BY <1>0 DEF TaskOK
<1>2. CASE SendLost("measure") /\ Raises("measure", link) /\ UNCHANGED <<basis, approved>>
  <2>1. CoreOK' /\ TaskOK'
    BY <1>0, <1>2, RaisesHereType
  <2> QED BY <1>0, <1>2, <2>1, PlainStepType DEF ResultSent
<1>3. CASE /\ basis' = [basis EXCEPT !["alice"] = [id |-> asked.id, on |-> via["measure"],
                                                  recovery |-> asked.recovery]]
           /\ approved' = IF asked.recovery THEN asked.id ELSE approved
  <2>1. basis' \in [Role -> Bases] /\ RetryOK'
    BY <1>0, <1>1, <1>3 DEF HistOK, Bases, RetryOK, ResultSent
  <2>2. CoreOK' /\ TaskOK'
    <3>1. CASE /\ dual' = [dual EXCEPT !["alice"] = NoDual]
               /\ guard' = "verified" /\ asked' = NotAsked
               /\ Goto("measure", "conclude")
               /\ UNCHANGED <<gate, conn, link, resume, via>>
      <4>1. CoreOK'
        BY <1>0, <3>1, ValuesOK DEF CoreOK
      <4> QED BY <1>0, <3>1, <4>1, ValuesOK DEF TaskOK, Goto
    <3>2. CASE Raises("measure", link)
      BY <1>0, <3>2, RaisesHereType
    <3>3. CASE /\ CanControl("alice") /\ UNCHANGED <<gate, conn, dual, resume, guard, asked>>
               /\ Sends("measure", "notice", Notice("reconnect"), link)
      BY <1>0, <3>3, SendsHereType
    <3> QED BY <1>2, <3>1, <3>2, <3>3, Zenon DEF ResultSent
  <2> QED BY <2>1, <2>2, TaskStepType DEF ResultSent, EndpointOK, AliceOK, ReaderOK, CountOK,
             WaitOK
<1> QED BY <1>2, <1>3, Zenon DEF ResultSent

(* Alice lets the gate go to RECONNECTING and closes the old connection.      *)
LEMMA ReconnectingType ==
  ASSUME CoreOK, gate' = [gate EXCEPT !["alice"] = "RECONNECTING"],
         dual' \in {dual, [dual EXCEPT !["alice"] = NoDual]},
         guard' \in {guard, "verified"}, link' = Shut(link, "alice", conn["alice"]),
         UNCHANGED <<conn, resume>>
  PROVE  CoreOK'
<1>1. link \in Links /\ "alice" \in Role /\ conn["alice"] \in Refs
  BY DEF CoreOK, Role
<1>2. link' \in Links
  BY <1>1, ShutOK
<1>3. dual' \in [Role -> Dual]
  BY ValuesOK DEF CoreOK
<1>4. gate' \in [Role -> State]
  BY DEF CoreOK, State
<1> QED BY <1>2, <1>3, <1>4 DEF CoreOK

LEMMA NoticeSentType ==
  ASSUME EndpointOK, AliceOK, NoticeSent
  PROVE  EndpointOK' /\ AliceOK'
<1>0. "measure" \in Tasks /\ "close" \in Places /\ TaskOK /\ CoreOK
  BY DEF Tasks, Places, EndpointOK, AliceOK
<1>1. CASE Raises("measure", link)
  <2>1. CoreOK' /\ TaskOK'
    BY <1>0, <1>1, RaisesHereType
  <2> QED BY <1>0, <2>1, PlainStepType DEF NoticeSent
<1>2. CASE /\ gate' = [gate EXCEPT !["alice"] = "RECONNECTING"]
           /\ dual' = [dual EXCEPT !["alice"] = NoDual]
           /\ guard' = "verified" /\ asked' = NotAsked
           /\ link' = Shut(link, "alice", conn["alice"])
           /\ Goto("measure", "close")
           /\ UNCHANGED <<conn, resume, via>>
  <2>1. CoreOK'
    BY <1>0, <1>2, ReconnectingType
  <2>2. TaskOK'
    BY <1>0, <1>2, ValuesOK DEF TaskOK, Goto
  <2> QED BY <1>0, <2>1, <2>2, PlainStepType DEF NoticeSent
<1> QED BY <1>1, <1>2, Zenon DEF NoticeSent

LEMMA RecoverBeginsType ==
  ASSUME EndpointOK, AliceOK, NEW t \in Tasks, RecoverBegins(t)
  PROVE  EndpointOK' /\ AliceOK'
<1>0. "establish" \in Places /\ TaskOK /\ CoreOK /\ ReaderOK /\ RetryOK
  BY DEF Places, EndpointOK, AliceOK
<1>1. CASE Raises(t, link) /\ UNCHANGED <<reader, tries>>
  <2>1. CoreOK' /\ TaskOK'
    BY <1>0, <1>1, RaisesHereType
  <2> QED BY <1>1, <2>1, PlainStepType DEF RecoverBegins
<1>2. CASE /\ reader' = [reader EXCEPT !["alice"] = NoReader] /\ tries' = Attempts
           /\ Goto(t, "establish") /\ UNCHANGED <<core, via, asked>>
  <2>1. CoreOK'
    BY <1>0, <1>2 DEF CoreOK, core
  <2>2. TaskOK'
    BY <1>0, <1>2, GotoType
  <2>3. ReaderOK'
    BY <1>0, <1>2, ValuesOK DEF ReaderOK
  <2>4. RetryOK'
    BY <1>0, <1>2, EndpointAssumption DEF RetryOK, RecoverBegins
  <2> QED BY <2>1, <2>2, <2>3, <2>4, TaskStepType DEF RecoverBegins, EndpointOK, AliceOK,
             CountOK, HistOK, WaitOK
<1> QED BY <1>1, <1>2, Zenon DEF RecoverBegins

(* It is for the caller to say that the new connection is within its bound.   *)
LEMMA ReconnectedType ==
  ASSUME EndpointOK, AliceOK, NEW t \in Tasks, NEW c \in Conns, NEW l \in Links,
         Reconnected(t, c, l), conns' \in Refs
  PROVE  EndpointOK' /\ AliceOK'
<1>0. /\ "proof" \in Places /\ TaskOK /\ CoreOK /\ ReaderOK /\ RetryOK /\ "alice" \in Role
      /\ c \in Refs
  BY DEF Places, EndpointOK, AliceOK, Role, Conns, Refs
<1>1. /\ CommandOK' /\ HistOK' /\ RetryOK' /\ CountOK' /\ ping' \in {"none", "sent", "done"}
  BY DEF Reconnected, EndpointOK, AliceOK, CommandOK, CountOK, HistOK, hist, RetryOK, WaitOK
<1>2. CASE Raises(t, l) /\ UNCHANGED <<reader, recovered>>
  <2>1. CoreOK' /\ TaskOK'
    BY <1>0, <1>2, RaisesType
  <2> QED BY <1>1, <1>2, <2>1 DEF EndpointOK, AliceOK, ReaderOK, WaitOK
<1>3. CASE /\ gate' = [gate EXCEPT !["alice"] = "VERIFYING"]
           /\ conn' = [conn EXCEPT !["alice"] = c]
           /\ reader' = [reader EXCEPT !["alice"] = [pc |-> "recv", conn |-> c, msg |-> NoMsg]]
           /\ recovered' = "waiting"
           /\ Sends(t, "proof", Msg("verification_result", approved, TRUE), l)
           /\ UNCHANGED <<dual, resume, guard, asked>>
  <2>1. Msg("verification_result", approved, TRUE) \in Message /\ NoMsg \in Message
    BY <1>0, ValuesOK DEF RetryOK
  <2>2. conn' \in [Role -> Refs] /\ conn'["alice"] = c
    BY <1>0, <1>3 DEF CoreOK
  <2>3. link' \in Links /\ TaskOK'
    BY <1>0, <1>3, <2>1, <2>2, SendsType
  <2>4. [pc |-> "recv", conn |-> c, msg |-> NoMsg] \in Readers
    BY <1>0, <2>1 DEF Readers
  <2>5. ReaderOK'
    BY <1>0, <1>3, <2>4 DEF ReaderOK
  <2>6. CoreOK'
    BY <1>0, <1>3, <2>2, <2>3 DEF CoreOK, State
  <2> QED BY <1>1, <1>3, <2>3, <2>5, <2>6 DEF EndpointOK, AliceOK, WaitOK
<1> QED BY <1>2, <1>3, Zenon DEF Reconnected

LEMMA EstablishFailsType ==
  ASSUME EndpointOK, AliceOK, NEW t \in Tasks, NEW l \in Links, EstablishFails(t, l),
         conns' \in Refs
  PROVE  EndpointOK' /\ AliceOK'
<1>0. TaskOK /\ CoreOK /\ RetryOK
  BY DEF EndpointOK, AliceOK
<1>1. /\ CommandOK' /\ HistOK' /\ CountOK' /\ WaitOK' /\ ReaderOK'
  BY DEF EstablishFails, EndpointOK, AliceOK, CommandOK, CountOK, HistOK, hist, WaitOK, ReaderOK
<1>2. CASE Raises(t, l) /\ UNCHANGED tries
  <2>1. CoreOK' /\ TaskOK'
    BY <1>0, <1>2, RaisesType
  <2> QED BY <1>1, <1>2, <2>1, <1>0 DEF EndpointOK, AliceOK, RetryOK, EstablishFails
<1>3. CASE /\ TriesAgain /\ tries' = tries - 1 /\ link' = l
           /\ UNCHANGED <<gate, conn, dual, resume, guard, task, via, asked>>
  <2>1. CoreOK' /\ TaskOK'
    BY <1>0, <1>3 DEF CoreOK, TaskOK
  <2>2. RetryOK'
    BY <1>0, <1>3, EndpointAssumption DEF RetryOK, EstablishFails, TriesAgain
  <2> QED BY <1>1, <2>1, <2>2 DEF EndpointOK, AliceOK
<1> QED BY <1>2, <1>3, Zenon DEF EstablishFails

LEMMA ProofSentType ==
  ASSUME EndpointOK, AliceOK, NEW t \in Tasks, ProofSent(t)
  PROVE  EndpointOK' /\ AliceOK'
<1>0. "confirm" \in Places /\ TaskOK /\ CoreOK
  BY DEF Places, EndpointOK, AliceOK
<1>1. WaitOK'
  BY DEF ProofSent, AliceOK, WaitOK
<1>2. CoreOK' /\ TaskOK'
  <2>1. CASE Raises(t, link)
    BY <1>0, <2>1, RaisesHereType
  <2>2. CASE Goto(t, "confirm") /\ UNCHANGED <<core, via, asked, recovered>>
    <3>1. TaskOK'
      BY <1>0, <2>2, GotoType
    <3> QED BY <1>0, <2>2, <3>1 DEF CoreOK, core
  <2> QED BY <2>1, <2>2 DEF ProofSent
<1> QED BY <1>1, <1>2, TaskStepType DEF ProofSent, EndpointOK, AliceOK, ReaderOK, RetryOK,
           CountOK, HistOK

LEMMA RecoveredType ==
  ASSUME EndpointOK, AliceOK, NEW t \in Tasks, Recovered(t)
  PROVE  EndpointOK' /\ AliceOK'
<1>0. {"conclude", "resume"} \subseteq Places /\ TaskOK /\ CoreOK /\ Notice("ready") \in Message
  BY ValuesOK DEF Places, EndpointOK, AliceOK
<1>1. WaitOK'
  BY DEF Recovered, AliceOK, WaitOK
<1>2. CoreOK' /\ TaskOK'
  <2>1. CASE Raises(t, link)
    BY <1>0, <2>1, RaisesHereType
  <2>2. CASE Goto(t, "conclude") /\ UNCHANGED <<core, via, asked>>
    <3>1. TaskOK'
      BY <1>0, <2>2, GotoType
    <3> QED BY <1>0, <2>2, <3>1 DEF CoreOK, core
  <2>3. CASE /\ CanControl("alice") /\ UNCHANGED <<gate, conn, dual, resume, guard, asked>>
             /\ Sends(t, "resume", Notice("ready"), link)
    BY <1>0, <2>3, SendsHereType
  <2> QED BY <2>1, <2>2, <2>3, Zenon DEF Recovered
<1> QED BY <1>1, <1>2, TaskStepType DEF Recovered, EndpointOK, AliceOK, ReaderOK, RetryOK,
           CountOK, HistOK

LEMMA ResumedType ==
  ASSUME EndpointOK, AliceOK, NEW t \in Tasks, Resumed(t)
  PROVE  EndpointOK' /\ AliceOK'
<1>0. {"next", "loop"} \subseteq Places /\ TaskOK /\ CoreOK
  BY DEF Places, EndpointOK, AliceOK
<1>1. RetryOK'
  BY EndpointAssumption DEF Resumed, AliceOK, RetryOK
<1>2. CoreOK' /\ TaskOK'
  <2>1. CASE Raises(t, link)
    BY <1>0, <2>1, RaisesHereType
  <2>2. CASE /\ gate' = [gate EXCEPT !["alice"] = "ACTIVE"]
             /\ Goto(t, IF t = "burst" THEN "next" ELSE "loop")
             /\ UNCHANGED <<conn, link, dual, resume, guard, via, asked>>
    <3>1. TaskOK'
      BY <1>0, <2>2, GotoType
    <3> QED BY <1>0, <2>2, <3>1 DEF CoreOK, State
  <2> QED BY <2>1, <2>2 DEF Resumed
<1> QED BY <1>1, <1>2, TaskStepType DEF Resumed, EndpointOK, AliceOK, ReaderOK, WaitOK,
           CountOK, HistOK

LEMMA StartBurstType ==
  ASSUME EndpointOK, AliceOK, StartBurst
  PROVE  EndpointOK' /\ AliceOK'
<1>1. TaskOK'
  BY GotoType DEF StartBurst, AliceOK, Tasks, Places
<1>2. RetryOK'
  BY EndpointAssumption DEF StartBurst, AliceOK, RetryOK
<1> QED BY <1>1, <1>2 DEF StartBurst, endpointVars, core, hist, EndpointOK, AliceOK, CoreOK,
           ReaderOK, CommandOK, CountOK, HistOK, WaitOK

LEMMA BurstNextType ==
  ASSUME EndpointOK, AliceOK, BurstNext
  PROVE  EndpointOK' /\ AliceOK'
<1>0. /\ "burst" \in Tasks /\ {"off", "demo"} \subseteq Places /\ TaskOK /\ CoreOK
      /\ RetryOK /\ ids \in 0 .. MaxIds
  BY DEF Tasks, Places, EndpointOK, AliceOK, CountOK
<1>1. CASE Goto("burst", "off") /\ UNCHANGED <<core, ids, left, approved, via, asked>>
  <2>1. CoreOK' /\ TaskOK'
    <3>1. TaskOK'
      BY <1>0, <1>1, GotoType
    <3> QED BY <1>0, <1>1, <3>1 DEF CoreOK, core
  <2> QED BY <1>0, <1>1, <2>1, PlainStepType DEF BurstNext
<1>2. CASE Raises("burst", link) /\ UNCHANGED <<ids, left, approved>>
  <2>1. CoreOK' /\ TaskOK'
    BY <1>0, <1>2, RaisesHereType
  <2> QED BY <1>0, <1>2, <2>1, PlainStepType DEF BurstNext
<1>3. CASE /\ left # 0 /\ ids < MaxIds
           /\ ids' = ids + 1 /\ approved' = ids + 1 /\ left' = left - 1
  <2>1. ids + 1 \in 0 .. MaxIds
    BY <1>0, <1>3, EndpointAssumption
  <2>2. Msg("demo_mode", ids + 1, FALSE) \in Message
    BY <2>1, ValuesOK
  <2>3. RetryOK'
    BY <1>0, <1>3, <2>1, EndpointAssumption DEF RetryOK, BurstNext
  <2>4. CoreOK' /\ TaskOK'
    <3>1. CASE Raises("burst", link)
      BY <1>0, <3>1, RaisesHereType
    <3>2. CASE /\ CanControl("alice") /\ UNCHANGED <<gate, conn, dual, resume, guard, asked>>
               /\ Sends("burst", "demo", Msg("demo_mode", ids + 1, FALSE), link)
      BY <1>0, <2>2, <3>2, SendsHereType
    <3> QED BY <1>3, <3>1, <3>2, Zenon DEF BurstNext
  <2> QED BY <1>3, <2>1, <2>3, <2>4, TaskStepType DEF BurstNext, EndpointOK, AliceOK, ReaderOK,
             WaitOK, HistOK
<1> QED BY <1>1, <1>2, <1>3, Zenon DEF BurstNext

LEMMA BurstReconnectsType ==
  ASSUME EndpointOK, AliceOK, BurstReconnects
  PROVE  EndpointOK' /\ AliceOK'
<1>0. "burst" \in Tasks /\ "close" \in Places /\ TaskOK /\ CoreOK
  BY DEF Tasks, Places, EndpointOK, AliceOK
<1>1. CoreOK' /\ TaskOK'
  <2>1. CASE Raises("burst", link)
    BY <1>0, <2>1, RaisesHereType
  <2>2. CASE /\ gate' = [gate EXCEPT !["alice"] = "RECONNECTING"]
             /\ link' = Shut(link, "alice", conn["alice"])
             /\ Goto("burst", "close")
             /\ UNCHANGED <<conn, dual, resume, guard, via, asked>>
    <3>1. TaskOK'
      BY <1>0, <2>2, GotoType
    <3> QED BY <1>0, <2>2, <3>1, ReconnectingType
  <2> QED BY <2>1, <2>2 DEF BurstReconnects
<1> QED BY <1>0, <1>1, PlainStepType DEF BurstReconnects

-------------------------------------------------------------------------------
(* Alice's reader and her commands.                                           *)

LEMMA AliceHandleType ==
  ASSUME CoreOK, ReaderOK, HistOK, WaitOK, NEW m \in Message, NEW l \in Links,
         AliceHandle(m, l)
  PROVE  CoreOK' /\ ReaderOK' /\ HistOK' /\ WaitOK'
<1>0. "alice" \in Role
  BY DEF Role
<1>1. CASE /\ ReaderLoops("alice") /\ UNCHANGED hist
           /\ link' = l /\ UNCHANGED <<gate, conn, dual, resume, guard>>
           /\ \/ recovered' = "done" /\ ping' = ping
              \/ ping' = "done" /\ recovered' = recovered
  BY <1>0, <1>1, ReaderLoopsType DEF CoreOK, HistOK, hist, WaitOK
<1>2. CASE HandleResponse("alice", m, l) /\ UNCHANGED <<ping, recovered>>
  BY <1>0, <1>2, HandleResponseType DEF WaitOK
<1>3. CASE HandleShutdown("alice", l) /\ UNCHANGED <<ping, recovered>>
  <2>1. CoreOK'
    BY <1>0, <1>3, RestrictsType DEF HandleShutdown
  <2>2. ReaderOK'
    BY <1>0, <1>3, ReaderLoopsType DEF HandleShutdown
  <2> QED BY <1>3, <2>1, <2>2 DEF HandleShutdown, HistOK, hist, WaitOK
<1>4. CASE Refuse("alice", l) /\ UNCHANGED <<ping, recovered>>
  BY <1>0, <1>4, RefuseType DEF WaitOK
<1> QED
  <2>1. CASE m.type = "ready" /\ recovered = "waiting"
    BY <1>1, <2>1 DEF AliceHandle, hist
  <2>2. CASE m.type = "pong" /\ ping = "sent"
    BY <1>1, <2>2 DEF AliceHandle, hist
  <2>3. CASE m.type = "verify_response"
    BY <1>2, <2>3 DEF AliceHandle
  <2>4. CASE m.type = "shutdown"
    BY <1>3, <2>4 DEF AliceHandle
  <2>5. CASE /\ ~(m.type = "ready" /\ recovered = "waiting")
             /\ ~(m.type = "pong" /\ ping = "sent")
             /\ m.type # "verify_response" /\ m.type # "shutdown"
    BY <1>4, <2>5, Zenon DEF AliceHandle
  <2> QED BY <2>1, <2>2, <2>3, <2>4, <2>5

(* A reader that has taken a frame and waits for verification_lock            *)
LEMMA WaitsForLockType ==
  ASSUME ReaderOK, NEW r \in Role, NEW m \in Message,
         reader' = [reader EXCEPT ![r].pc = "lock", ![r].msg = m]
  PROVE  ReaderOK'
<1> DEFINE next == [reader[r] EXCEPT !.pc = "lock", !.msg = m]
<1>1. reader[r] \in Readers
  BY DEF ReaderOK
<1>2. next \in Readers
  BY <1>1 DEF Readers
<1>3. reader' = [reader EXCEPT ![r] = next]
  BY DEF ReaderOK
<1> HIDE DEF next
<1> QED BY <1>2, <1>3 DEF ReaderOK

LEMMA AliceReceivesType ==
  ASSUME EndpointOK, AliceOK, AliceReceives
  PROVE  EndpointOK' /\ AliceOK'
<1> DEFINE c == reader["alice"].conn
           m == Head(link[c].wire["alice"])
           l == Take(link, "alice", c)
<1>0. "alice" \in Role /\ CoreOK /\ ReaderOK /\ HistOK /\ WaitOK
  BY DEF Role, EndpointOK, AliceOK
<1>1. c \in Conns /\ link \in Links /\ link[c].wire["alice"] # <<>>
  BY <1>0, EndpointAssumption DEF AliceReceives, Up, ReaderOK, Readers, Refs, Conns, CoreOK
<1>2. m \in Message /\ l \in Links
  BY <1>0, <1>1, TakeOK
<1>3. CoreOK' /\ ReaderOK' /\ HistOK' /\ WaitOK'
  <2>1. CASE AliceHandle(m, l)
    <3> HIDE DEF m, l
    <3> QED BY <1>0, <1>2, <2>1, AliceHandleType
  <2>2. CASE /\ link' = l
             /\ reader' = [reader EXCEPT !["alice"].pc = "lock", !["alice"].msg = m]
             /\ UNCHANGED <<gate, conn, dual, resume, guard, ping, recovered, hist>>
    <3> HIDE DEF m, l
    <3>1. ReaderOK'
      BY <1>0, <1>2, <2>2, WaitsForLockType
    <3> QED BY <1>0, <1>2, <2>2, <3>1 DEF CoreOK, HistOK, hist, WaitOK
  <2> QED BY <2>1, <2>2, Zenon DEF AliceReceives
<1> QED BY <1>3 DEF AliceReceives, EndpointOK, AliceOK, CommandOK, CountOK, TaskOK, RetryOK

LEMMA AliceGetsLockType ==
  ASSUME EndpointOK, AliceOK, AliceGetsLock
  PROVE  EndpointOK' /\ AliceOK'
<1>0. /\ "alice" \in Role /\ CoreOK /\ ReaderOK /\ HistOK /\ WaitOK
      /\ link \in Links /\ reader["alice"].msg \in Message
  BY DEF Role, EndpointOK, AliceOK, CoreOK, ReaderOK, Readers
<1>1. CoreOK' /\ ReaderOK' /\ HistOK' /\ WaitOK'
  BY <1>0, AliceHandleType DEF AliceGetsLock
<1> QED BY <1>1 DEF AliceGetsLock, EndpointOK, AliceOK, CommandOK, CountOK, TaskOK, RetryOK

LEMMA AliceDisconnectBeginsType ==
  ASSUME EndpointOK, AliceOK, AliceDisconnectBegins
  PROVE  EndpointOK' /\ AliceOK'
<1>0. "alice" \in Role /\ CoreOK /\ link \in Links /\ conn["alice"] \in Refs
  BY DEF Role, EndpointOK, CoreOK
<1>1. link' \in Links
  BY <1>0, ShutOK DEF AliceDisconnectBegins
<1>2. dual' \in [Role -> Dual]
  BY <1>0, ValuesOK DEF AliceDisconnectBegins, CoreOK
<1>3. CoreOK'
  BY <1>0, <1>1, <1>2 DEF AliceDisconnectBegins, CoreOK
<1>4. [NoCommand EXCEPT !.pc = "stopping"] \in Commands
  BY ValuesOK DEF Commands
<1>5. CommandOK'
  BY <1>4 DEF AliceDisconnectBegins, EndpointOK, CommandOK
<1>6. TaskOK'
  BY ValuesOK, EndpointAssumption DEF AliceDisconnectBegins, TaskOK, Places, Refs
<1> QED BY <1>3, <1>5, <1>6 DEF AliceDisconnectBegins, EndpointOK, AliceOK, ReaderOK, CountOK,
           HistOK, hist, RetryOK, WaitOK

LEMMA AliceStopsType ==
  ASSUME EndpointOK, AliceOK, AliceStops
  PROVE  EndpointOK' /\ AliceOK'
<1>1. EndpointOK'
  BY SendShutdownType DEF AliceStops, Role
<1> QED BY <1>1 DEF AliceStops, aliceVars, AliceOK, TaskOK, RetryOK, WaitOK

LEMMA StopAbandonedType ==
  ASSUME EndpointOK, AliceOK, StopAbandoned
  PROVE  EndpointOK' /\ AliceOK'
<1>1. CommandOK'
  BY ValuesOK DEF StopAbandoned, EndpointOK, CommandOK
<1> QED BY <1>1 DEF StopAbandoned, core, hist, aliceVars, EndpointOK, CoreOK, ReaderOK, CountOK,
           HistOK, AliceOK, TaskOK, RetryOK, WaitOK

LEMMA AliceDisconnectEndsType ==
  ASSUME EndpointOK, AliceOK, AliceDisconnectEnds
  PROVE  EndpointOK' /\ AliceOK'
<1>0. link \in Links /\ "alice" \in Role
  BY DEF EndpointOK, CoreOK, Role
<1>1. EndpointOK'
  BY <1>0, DisconnectEndsType DEF AliceDisconnectEnds
<1> QED BY <1>1 DEF AliceDisconnectEnds, aliceVars, AliceOK, TaskOK, RetryOK, WaitOK

LEMMA ConnectType ==
  ASSUME EndpointOK, AliceOK, Connect
  PROVE  EndpointOK' /\ AliceOK'
<1>1. CommandOK'
  <2> DEFINE next == [cmd["alice"] EXCEPT !.pc = "connecting"]
  <2>1. next \in Commands
    BY DEF EndpointOK, CommandOK, Commands, Role
  <2>2. cmd' = [cmd EXCEPT !["alice"] = next] /\ closing' = closing
    BY DEF Connect
  <2> HIDE DEF next
  <2> QED BY <2>1, <2>2 DEF EndpointOK, CommandOK
<1>2. CoreOK'
  <2>1. conn' \in [Role -> Refs]
    <3>1. 0 \in Refs
      BY EndpointAssumption DEF Refs
    <3> QED BY <3>1 DEF Connect, EndpointOK, CoreOK
  <2>2. gate' \in [Role -> State]
    BY DEF Connect, EndpointOK, CoreOK, State
  <2> QED BY <2>1, <2>2 DEF Connect, EndpointOK, CoreOK
<1> QED BY <1>1, <1>2 DEF Connect, hist, aliceVars, EndpointOK, ReaderOK, CountOK,
           HistOK, AliceOK, TaskOK, RetryOK, WaitOK

(* The rest of a connection attempt changes conns and the links elsewhere.    *)
LEMMA ConnectedType ==
  ASSUME EndpointOK, AliceOK, NEW c \in Conns, Connected(c), conns' \in Refs,
         link' \in Links
  PROVE  EndpointOK' /\ AliceOK'
<1>0. /\ "alice" \in Role /\ "measure" \in Tasks /\ "assess" \in Places /\ c \in Refs
      /\ NoMsg \in Message /\ TaskOK
  BY ValuesOK DEF Role, Tasks, Places, Conns, Refs, AliceOK
<1>1. CoreOK'
  BY <1>0 DEF Connected, NewGuard, EndpointOK, CoreOK, State
<1>2. [pc |-> "recv", conn |-> c, msg |-> NoMsg] \in Readers
  BY <1>0 DEF Readers
<1>3. ReaderOK'
  BY <1>2 DEF Connected, EndpointOK, ReaderOK
<1>4. CommandOK' /\ HistOK'
  BY ValuesOK DEF Connected, EndpointOK, CommandOK, HistOK
<1>5. TaskOK'
  BY <1>0, GotoType DEF Connected
<1> QED BY <1>1, <1>3, <1>4, <1>5 DEF Connected, EndpointOK, CountOK, AliceOK, RetryOK, WaitOK

LEMMA ConnectFailsType ==
  ASSUME EndpointOK, AliceOK, ConnectFails, conns' = conns
  PROVE  EndpointOK' /\ AliceOK'
<1>0. link \in Links /\ "alice" \in Role /\ CoreOK
  BY DEF EndpointOK, CoreOK, Role
<1>1. CoreOK'
  BY <1>0, RestrictsType DEF ConnectFails
<1>2. CommandOK'
  BY ValuesOK DEF ConnectFails, EndpointOK, CommandOK
<1> QED BY <1>1, <1>2 DEF ConnectFails, hist, aliceVars, EndpointOK, ReaderOK, CountOK,
           HistOK, AliceOK, TaskOK, RetryOK, WaitOK

LEMMA ConnectAbandonedType ==
  ASSUME EndpointOK, AliceOK, ConnectAbandoned, conns' = conns
  PROVE  EndpointOK' /\ AliceOK'
<1>1. CommandOK'
  BY ValuesOK DEF ConnectAbandoned, EndpointOK, CommandOK
<1> QED BY <1>1 DEF ConnectAbandoned, core, hist, aliceVars, EndpointOK, CoreOK, ReaderOK,
           CountOK, HistOK, AliceOK, TaskOK, RetryOK, WaitOK

-------------------------------------------------------------------------------
(* Bob's admission, reader and commands.                                      *)

Cands == [pc : {"none", "arrived", "proof"}, id : 0 .. MaxIds]

LEMMA LeaveType ==
  ASSUME BobTypeOK, NEW c \in Conns, Leave(c), server' \in BOOLEAN
  PROVE  BobTypeOK'
<1>1. NoCand \in Cands
  BY EndpointAssumption DEF NoCand, Cands
<1> QED BY <1>1 DEF BobTypeOK, Leave, Cands

LEMMA StartServerType ==
  ASSUME EndpointOK, BobTypeOK, StartServer
  PROVE  EndpointOK' /\ BobTypeOK'
<1>1. conn' \in [Role -> Refs]
  <2>1. 0 \in Refs
    BY EndpointAssumption DEF Refs
  <2> QED BY <2>1 DEF StartServer, EndpointOK, CoreOK
<1>2. gate' \in [Role -> State]
  BY DEF StartServer, EndpointOK, CoreOK, State
<1> QED BY <1>1, <1>2 DEF StartServer, hist, EndpointOK, CoreOK, ReaderOK, CommandOK, CountOK,
           HistOK, BobTypeOK

LEMMA AttachBobType ==
  ASSUME CoreOK, ReaderOK, NEW c \in Conns, NEW pc \in {"recv", "ready"}, AttachBob(c, pc)
  PROVE  gate' \in [Role -> State] /\ conn' \in [Role -> Refs] /\ ReaderOK'
<1>1. [pc |-> pc, conn |-> c, msg |-> NoMsg] \in Readers
  BY ValuesOK DEF Readers, Conns, Refs
<1>2. ReaderOK'
  BY <1>1 DEF AttachBob, ReaderOK
<1>3. c \in Refs
  BY DEF Conns, Refs
<1> QED BY <1>2, <1>3 DEF AttachBob, CoreOK, State

LEMMA AcceptType ==
  ASSUME EndpointOK, BobTypeOK, NEW c \in Conns, Accept(c)
  PROVE  EndpointOK' /\ BobTypeOK'
<1>0. /\ CoreOK /\ ReaderOK /\ HistOK /\ link \in Links /\ "bob" \in Role /\ c \in Refs
      /\ server' \in BOOLEAN
  BY DEF EndpointOK, CoreOK, Role, Conns, Refs, Accept, BobTypeOK
<1>1. CommandOK' /\ CountOK' /\ UNCHANGED <<matched, refused, dual, resume, guard>>
  BY DEF Accept, EndpointOK, CommandOK, CountOK
<1>2. CASE /\ Leave(c) /\ AttachBob(c, "recv")
           /\ basis' = [basis EXCEPT !["bob"] = NoBasis] /\ UNCHANGED link
  <2>1. gate' \in [Role -> State] /\ conn' \in [Role -> Refs] /\ ReaderOK'
    BY <1>0, <1>2, AttachBobType
  <2>2. HistOK'
    BY <1>0, <1>1, <1>2, ValuesOK DEF HistOK
  <2>3. BobTypeOK'
    BY <1>0, <1>2, LeaveType
  <2> QED BY <1>0, <1>1, <1>2, <2>1, <2>2, <2>3 DEF EndpointOK, CoreOK
<1>3. CASE /\ cand' = [cand EXCEPT ![c] = [pc |-> "proof", id |-> resume.id]]
           /\ UNCHANGED <<gate, conn, link, reader, basis>>
  <2>1. [pc |-> "proof", id |-> resume.id] \in Cands
    BY <1>0 DEF CoreOK, Resumes, Cands
  <2>2. BobTypeOK'
    BY <1>0, <1>3, <2>1 DEF BobTypeOK, Cands
  <2> QED BY <1>0, <1>1, <1>3, <2>2 DEF EndpointOK, CoreOK, ReaderOK, HistOK
<1>4. CASE /\ Leave(c) /\ link' = Shut(link, "bob", c)
           /\ UNCHANGED <<gate, conn, reader, basis>>
  <2>1. link' \in Links
    BY <1>0, <1>4, ShutOK
  <2>2. BobTypeOK'
    BY <1>0, <1>4, LeaveType
  <2> QED BY <1>0, <1>1, <1>4, <2>1, <2>2 DEF EndpointOK, CoreOK, ReaderOK, HistOK
<1> QED BY <1>2, <1>3, <1>4, Zenon DEF Accept

LEMMA AdmitType ==
  ASSUME EndpointOK, BobTypeOK, NEW c \in Conns, Admit(c)
  PROVE  EndpointOK' /\ BobTypeOK'
<1> DEFINE m == Head(link[c].wire["bob"])
           l == Take(link, "bob", c)
<1>0. /\ CoreOK /\ ReaderOK /\ link \in Links /\ "bob" \in Role /\ c \in Refs
      /\ server' \in BOOLEAN
  BY DEF EndpointOK, CoreOK, Role, Conns, Refs, Admit, BobTypeOK
<1>1. l \in Links
  BY <1>0, TakeOK DEF Admit
<1>2. BobTypeOK'
  BY <1>0, LeaveType DEF Admit
<1>3. CommandOK' /\ CountOK' /\ HistOK' /\ UNCHANGED <<dual, guard>>
  BY DEF Admit, EndpointOK, CommandOK, CountOK, HistOK, hist
<1>4. CASE AttachBob(c, "ready") /\ Proves(c, l)
  <2>1. gate' \in [Role -> State] /\ conn' \in [Role -> Refs] /\ ReaderOK'
    BY <1>0, <1>4, AttachBobType
  <2>2. link' \in Links
    BY <1>0, <1>1, <1>4, PutOK, ValuesOK DEF Proves
  <2>3. resume' \in Resumes
    BY <1>0, <1>4 DEF Proves, CoreOK, Resumes
  <2> QED BY <1>0, <1>2, <1>3, <2>1, <2>2, <2>3 DEF EndpointOK, CoreOK
<1>5. CASE link' = Shut(l, "bob", c) /\ UNCHANGED <<gate, conn, reader, resume>>
  <2> HIDE DEF l
  <2>1. link' \in Links
    BY <1>0, <1>1, <1>5, ShutOK
  <2> QED BY <1>0, <1>2, <1>3, <1>5, <2>1 DEF EndpointOK, CoreOK, ReaderOK
<1> QED BY <1>4, <1>5, Zenon DEF Admit

LEMMA CandidateEndsType ==
  ASSUME EndpointOK, BobTypeOK, NEW c \in Conns, CandidateEnds(c)
  PROVE  EndpointOK' /\ BobTypeOK'
<1>0. link \in Links /\ "bob" \in Role /\ c \in Refs /\ server' \in BOOLEAN
  BY DEF EndpointOK, CoreOK, Role, Conns, Refs, CandidateEnds, BobTypeOK
<1>1. link' \in Links
  BY <1>0, ShutOK DEF CandidateEnds
<1>2. BobTypeOK'
  BY <1>0, LeaveType DEF CandidateEnds
<1> QED BY <1>1, <1>2 DEF CandidateEnds, EndpointOK, CoreOK, ReaderOK, CommandOK, CountOK,
           HistOK, hist

LEMMA ProofHandledType ==
  ASSUME EndpointOK, BobTypeOK, ProofHandled
  PROVE  EndpointOK' /\ BobTypeOK'
<1>1. ReaderOK'
  <2>1. CASE ReaderLoops("bob")
    BY <2>1, ReaderLoopsType DEF EndpointOK, Role
  <2>2. CASE reader' = [reader EXCEPT !["bob"] = NoReader]
    BY <2>2, ValuesOK DEF EndpointOK, ReaderOK
  <2> QED BY <2>1, <2>2 DEF ProofHandled
<1> QED BY <1>1 DEF ProofHandled, bobVars, EndpointOK, core, CoreOK, CommandOK, CountOK, HistOK,
           hist, BobTypeOK

LEMMA BobVerifyRequestType ==
  ASSUME CoreOK, ReaderOK, HistOK, NEW m \in Message, NEW l \in Links, BobVerifyRequest(m, l)
  PROVE  CoreOK' /\ ReaderOK' /\ HistOK'
<1>0. "bob" \in Role
  BY DEF Role
<1>1. CASE Refuse("bob", l)
  BY <1>0, <1>1, RefuseType
<1>2. CASE ~Refuse("bob", l)
  <2>1. /\ BeginVerification("bob", m.id, m.flag) /\ link' = l
        /\ UNCHANGED <<conn, resume, guard>> /\ UNCHANGED hist /\ ReaderLoops("bob")
    BY <1>2 DEF BobVerifyRequest
  <2>2. NewDual(m.id, m.flag) \in Dual
    BY NewDualOK DEF Message
  <2>3. dual' \in [Role -> Dual] /\ gate' \in [Role -> State]
    BY <2>1, <2>2 DEF BeginVerification, CoreOK, State
  <2>4. ReaderOK'
    BY <1>0, <2>1, ReaderLoopsType
  <2> QED BY <2>1, <2>3, <2>4 DEF CoreOK, HistOK, hist
<1> QED BY <1>1, <1>2

LEMMA ProvesType ==
  ASSUME CoreOK, NEW c \in Conns, NEW l \in Links, Proves(c, l),
         UNCHANGED <<gate, conn, dual, guard>>
  PROVE  CoreOK'
<1>1. link' \in Links
  BY PutOK, ValuesOK DEF Proves, Role
<1>2. resume' \in Resumes
  BY DEF Proves, CoreOK, Resumes
<1> QED BY <1>1, <1>2 DEF CoreOK

LEMMA BobResultType ==
  ASSUME CoreOK, ReaderOK, HistOK, NEW m \in Message, NEW l \in Links, BobResult(m, l),
         conn["bob"] \in Conns
  PROVE  CoreOK' /\ ReaderOK' /\ HistOK'
<1>0. "bob" \in Role /\ m.id \in 0 .. MaxIds /\ m.flag \in BOOLEAN /\ conn["bob"] \in Refs
  BY DEF Role, Message, CoreOK
<1>1. CASE Refuse("bob", l)
  BY <1>0, <1>1, RefuseType
<1>2. CASE /\ gate' = [gate EXCEPT !["bob"] = AfterResult(m)]
           /\ resume' = IF m.flag THEN [id |-> m.id, confirmed |-> FALSE] ELSE resume
           /\ dual' = [dual EXCEPT !["bob"] = NoDual]
           /\ link' = l
           /\ basis' = [basis EXCEPT !["bob"] =
                           [id |-> m.id, on |-> conn["bob"], recovery |-> m.flag]]
           /\ UNCHANGED <<conn, guard, matched, refused>>
           /\ ReaderLoops("bob")
  <2>1. gate' \in [Role -> State] /\ dual' \in [Role -> Dual]
    BY <1>2, ValuesOK DEF CoreOK, State, AfterResult
  <2>2. resume' \in Resumes
    BY <1>0, <1>2 DEF CoreOK, Resumes
  <2>3. HistOK'
    BY <1>0, <1>2 DEF HistOK, Bases
  <2>4. ReaderOK'
    BY <1>0, <1>2, ReaderLoopsType
  <2> QED BY <1>2, <2>1, <2>2, <2>3, <2>4 DEF CoreOK
<1>3. CASE /\ Proves(conn["bob"], l) /\ reader' = [reader EXCEPT !["bob"].pc = "ready"]
           /\ UNCHANGED <<gate, conn, dual, guard>> /\ UNCHANGED hist
  <2>1. CoreOK'
    BY <1>3, ProvesType
  <2>2. ReaderOK'
    BY <1>0, <1>3 DEF ReaderOK, Readers
  <2> QED BY <1>3, <2>1, <2>2 DEF HistOK, hist
<1> QED BY <1>1, <1>2, <1>3, Zenon DEF BobResult

(* Where Bob's reader sits: on the connection of the one chat slot, which     *)
(* exists, and nowhere while his server is down.                              *)
SeatOK ==
    /\ reader["bob"].pc # "off" => conn["bob"] \in Conns /\ reader["bob"].conn = conn["bob"]
    /\ ~server => reader["bob"].pc = "off" /\ \A c \in Conns : cand[c].pc = "none"

LEMMA BobHandleType ==
  ASSUME CoreOK, ReaderOK, HistOK, NEW m \in Message, NEW l \in Links, BobHandle(m, l),
         conn["bob"] \in Conns, m.type \notin {"none", "pong"}
  PROVE  CoreOK' /\ ReaderOK' /\ HistOK'
<1>0. "bob" \in Role /\ m.id \in 0 .. MaxIds
  BY DEF Role, Message
<1>1. CASE Refuse("bob", l)
  BY <1>0, <1>1, RefuseType
<1>2. CASE m.type = "verify_request"
  BY <1>2, BobVerifyRequestType DEF BobHandle
<1>3. CASE m.type = "verify_response"
  BY <1>0, <1>3, HandleResponseType DEF BobHandle
<1>4. CASE m.type = "verification_result"
  BY <1>4, BobResultType DEF BobHandle
<1>5. CASE m.type = "demo_mode" /\ ~Refuse("bob", l)
  <2>1. /\ gate' = [gate EXCEPT !["bob"] = "RECONNECTING"]
        /\ resume' = [id |-> m.id, confirmed |-> FALSE] /\ link' = l
        /\ UNCHANGED <<conn, dual, guard>> /\ UNCHANGED hist /\ ReaderLoops("bob")
    BY <1>5 DEF BobHandle, BobBurst
  <2>2. resume' \in Resumes /\ gate' \in [Role -> State]
    BY <1>0, <2>1 DEF Resumes, CoreOK, State
  <2>3. ReaderOK'
    BY <1>0, <2>1, ReaderLoopsType
  <2> QED BY <2>1, <2>2, <2>3 DEF CoreOK, HistOK, hist
<1>6. CASE m.type = "ping"
  <2>1. CASE ReaderRaises("bob", l) /\ UNCHANGED hist
    BY <1>0, <2>1, ReaderRaisesType DEF HistOK, hist
  <2>2. CASE /\ link' = Put(l, "bob", conn["bob"], Notice("pong"))
             /\ reader' = [reader EXCEPT !["bob"].pc = "pong"]
             /\ UNCHANGED <<gate, conn, dual, resume, guard>> /\ UNCHANGED hist
    <3>1. link' \in Links
      BY <1>0, <2>2, PutOK, ValuesOK
    <3>2. ReaderOK'
      BY <1>0, <2>2 DEF ReaderOK, Readers
    <3> QED BY <2>2, <3>1, <3>2 DEF CoreOK, HistOK, hist
  <2> QED BY <1>6, <2>1, <2>2 DEF BobHandle, BobPing
<1>7. CASE m.type = "reconnect" /\ ~Refuse("bob", l)
  <2>1. link' = l /\ UNCHANGED <<gate, conn, dual, resume, guard>> /\ UNCHANGED hist
        /\ ReaderLoops("bob")
    BY <1>7 DEF BobHandle, BobReconnect
  <2> QED BY <1>0, <2>1, ReaderLoopsType DEF CoreOK, HistOK, hist
<1>8. CASE m.type = "ready" /\ ~Refuse("bob", l)
  <2>1. /\ gate' = [gate EXCEPT !["bob"] = "ACTIVE"] /\ resume' = NoResume /\ link' = l
        /\ UNCHANGED <<conn, dual, guard>> /\ UNCHANGED hist /\ ReaderLoops("bob")
    BY <1>8 DEF BobHandle, BobReady
  <2>2. ReaderOK'
    BY <1>0, <2>1, ReaderLoopsType
  <2> QED BY <2>1, <2>2, ValuesOK DEF CoreOK, HistOK, hist, State
<1>9. CASE m.type = "shutdown"
  <2>1. Restricts("bob", l) /\ ReaderLoops("bob") /\ UNCHANGED hist
    BY <1>9 DEF BobHandle, HandleShutdown
  <2>2. CoreOK' /\ ReaderOK'
    BY <1>0, <2>1, RestrictsType, ReaderLoopsType
  <2> QED BY <2>1, <2>2 DEF HistOK, hist
<1> QED BY <1>1, <1>2, <1>3, <1>4, <1>5, <1>6, <1>7, <1>8, <1>9 DEF Message

(* Frames that Alice, or Bob, ever sends the other.                           *)
Spoken ==
    [c \in Conns |-> [r \in Role |->
        {m \in Message : r = "bob" => m.type \notin {"none", "pong"}}]]

(* The frame a reader holds while it waits for verification_lock              *)
Held(rd, S) == \A r \in Role : rd[r].pc = "lock" => rd[r].msg \in S[rd[r].conn][r]

LEMMA BobReceivesType ==
  ASSUME EndpointOK, BobTypeOK, SeatOK, Wires(link, Spoken), BobReceives
  PROVE  EndpointOK' /\ BobTypeOK'
<1> DEFINE c == reader["bob"].conn
           m == Head(link[c].wire["bob"])
           l == Take(link, "bob", c)
<1>0. "bob" \in Role /\ CoreOK /\ ReaderOK /\ HistOK
  BY DEF Role, EndpointOK
<1>1. /\ c \in Conns /\ link \in Links /\ link[c].wire["bob"] # <<>> /\ conn["bob"] \in Conns
  BY <1>0 DEF BobReceives, SeatOK, CoreOK
<1>2. m \in Message /\ l \in Links /\ m \in Spoken[c]["bob"]
  BY <1>0, <1>1, TakeOK, TakeWires
<1>3. m.type \notin {"none", "pong"}
  BY <1>0, <1>1, <1>2 DEF Spoken
<1>4. CoreOK' /\ ReaderOK' /\ HistOK'
  <2>1. CASE BobHandle(m, l)
    <3> HIDE DEF m, l
    <3> QED BY <1>0, <1>1, <1>2, <1>3, <2>1, BobHandleType
  <2>2. CASE /\ link' = l
             /\ reader' = [reader EXCEPT !["bob"].pc = "lock", !["bob"].msg = m]
             /\ UNCHANGED <<gate, conn, dual, resume, guard>> /\ UNCHANGED hist
    <3> HIDE DEF m, l
    <3>1. ReaderOK'
      BY <1>0, <1>2, <2>2, WaitsForLockType
    <3> QED BY <1>0, <1>2, <2>2, <3>1 DEF CoreOK, HistOK, hist
  <2> QED BY <2>1, <2>2, Zenon DEF BobReceives
<1> QED BY <1>4 DEF BobReceives, EndpointOK, CommandOK, CountOK, bobVars, BobTypeOK

LEMMA BobGetsLockType ==
  ASSUME EndpointOK, BobTypeOK, SeatOK, Held(reader, Spoken), BobGetsLock
  PROVE  EndpointOK' /\ BobTypeOK'
<1>0. /\ "bob" \in Role /\ CoreOK /\ ReaderOK /\ HistOK
      /\ link \in Links /\ reader["bob"].msg \in Message
      /\ conn["bob"] \in Conns /\ reader["bob"].conn = conn["bob"]
  BY DEF Role, EndpointOK, CoreOK, ReaderOK, Readers, SeatOK, BobGetsLock
<1>1. reader["bob"].msg \in Spoken[conn["bob"]]["bob"]
  BY <1>0 DEF Held, BobGetsLock
<1>2. reader["bob"].msg.type \notin {"none", "pong"}
  BY <1>0, <1>1 DEF Spoken
<1>3. CoreOK' /\ ReaderOK' /\ HistOK'
  BY <1>0, <1>2, BobHandleType DEF BobGetsLock
<1> QED BY <1>3 DEF BobGetsLock, EndpointOK, CommandOK, CountOK, bobVars, BobTypeOK

LEMMA ReservationExpiresType ==
  ASSUME EndpointOK, BobTypeOK, ReservationExpires
  PROVE  EndpointOK' /\ BobTypeOK'
<1>0. link \in Links /\ "bob" \in Role
  BY DEF EndpointOK, CoreOK, Role
<1>1. CoreOK'
  BY <1>0, RestrictsType DEF ReservationExpires, EndpointOK
<1> QED BY <1>1 DEF ReservationExpires, bobVars, BobTypeOK, EndpointOK, ReaderOK, CommandOK,
           CountOK, HistOK, hist

LEMMA BobDisconnectBeginsType ==
  ASSUME EndpointOK, BobTypeOK, BobDisconnectBegins
  PROVE  EndpointOK' /\ BobTypeOK'
<1>1. EndpointOK'
  BY SendShutdownType DEF BobDisconnectBegins, Role
<1> QED BY <1>1 DEF BobDisconnectBegins, bobVars, BobTypeOK

(* The links once the listener has cancelled every accept.                    *)
AcceptsCancelled ==
    [c \in Conns |-> IF cand[c].pc # "none" THEN Shut(link, "bob", c)[c] ELSE link[c]]

LEMMA AcceptsCancelledOK ==
  ASSUME link \in Links
  PROVE  /\ AcceptsCancelled \in Links
         /\ \A d \in Conns, q \in Role :
               /\ AcceptsCancelled[d].wire[q] \in {link[d].wire[q], <<>>}
               /\ AcceptsCancelled[d].up[q] => link[d].up[q]
<1>1. ASSUME NEW c \in Conns
      PROVE  /\ AcceptsCancelled[c] \in Ends
             /\ \A q \in Role :
               /\ AcceptsCancelled[c].wire[q] \in {link[c].wire[q], <<>>}
               /\ AcceptsCancelled[c].up[q] => link[c].up[q]
  <2>1. AcceptsCancelled[c] \in {link[c], Shut(link, "bob", c)[c]}
    BY DEF AcceptsCancelled
  <2>2. c \in Refs /\ "bob" \in Role
    BY DEF Conns, Refs, Role
  <2>3. Shut(link, "bob", c) \in Links
    BY <2>2, ShutOK
  <2>4. /\ link[c] \in Ends /\ Shut(link, "bob", c)[c] \in Ends
    BY <2>3 DEF Links
  <2>5. \A q \in Role : /\ Shut(link, "bob", c)[c].wire[q] \in {link[c].wire[q], <<>>}
                        /\ Shut(link, "bob", c)[c].up[q] => link[c].up[q]
    BY <2>2, ShutOK
  <2> QED BY <2>1, <2>4, <2>5
<1>2. AcceptsCancelled \in Links
  BY <1>1 DEF AcceptsCancelled, Links
<1> QED BY <1>1, <1>2

LEMMA BobDisconnectEndsType ==
  ASSUME EndpointOK, BobTypeOK, BobDisconnectEnds
  PROVE  EndpointOK' /\ BobTypeOK'
<1>1. link \in Links /\ "bob" \in Role
  BY DEF EndpointOK, CoreOK, Role
<1>2. DisconnectEnds("bob", AcceptsCancelled)
  BY DEF BobDisconnectEnds, AcceptsCancelled
<1>3. EndpointOK'
  BY <1>1, <1>2, AcceptsCancelledOK, DisconnectEndsType
<1>4. NoCand \in Cands
  BY EndpointAssumption DEF NoCand, Cands
<1>5. BobTypeOK'
  BY <1>4 DEF BobDisconnectEnds, BobTypeOK, Cands
<1> QED BY <1>3, <1>5

-------------------------------------------------------------------------------
(* The whole system.                                                          *)

LEMMA LinkUpOK ==
  ASSUME link \in Links, NEW c \in Conns
  PROVE  /\ LinkUp(c) \in Links
         /\ \A d \in Conns, q \in Role : LinkUp(c)[d].wire[q] = link[d].wire[q]
<1> DEFINE k == [link[c] EXCEPT !.up = [r \in Role |-> TRUE]]
<1>1. link[c] \in Ends
  BY DEF Links
<1>2. k \in Ends /\ k.wire = link[c].wire
  BY <1>1 DEF Ends
<1>3. LinkUp(c) = [link EXCEPT ![c] = k]
  BY DEF LinkUp
<1> HIDE DEF k
<1>4. /\ [link EXCEPT ![c] = k] \in Links /\ [link EXCEPT ![c] = k][c] = k
      /\ \A d \in Conns : d # c => [link EXCEPT ![c] = k][d] = link[d]
  BY <1>2, ReplaceOK
<1> QED BY <1>2, <1>3, <1>4

(* The handshake that succeeds at Bob's end only                              *)
LEMMA HalfUpOK ==
  ASSUME link \in Links, NEW c \in Conns
  PROVE  /\ [link EXCEPT ![c].up["bob"] = TRUE] \in Links
         /\ \A d \in Conns, q \in Role :
               [link EXCEPT ![c].up["bob"] = TRUE][d].wire[q] = link[d].wire[q]
<1> DEFINE k == [link[c] EXCEPT !.up = [@ EXCEPT !["bob"] = TRUE]]
<1>1. link[c] \in Ends
  BY DEF Links
<1>2. k \in Ends /\ k.wire = link[c].wire
  BY <1>1 DEF Ends
<1>3. [link EXCEPT ![c].up["bob"] = TRUE] = [link EXCEPT ![c] = k]
  OBVIOUS
<1> HIDE DEF k
<1>4. /\ [link EXCEPT ![c] = k] \in Links /\ [link EXCEPT ![c] = k][c] = k
      /\ \A d \in Conns : d # c => [link EXCEPT ![c] = k][d] = link[d]
  BY <1>2, ReplaceOK
<1> QED BY <1>2, <1>3, <1>4

LEMMA EstablishedOK ==
  ASSUME CountOK, BobTypeOK, NEW c \in Conns, Established(c)
  PROVE  conns' \in Refs /\ BobTypeOK' /\ server /\ server' = server
<1>1. [cand[c] EXCEPT !.pc = "arrived"] \in Cands
  BY DEF BobTypeOK, Cands
<1> DEFINE k == [cand[c] EXCEPT !.pc = "arrived"]
<1>2. cand' = [cand EXCEPT ![c] = k]
  BY DEF Established, Arrives
<1> HIDE DEF k
<1>3. BobTypeOK'
  BY <1>1, <1>2 DEF k, BobTypeOK, Cands, Established, Arrives
<1> QED BY <1>3 DEF Established, Arrives, Conns, Refs

(* Every step of the system keeps the types.                                  *)
LEMMA MeasureStepType ==
  ASSUME EndpointOK, AliceOK, MeasureStep
  PROVE  EndpointOK' /\ AliceOK'
BY GuardFailedType, LoopHeadType, HeartbeatType, PingSentType, HeartbeatStopsType,
   ConcludeType, AssessKeepsType, AssessRotatesType, AssessVerifiesType, RequestSentType,
   BothDecidedType, RespondTimesOutType, ResultSentType, NoticeSentType, Zenon DEF MeasureStep

LEMMA RecoveryStepType ==
  ASSUME EndpointOK, AliceOK, NEW t \in Tasks, RecoveryStep(t)
  PROVE  EndpointOK' /\ AliceOK'
BY RecoverBeginsType, ProofSentType, RecoveredType, ResumedType, Zenon DEF RecoveryStep

LEMMA RedialledType ==
  ASSUME TypeOK, NEW t \in Tasks, Redialled(t)
  PROVE  TypeOK'
<1> USE TypeParts
<1>1. PICK c \in Conns : Established(c) /\ Reconnected(t, c, LinkUp(c))
  BY DEF Redialled
<1>2. EndpointOK /\ AliceOK /\ BobTypeOK /\ BoundOK /\ CountOK /\ link \in Links
  BY DEF EndpointOK, CoreOK
<1>3. BobTypeOK' /\ conns' \in Refs
  BY <1>1, <1>2, EstablishedOK
<1>4. EndpointOK' /\ AliceOK'
  BY <1>1, <1>2, <1>3, LinkUpOK, ReconnectedType
<1>5. BoundOK'
  BY <1>2 DEF Redialled, bounds, BoundOK
<1> QED BY <1>3, <1>4, <1>5

LEMMA RedialFailsType ==
  ASSUME TypeOK, NEW t \in Tasks, RedialFails(t)
  PROVE  TypeOK'
<1> USE TypeParts
<1>2. EndpointOK /\ AliceOK /\ BobTypeOK /\ BoundOK /\ CountOK /\ link \in Links
  BY DEF EndpointOK, CoreOK
<1>3. BoundOK'
  BY <1>2 DEF RedialFails, bounds, BoundOK
<1>4. CASE EstablishFails(t, link) /\ UNCHANGED <<conns, bobVars>>
  <2>1. conns' \in Refs
    BY <1>2, <1>4 DEF CountOK
  <2>2. EndpointOK' /\ AliceOK'
    BY <1>2, <1>4, <2>1, EstablishFailsType
  <2>3. BobTypeOK'
    BY <1>2, <1>4 DEF bobVars, BobTypeOK
  <2> QED BY <1>3, <2>2, <2>3
<1>5. ASSUME NEW c \in Conns, Established(c),
             EstablishFails(t, [link EXCEPT ![c].up["bob"] = TRUE])
      PROVE  TypeOK'
  <2>1. BobTypeOK' /\ conns' \in Refs
    BY <1>2, <1>5, EstablishedOK
  <2>2. EndpointOK' /\ AliceOK'
    BY <1>2, <1>5, <2>1, HalfUpOK, EstablishFailsType
  <2> QED BY <1>3, <2>1, <2>2
<1> QED BY <1>4, <1>5 DEF RedialFails

LEMMA CountSessionType ==
  ASSUME BoundOK, NEW r \in Role, sessions[r] < MaxSessions, CountSession(r)
  PROVE  BoundOK'
<1>1. sessions[r] + 1 \in 0 .. MaxSessions
  BY SessionAssumption DEF BoundOK
<1> QED BY <1>1 DEF BoundOK, CountSession

LEMMA DialledType ==
  ASSUME TypeOK, Dialled, sessions["alice"] < MaxSessions
  PROVE  TypeOK'
<1> USE TypeParts
<1>1. PICK c \in Conns : Established(c) /\ Connected(c) /\ link' = LinkUp(c)
  BY DEF Dialled
<1>2. EndpointOK /\ AliceOK /\ BobTypeOK /\ BoundOK /\ CountOK /\ link \in Links
  BY DEF EndpointOK, CoreOK
<1>3. BobTypeOK' /\ conns' \in Refs
  BY <1>1, <1>2, EstablishedOK
<1>4. link' \in Links
  BY <1>1, <1>2, LinkUpOK
<1>5. EndpointOK' /\ AliceOK'
  BY <1>1, <1>2, <1>3, <1>4, ConnectedType
<1>6. BoundOK'
  BY <1>2, CountSessionType DEF Dialled, Role
<1> QED BY <1>3, <1>5, <1>6

-------------------------------------------------------------------------------
(* What a step writes.  Speech(S): S allows every frame this step may send.   *)
Speech(S) ==
    /\ \A c \in Conns :
          /\ {Notice("ping"), Notice("ready"), Notice("reconnect"), Notice("shutdown")}
                \subseteq S[c]["bob"]
          /\ {Notice("pong"), Notice("ready"), Notice("shutdown")} \subseteq S[c]["alice"]
    /\ conn'["alice"] \in Conns =>
          LET towards == S[conn'["alice"]]["bob"] IN
          /\ ids' = ids + 1 => \A recovery \in BOOLEAN :
                Msg("verify_request", ids + 1, recovery) \in towards
          /\ ids' = ids + 1 /\ task["burst"] # "off" =>
                Msg("demo_mode", ids + 1, FALSE) \in towards
          /\ task["measure"] = "ready" /\ dual["alice"].ready = "yes" =>
                Msg("verification_result", asked.id, asked.recovery) \in towards
          /\ (\E t \in Tasks : task[t] = "establish") =>
                Msg("verification_result", approved, TRUE) \in towards
    /\ \A r \in Role : \A id \in Ids, match \in BOOLEAN :
          conn[r] \in Conns /\ (match => id \in matched'[r]) =>
             Msg("verify_response", id, match) \in S[conn[r]][Peer(r)]

LEMMA RestrictsWires ==
  ASSUME CoreOK, NEW r \in Role, NEW l \in Links, Restricts(r, l), NEW S, Wires(l, S)
  PROVE  Wires(link', S)
<1>1. conn[r] \in Refs
  BY DEF CoreOK
<1> QED BY <1>1, ShutWires DEF Restricts

LEMMA RaisesWires ==
  ASSUME CoreOK, NEW t \in Tasks, NEW l \in Links, Raises(t, l), NEW S, Wires(l, S)
  PROVE  Wires(link', S)
<1>1. "alice" \in Role /\ conn["alice"] \in Refs
  BY DEF CoreOK, Role
<1>2. CASE Restricts("alice", l)
  BY <1>1, <1>2, RestrictsWires
<1>3. CASE link' = Shut(l, "alice", conn["alice"])
  BY <1>1, <1>3, ShutWires
<1> QED BY <1>2, <1>3 DEF Raises

LEMMA ReaderRaisesWires ==
  ASSUME CoreOK, ReaderOK, NEW r \in Role, NEW l \in Links, ReaderRaises(r, l),
         NEW S, Wires(l, S)
  PROVE  Wires(link', S)
<1>1. reader[r].conn \in Refs
  BY DEF ReaderOK, Readers
<1>2. CASE Restricts(r, l)
  BY <1>2, RestrictsWires
<1>3. CASE link' = Shut(l, r, reader[r].conn) \/ link' = l
  BY <1>1, <1>3, ShutWires
<1> QED BY <1>2, <1>3 DEF ReaderRaises

LEMMA HandleResponseWires ==
  ASSUME CoreOK, ReaderOK, NEW r \in Role, NEW m, NEW l \in Links, HandleResponse(r, m, l),
         NEW S, Wires(l, S)
  PROVE  Wires(link', S)
<1>1. CASE ReaderRaises(r, l)
  BY <1>1, ReaderRaisesWires
<1>2. CASE Restricts(r, l)
  BY <1>2, RestrictsWires
<1>3. CASE link' = l
  BY <1>3
<1> QED BY <1>1, <1>2, <1>3 DEF HandleResponse, Refuse

LEMMA SendsWires ==
  ASSUME NEW t \in Tasks, NEW pc, NEW m \in Message, NEW l \in Links, Sends(t, pc, m, l),
         conn'["alice"] \in Conns, NEW S, Wires(l, S), m \in S[conn'["alice"]]["bob"]
  PROVE  Wires(link', S)
<1>1. "alice" \in Role /\ Peer("alice") = "bob"
  BY DEF Role, Peer
<1> QED BY <1>1, PutWires DEF Sends

(* A notice on Alice's usable connection                                      *)
LEMMA SendsHereWires ==
  ASSUME CoreOK, NEW t \in Tasks, NEW pc, NEW m \in Message, CanControl("alice"),
         conn' = conn, Sends(t, pc, m, link), NEW S, Wires(link, S),
         m \in S[conn["alice"]]["bob"]
  PROVE  Wires(link', S)
<1>1. conn'["alice"] \in Conns /\ link \in Links
  BY ControlOK DEF Role, CoreOK
<1> QED BY <1>1, SendsWires

LEMMA ConcludesWires ==
  ASSUME CoreOK, NEW S, Wires(link, S), Speech(S), Concludes
  PROVE  Wires(link', S)
<1>0. /\ "measure" \in Tasks /\ Notice("ready") \in Message /\ link \in Links
      /\ "alice" \in Role
  BY ValuesOK DEF Tasks, CoreOK, Role
<1>1. CASE link' = link
  BY <1>1
<1>2. CASE /\ CanControl("alice") /\ conn' = conn
           /\ Sends("measure", "resume", Notice("ready"), link)
  <2>1. conn["alice"] \in Conns
    BY <1>0, <1>2, ControlOK
  <2>2. Notice("ready") \in S[conn["alice"]]["bob"]
    BY <2>1 DEF Speech
  <2> QED BY <1>0, <1>2, <2>2, SendsHereWires
<1>3. CASE Restricts("alice", link)
  BY <1>0, <1>3, RestrictsWires
<1> QED BY <1>1, <1>2, <1>3 DEF Concludes

LEMMA MeasureStepWires ==
  ASSUME EndpointOK, AliceOK, NEW S, Wires(link, S), Speech(S), MeasureStep
  PROVE  Wires(link', S)
<1>0. /\ "measure" \in Tasks /\ link \in Links /\ "alice" \in Role /\ CoreOK /\ TaskOK
      /\ conn["alice"] \in Refs /\ ids \in 0 .. MaxIds
      /\ Notice("ping") \in Message /\ Notice("reconnect") \in Message
      /\ asked.id \in 0 .. MaxIds /\ asked.recovery \in BOOLEAN
  BY ValuesOK DEF Tasks, EndpointOK, AliceOK, CoreOK, TaskOK, Role, CountOK
<1>1. CASE Raises("measure", link)
  BY <1>0, <1>1, RaisesWires
<1>2. CASE link' = link
  BY <1>2
<1>3. CASE GuardFailed
  BY <1>0, <1>3, RestrictsWires DEF GuardFailed
<1>4. CASE LoopHead
  BY <1>4, <1>2 DEF LoopHead, core
<1>5. CASE Heartbeat
  <2>1. CASE /\ CanControl("alice") /\ conn' = conn
             /\ Sends("measure", "ping", Notice("ping"), link)
    <3>1. Notice("ping") \in S[conn["alice"]]["bob"]
      BY <1>0, <2>1, ControlOK DEF Speech
    <3> QED BY <1>0, <2>1, <3>1, SendsHereWires
  <2> QED BY <1>1, <1>2, <1>5, <2>1 DEF Heartbeat, core
<1>6. CASE PingSent
  BY <1>1, <1>2, <1>6 DEF PingSent, core
<1>7. CASE HeartbeatStops
  BY <1>1, <1>7 DEF HeartbeatStops
<1>8. CASE Conclude \/ AssessKeeps
  BY <1>0, <1>8, ConcludesWires DEF Conclude, AssessKeeps
<1>9. CASE AssessRotates
  BY <1>1, <1>9 DEF AssessRotates
<1>10. CASE AssessVerifies
  <2> DEFINE recovery == guard = "verified"
  <2>1. CASE ~Raises("measure", link)
    <3>1. /\ ids < MaxIds /\ ids' = ids + 1 /\ conn' = conn /\ Up("alice", conn["alice"])
          /\ Sends("measure", "request", Msg("verify_request", ids + 1, recovery), link)
      BY <1>10, <2>1, Zenon DEF AssessVerifies
    <3>2. conn["alice"] \in Conns /\ recovery \in BOOLEAN
      BY <1>0, <3>1, EndpointAssumption DEF Up, Refs, Conns
    <3>3. ids + 1 \in 0 .. MaxIds
      BY <1>0, <3>1, EndpointAssumption
    <3> HIDE DEF recovery
    <3>4. Msg("verify_request", ids + 1, recovery) \in Message
      BY <3>2, <3>3, ValuesOK
    <3>5. Msg("verify_request", ids + 1, recovery) \in S[conn'["alice"]]["bob"]
      BY <3>1, <3>2 DEF Speech
    <3> QED BY <1>0, <3>1, <3>2, <3>4, <3>5, SendsWires
  <2> QED BY <1>1, <2>1
<1>11. CASE RequestSent
  BY <1>1, <1>2, <1>11 DEF RequestSent, core
<1>12. CASE BothDecided
  <2>1. CASE ~Raises("measure", link)
    <3>1. /\ dual["alice"].ready = "yes" /\ task["measure"] = "ready" /\ CanControl("alice")
          /\ conn' = conn
          /\ Sends("measure", "result", Msg("verification_result", asked.id, asked.recovery), link)
      BY <1>12, <2>1, Zenon DEF BothDecided
    <3>2. conn["alice"] \in Conns
      BY <1>0, <3>1, ControlOK
    <3>3. Msg("verification_result", asked.id, asked.recovery) \in S[conn["alice"]]["bob"]
      BY <3>1, <3>2 DEF Speech
    <3>4. Msg("verification_result", asked.id, asked.recovery) \in Message
      BY <1>0, ValuesOK
    <3> QED BY <1>0, <3>1, <3>3, <3>4, SendsHereWires
  <2> QED BY <1>1, <2>1
<1>13. CASE RespondTimesOut
  BY <1>1, <1>13 DEF RespondTimesOut
<1>14. CASE ResultSent
  <2>1. CASE /\ CanControl("alice") /\ conn' = conn
             /\ Sends("measure", "notice", Notice("reconnect"), link)
    <3>1. Notice("reconnect") \in S[conn["alice"]]["bob"]
      BY <1>0, <2>1, ControlOK DEF Speech
    <3> QED BY <1>0, <2>1, <3>1, SendsHereWires
  <2> QED BY <1>1, <1>2, <1>14, <2>1 DEF ResultSent
<1>15. CASE NoticeSent
  BY <1>0, <1>1, <1>15, ShutWires DEF NoticeSent
<1> QED BY <1>3, <1>4, <1>5, <1>6, <1>7, <1>8, <1>9, <1>10, <1>11, <1>12, <1>13, <1>14, <1>15
        DEF MeasureStep

LEMMA RecoveryStepWires ==
  ASSUME EndpointOK, AliceOK, NEW S, Wires(link, S), Speech(S), NEW t \in Tasks, RecoveryStep(t)
  PROVE  Wires(link', S)
<1>0. /\ link \in Links /\ "alice" \in Role /\ CoreOK /\ Notice("ready") \in Message
  BY ValuesOK DEF EndpointOK, CoreOK, Role
<1>1. CASE Raises(t, link)
  BY <1>0, <1>1, RaisesWires
<1>2. CASE link' = link
  BY <1>2
<1>3. CASE RecoverBegins(t)
  BY <1>1, <1>2, <1>3 DEF RecoverBegins, core
<1>4. CASE ProofSent(t)
  BY <1>1, <1>2, <1>4 DEF ProofSent, core
<1>5. CASE Recovered(t)
  <2>1. CASE CanControl("alice") /\ conn' = conn /\ Sends(t, "resume", Notice("ready"), link)
    <3>1. Notice("ready") \in S[conn["alice"]]["bob"]
      BY <1>0, <2>1, ControlOK DEF Speech
    <3> QED BY <1>0, <2>1, <3>1, SendsHereWires
  <2> QED BY <1>1, <1>2, <1>5, <2>1 DEF Recovered, core
<1>6. CASE Resumed(t)
  BY <1>1, <1>2, <1>6 DEF Resumed
<1> QED BY <1>3, <1>4, <1>5, <1>6 DEF RecoveryStep

LEMMA BurstStepWires ==
  ASSUME EndpointOK, AliceOK, NEW S, Wires(link, S), Speech(S), BurstStep
  PROVE  Wires(link', S)
<1>0. /\ "burst" \in Tasks /\ link \in Links /\ "alice" \in Role /\ CoreOK
      /\ conn["alice"] \in Refs /\ ids \in 0 .. MaxIds
  BY DEF Tasks, EndpointOK, CoreOK, Role, CountOK
<1>1. CASE Raises("burst", link)
  BY <1>0, <1>1, RaisesWires
<1>2. CASE link' = link
  BY <1>2
<1>3. CASE BurstNext
  <2>1. CASE ~(Raises("burst", link) \/ link' = link)
    <3>1. /\ ids < MaxIds /\ ids' = ids + 1 /\ CanControl("alice") /\ conn' = conn
          /\ Sends("burst", "demo", Msg("demo_mode", ids + 1, FALSE), link)
      BY <1>3, <2>1 DEF BurstNext, core
    <3>2. conn["alice"] \in Conns /\ task["burst"] # "off"
      BY <1>0, <1>3, <3>1, ControlOK DEF BurstNext
    <3>3. ids + 1 \in 0 .. MaxIds
      BY <1>0, <3>1, EndpointAssumption
    <3>4. Msg("demo_mode", ids + 1, FALSE) \in Message
      BY <3>3, ValuesOK
    <3>5. Msg("demo_mode", ids + 1, FALSE) \in S[conn["alice"]]["bob"]
      BY <3>1, <3>2 DEF Speech
    <3> QED BY <1>0, <3>1, <3>4, <3>5, SendsHereWires
  <2> QED BY <1>1, <1>2, <2>1
<1>4. CASE BurstReconnects
  BY <1>0, <1>1, <1>4, ShutWires DEF BurstReconnects
<1> QED BY <1>3, <1>4 DEF BurstStep

LEMMA RedialledWires ==
  ASSUME EndpointOK, AliceOK, NEW S, Wires(link, S), Speech(S), NEW t \in Tasks, Redialled(t)
  PROVE  Wires(link', S)
<1>0. link \in Links /\ CoreOK /\ approved \in 0 .. MaxIds
  BY DEF EndpointOK, CoreOK, AliceOK, RetryOK
<1>1. PICK c \in Conns : Reconnected(t, c, LinkUp(c))
  BY DEF Redialled
<1>2. LinkUp(c) \in Links /\ Wires(LinkUp(c), S)
  BY <1>0, LinkUpOK DEF Wires
<1>3. CASE Raises(t, LinkUp(c))
  BY <1>0, <1>2, <1>3, RaisesWires
<1>4. CASE /\ conn' = [conn EXCEPT !["alice"] = c]
           /\ Sends(t, "proof", Msg("verification_result", approved, TRUE), LinkUp(c))
  <2>1. conn'["alice"] = c /\ task[t] = "establish"
    BY <1>0, <1>1, <1>4 DEF Reconnected, CoreOK, Role
  <2>2. Msg("verification_result", approved, TRUE) \in S[c]["bob"]
    BY <2>1 DEF Speech
  <2>3. Msg("verification_result", approved, TRUE) \in Message
    BY <1>0, ValuesOK
  <2> QED BY <1>2, <1>4, <2>1, <2>2, <2>3, SendsWires
<1> QED BY <1>1, <1>3, <1>4, Zenon DEF Reconnected

LEMMA RedialFailsWires ==
  ASSUME EndpointOK, NEW S, Wires(link, S), NEW t \in Tasks, RedialFails(t)
  PROVE  Wires(link', S)
<1>0. link \in Links /\ CoreOK
  BY DEF EndpointOK, CoreOK
<1>1. ASSUME NEW l \in Links, Wires(l, S), EstablishFails(t, l)
      PROVE  Wires(link', S)
  <2>1. CASE Raises(t, l)
    BY <1>0, <1>1, <2>1, RaisesWires
  <2>2. CASE link' = l
    BY <1>1, <2>2
  <2> QED BY <1>1, <2>1, <2>2, Zenon DEF EstablishFails
<1>2. CASE EstablishFails(t, link)
  BY <1>0, <1>1, <1>2
<1>3. ASSUME NEW c \in Conns, EstablishFails(t, [link EXCEPT ![c].up["bob"] = TRUE])
      PROVE  Wires(link', S)
  <2>1. /\ [link EXCEPT ![c].up["bob"] = TRUE] \in Links
        /\ Wires([link EXCEPT ![c].up["bob"] = TRUE], S)
    BY <1>0, HalfUpOK DEF Wires
  <2> QED BY <1>1, <1>3, <2>1
<1> QED BY <1>2, <1>3 DEF RedialFails

LEMMA AliceHandleWires ==
  ASSUME CoreOK, ReaderOK, NEW m, NEW l \in Links, AliceHandle(m, l), NEW S, Wires(l, S)
  PROVE  Wires(link', S)
<1>0. "alice" \in Role
  BY DEF Role
<1>1. CASE HandleResponse("alice", m, l)
  BY <1>0, <1>1, HandleResponseWires
<1>2. CASE Restricts("alice", l)
  BY <1>0, <1>2, RestrictsWires
<1>3. CASE ReaderRaises("alice", l)
  BY <1>0, <1>3, ReaderRaisesWires
<1>4. CASE link' = l
  BY <1>4
<1> QED
  <2>1. CASE m.type = "ready" /\ recovered = "waiting"
    BY <1>4, <2>1 DEF AliceHandle
  <2>2. CASE m.type = "pong" /\ ping = "sent"
    BY <1>4, <2>2 DEF AliceHandle
  <2>3. CASE m.type = "verify_response"
    BY <1>1, <2>3 DEF AliceHandle
  <2>4. CASE m.type = "shutdown"
    BY <1>2, <2>4 DEF AliceHandle, HandleShutdown
  <2>5. CASE /\ ~(m.type = "ready" /\ recovered = "waiting")
             /\ ~(m.type = "pong" /\ ping = "sent")
             /\ m.type # "verify_response" /\ m.type # "shutdown"
    <3>1. Refuse("alice", l)
      BY <2>5, Zenon DEF AliceHandle
    <3> QED BY <1>3, <3>1 DEF Refuse
  <2> QED BY <2>1, <2>2, <2>3, <2>4, <2>5

LEMMA ProvesWires ==
  ASSUME NEW c \in Conns, NEW l \in Links, Proves(c, l), NEW S, Wires(l, S),
         Notice("ready") \in S[c]["alice"]
  PROVE  Wires(link', S)
<1>1. "bob" \in Role /\ Peer("bob") = "alice" /\ Notice("ready") \in Message
  BY ValuesOK DEF Role, Peer
<1> QED BY <1>1, PutWires DEF Proves

LEMMA BobHandleWires ==
  ASSUME CoreOK, ReaderOK, NEW m \in Message, NEW l \in Links, BobHandle(m, l),
         conn["bob"] \in Conns, m.type \notin {"none", "pong"},
         NEW S, Wires(l, S), Speech(S)
  PROVE  Wires(link', S)
<1>0. /\ "bob" \in Role /\ Peer("bob") = "alice" /\ Notice("pong") \in Message
      /\ {Notice("pong"), Notice("ready")} \subseteq S[conn["bob"]]["alice"]
  BY ValuesOK DEF Role, Peer, Speech
<1>1. CASE HandleResponse("bob", m, l)
  BY <1>0, <1>1, HandleResponseWires
<1>2. CASE Restricts("bob", l)
  BY <1>0, <1>2, RestrictsWires
<1>3. CASE ReaderRaises("bob", l)
  BY <1>0, <1>3, ReaderRaisesWires
<1>4. CASE link' = l
  BY <1>4
<1>5. CASE Proves(conn["bob"], l)
  BY <1>0, <1>5, ProvesWires
<1>6. CASE link' = Put(l, "bob", conn["bob"], Notice("pong"))
  BY <1>0, <1>6, PutWires
<1> QED
  <2>1. CASE m.type = "verify_request"
    BY <1>3, <1>4, <2>1 DEF BobHandle, BobVerifyRequest, Refuse
  <2>2. CASE m.type = "verify_response"
    BY <1>1, <2>2 DEF BobHandle
  <2>3. CASE m.type = "verification_result"
    BY <1>3, <1>4, <1>5, <2>3 DEF BobHandle, BobResult, Refuse
  <2>4. CASE m.type = "demo_mode"
    BY <1>3, <1>4, <2>4 DEF BobHandle, BobBurst, Refuse
  <2>5. CASE m.type = "ping"
    BY <1>3, <1>6, <2>5 DEF BobHandle, BobPing
  <2>6. CASE m.type = "reconnect"
    BY <1>3, <1>4, <2>6 DEF BobHandle, BobReconnect, Refuse
  <2>7. CASE m.type = "ready"
    BY <1>3, <1>4, <2>7 DEF BobHandle, BobReady, Refuse
  <2>8. CASE m.type = "shutdown"
    BY <1>2, <2>8 DEF BobHandle, HandleShutdown
  <2> QED BY <2>1, <2>2, <2>3, <2>4, <2>5, <2>6, <2>7, <2>8 DEF Message

LEMMA ReadsWires ==
  ASSUME TypeOK, SeatOK, Wires(link, Spoken), Held(reader, Spoken), NEW S, Wires(link, S), Speech(S),
         NEW r \in Role, Reads(r)
  PROVE  Wires(link', S)
<1> DEFINE c == reader[r].conn
           m == Head(link[c].wire[r])
           l == Take(link, r, c)
<1>0. /\ EndpointOK /\ CoreOK /\ ReaderOK /\ link \in Links /\ c \in Refs
      /\ reader[r].msg \in Message
  BY TypeParts DEF EndpointOK, CoreOK, ReaderOK, Readers
<1>1. CASE AliceReceives /\ r = "alice"
  <2>1. c \in Conns /\ link[c].wire[r] # <<>>
    BY <1>0, <1>1, EndpointAssumption DEF AliceReceives, Up, Refs, Conns
  <2>2. l \in Links /\ Wires(l, S)
    BY <1>0, <2>1, TakeOK, TakeWires
  <2>3. AliceHandle(m, l) \/ link' = l
    BY <1>1, Zenon DEF AliceReceives
  <2> HIDE DEF m, l
  <2> QED BY <1>0, <2>2, <2>3, AliceHandleWires
<1>2. CASE AliceGetsLock
  BY <1>0, <1>2, AliceHandleWires DEF AliceGetsLock
<1>3. CASE BobReceives /\ r = "bob"
  <2>1. c \in Conns /\ link[c].wire[r] # <<>> /\ conn["bob"] \in Conns
    BY <1>0, <1>3, EndpointAssumption DEF BobReceives, Up, Refs, Conns, SeatOK
  <2>2. l \in Links /\ Wires(l, S) /\ m \in Message /\ m \in Spoken[c][r]
    BY <1>0, <2>1, TakeOK, TakeWires
  <2>3. m.type \notin {"none", "pong"}
    BY <1>3, <2>1, <2>2 DEF Spoken, Role
  <2>4. BobHandle(m, l) \/ link' = l
    BY <1>3, Zenon DEF BobReceives
  <2> HIDE DEF m, l
  <2> QED BY <1>0, <2>1, <2>2, <2>3, <2>4, BobHandleWires
<1>4. CASE BobGetsLock
  <2>0. "bob" \in Role
    BY DEF Role
  <2>1. conn["bob"] \in Conns /\ reader["bob"].conn = conn["bob"] /\ reader["bob"].msg \in Message
    BY <1>0, <1>4, <2>0 DEF BobGetsLock, SeatOK, ReaderOK, Readers
  <2>2. reader["bob"].msg.type \notin {"none", "pong"}
    BY <1>4, <2>0, <2>1 DEF BobGetsLock, Held, Spoken
  <2> QED BY <1>0, <1>4, <2>1, <2>2, BobHandleWires DEF BobGetsLock
<1>5. CASE ReaderRaises(r, link)
  BY <1>0, <1>5, ReaderRaisesWires
<1>6. CASE link' = link
  BY <1>6
<1>7. CASE EndOfStream(r)
  BY <1>0, <1>7, ShutWires DEF EndOfStream, LinkFails
<1> QED BY <1>1, <1>2, <1>3, <1>4, <1>5, <1>6, <1>7
        DEF Reads, AliceReads, BobReads, ProofHandled, ReaderSeesClose, ReaderSent, core

LEMMA AdmissionWires ==
  ASSUME EndpointOK, NEW S, Wires(link, S), Speech(S), NEW c \in Conns, Admits(c)
  PROVE  Wires(link', S)
<1>0. link \in Links /\ c \in Refs /\ "bob" \in Role /\ Notice("ready") \in S[c]["alice"]
  BY DEF EndpointOK, CoreOK, Conns, Refs, Role, Speech
<1>1. CASE Accept(c)
  BY <1>0, <1>1, ShutWires DEF Accept
<1>2. CASE Admit(c)
  <2> DEFINE m == Head(link[c].wire["bob"])
             l == Take(link, "bob", c)
  <2>1. l \in Links /\ Wires(l, S)
    BY <1>0, <1>2, TakeOK, TakeWires DEF Admit
  <2>2. Proves(c, l) \/ link' = Shut(l, "bob", c)
    BY <1>2, Zenon DEF Admit
  <2> HIDE DEF m, l
  <2>3. CASE Proves(c, l)
    BY <1>0, <2>1, <2>3, ProvesWires
  <2>4. CASE link' = Shut(l, "bob", c)
    BY <1>0, <2>1, <2>4, ShutWires
  <2> QED BY <2>2, <2>3, <2>4
<1>3. CASE CandidateEnds(c)
  BY <1>0, <1>3, ShutWires DEF CandidateEnds
<1> QED BY <1>1, <1>2, <1>3 DEF Admits

LEMMA ConfirmWires ==
  ASSUME EndpointOK, NEW S, Wires(link, S), Speech(S), NEW r \in Role, NEW id \in 1 .. ids,
         NEW match \in BOOLEAN, Confirm(r, id, match)
  PROVE  Wires(link', S)
<1>0. CoreOK /\ HistOK /\ link \in Links /\ id \in Ids /\ id \in 0 .. MaxIds
  BY EndpointAssumption DEF EndpointOK, CoreOK, CountOK, Ids
<1>1. CASE Restricts(r, link)
  BY <1>0, <1>1, RestrictsWires
<1>2. CASE /\ CanControl(r)
           /\ link' = Put(link, r, conn[r], Msg("verify_response", id, match))
           /\ matched' = IF match THEN [matched EXCEPT ![r] = @ \cup {id}] ELSE matched
  <2>1. conn[r] \in Conns
    BY <1>0, <1>2, ControlOK
  <2>2. match => id \in matched'[r]
    BY <1>0, <1>2 DEF HistOK
  <2>3. Msg("verify_response", id, match) \in S[conn[r]][Peer(r)]
    BY <1>0, <2>1, <2>2 DEF Speech
  <2>4. Msg("verify_response", id, match) \in Message
    BY <1>0, ValuesOK
  <2> QED BY <1>0, <1>2, <2>1, <2>3, <2>4, PutWires
<1> QED BY <1>1, <1>2, Zenon DEF Confirm

LEMMA SendShutdownWires ==
  ASSUME EndpointOK, NEW S, Wires(link, S), Speech(S), NEW r \in Role, SendShutdown(r)
  PROVE  Wires(link', S)
<1>0. CoreOK /\ link \in Links /\ Notice("shutdown") \in Message
  BY ValuesOK DEF EndpointOK, CoreOK
<1>1. CASE link' = link
  BY <1>1
<1>2. CASE CanControl(r) /\ link' = Put(link, r, conn[r], Notice("shutdown"))
  <2>1. conn[r] \in Conns
    BY <1>0, <1>2, ControlOK
  <2>2. Notice("shutdown") \in S[conn[r]][Peer(r)]
    BY <2>1 DEF Speech, Role, Peer
  <2> QED BY <1>0, <1>2, <2>1, <2>2, PutWires
<1> QED BY <1>1, <1>2 DEF SendShutdown

LEMMA CommandStepWires ==
  ASSUME EndpointOK, NEW S, Wires(link, S), Speech(S), NEW r \in Role,
         CommandStep(r) \/ TabCloses(r) \/ Timeouts(r)
  PROVE  Wires(link', S)
<1>0. /\ CoreOK /\ link \in Links /\ conn[r] \in Refs /\ cmd[r].conn \in Refs
      /\ "alice" \in Role /\ "bob" \in Role
  BY DEF EndpointOK, CoreOK, CommandOK, Commands, Role
<1>1. CASE link' = link
  BY <1>1
<1>2. CASE Restricts(r, link)
  BY <1>0, <1>2, RestrictsWires
<1>3. CASE link' = Shut(link, r, conn[r]) \/ link' = Shut(link, r, cmd[r].conn)
  BY <1>0, <1>3, ShutWires
<1>4. CASE Decide(r)
  BY <1>1, <1>2, <1>4 DEF Decide, core
<1>5. CASE AliceStops
  BY <1>0, <1>5, SendShutdownWires DEF AliceStops
<1>6. CASE AliceDisconnectEnds /\ r = "alice"
  BY <1>3, <1>6 DEF AliceDisconnectEnds, DisconnectEnds
<1>7. CASE BobDisconnectEnds /\ r = "bob"
  <2>1. link' = Shut(AcceptsCancelled, "bob", conn["bob"])
    BY <1>7 DEF BobDisconnectEnds, DisconnectEnds, AcceptsCancelled
  <2>2. AcceptsCancelled \in Links
    BY <1>0, AcceptsCancelledOK
  <2>3. Wires(AcceptsCancelled, S)
    <3> SUFFICES ASSUME NEW d \in Conns, NEW q \in Role
                 PROVE  AcceptsCancelled[d].wire[q] \in Seq(S[d][q])
      BY DEF Wires
    <3>1. AcceptsCancelled[d].wire[q] \in {link[d].wire[q], <<>>}
      BY <1>0, AcceptsCancelledOK
    <3>2. link[d].wire[q] \in Seq(S[d][q]) /\ <<>> \in Seq(S[d][q])
      BY DEF Wires
    <3> QED BY <3>1, <3>2
  <2> QED BY <1>0, <1>7, <2>1, <2>2, <2>3, ShutWires
<1>8. CASE ConfirmAbandoned(r) \/ DisconnectAbandoned(r)
  BY <1>3, <1>8 DEF ConfirmAbandoned, DisconnectAbandoned
<1>9. CASE StopAbandoned
  BY <1>1, <1>9 DEF StopAbandoned, core
<1>10. CASE VerificationEnds(r)
  BY <1>2, <1>10 DEF VerificationEnds
<1>11. CASE r = "bob" /\ ReservationExpires
  BY <1>2, <1>11 DEF ReservationExpires
<1> QED BY <1>4, <1>5, <1>6, <1>7, <1>8, <1>9, <1>10, <1>11
        DEF CommandStep, TabCloses, Timeouts

(* Every step keeps the wires, if the frames it sends are allowed.            *)
LEMMA NextWires ==
  ASSUME TypeOK, SeatOK, Wires(link, Spoken), Held(reader, Spoken), NEW S, Wires(link, S), Speech(S),
         [Next]_vars
  PROVE  Wires(link', S)
<1>0. /\ EndpointOK /\ AliceOK /\ CoreOK /\ link \in Links /\ "alice" \in Role /\ "bob" \in Role
      /\ "measure" \in Tasks /\ "burst" \in Tasks /\ conn["alice"] \in Refs
      /\ \A r \in Role : conn[r] \in Refs
  BY TypeParts DEF EndpointOK, CoreOK, Role, Tasks
<1>1. CASE link' = link
  BY <1>1
<1>2. CASE Connects \/ Listens \/ Bursts
  BY <1>1, <1>2 DEF Connects, Listens, Bursts, Connect, StartServer, StartBurst, endpointVars, core
<1>3. CASE Dialled
  BY <1>0, <1>3, LinkUpOK DEF Dialled, Wires
<1>4. CASE DialFails
  BY <1>0, <1>1, <1>4, RestrictsWires DEF DialFails, ConnectFails, ConnectAbandoned, core
<1>5. CASE Measures
  BY <1>0, <1>5, MeasureStepWires, RecoveryStepWires, RedialledWires, RedialFailsWires
     DEF Measures
<1>6. CASE Replaces
  BY <1>0, <1>6, BurstStepWires, RecoveryStepWires, RedialledWires, RedialFailsWires
     DEF Replaces
<1>7. CASE Disconnects
  <2>1. CASE AliceDisconnectBegins
    BY <1>0, <1>1, <2>1, ShutWires DEF AliceDisconnectBegins
  <2>2. CASE BobDisconnectBegins
    BY <1>0, <2>2, SendShutdownWires DEF BobDisconnectBegins
  <2> QED BY <1>7, <2>1, <2>2 DEF Disconnects
<1>8. ASSUME NEW c \in Conns, Admission(c) PROVE Wires(link', S)
  BY <1>0, <1>8, AdmissionWires DEF Admission
<1>9. ASSUME NEW r \in Role, Answers(r) PROVE Wires(link', S)
  BY <1>0, <1>9, ConfirmWires DEF Answers
<1>10. ASSUME NEW r \in Role, CommandStep(r) \/ TabCloses(r) \/ Timeouts(r)
       PROVE  Wires(link', S)
  BY <1>0, <1>10, CommandStepWires
<1>11. ASSUME NEW r \in Role, Reads(r) PROVE Wires(link', S)
  BY <1>11, ReadsWires
<1>12. ASSUME NEW r \in Role, LinkFails(r, conn[r]) PROVE Wires(link', S)
  BY <1>0, <1>12, ShutWires DEF LinkFails
<1>13. CASE UNCHANGED vars
  BY <1>1, <1>13 DEF vars, endpointVars, core
<1> QED BY <1>2, <1>3, <1>4, <1>5, <1>6, <1>7, <1>8, <1>9, <1>10, <1>11, <1>12, <1>13
        DEF Next

-------------------------------------------------------------------------------
(* What a step does to a reader                                               *)
Stopped(r) == reader'[r].pc = "off"
Alone(r) == \A q \in Role \ {r} : reader'[q] = reader[q]
Moved(r) ==
    reader[r].pc # "off" /\ reader'[r].pc # "lock" /\ reader'[r].conn = reader[r].conn
Started(r) ==
    /\ reader'[r].pc \in {"recv", "ready"} /\ conn'[r] \in Conns
    /\ reader'[r].conn = conn'[r] /\ (r = "bob" => server')
Waits(r) ==
    LET c == reader[r].conn IN
    /\ reader[r].pc = "recv" /\ reader'[r].pc = "lock" /\ reader'[r].conn = c
    /\ c \in Conns /\ link[c].wire[r] # <<>> /\ reader'[r].msg = Head(link[c].wire[r])

LEMMA ReaderLoopsMoves ==
  ASSUME ReaderOK, NEW r \in Role, reader[r].pc # "off",
         ReaderLoops(r) \/ reader' = [reader EXCEPT ![r] = NoReader]
  PROVE  (Stopped(r) \/ Moved(r)) /\ Alone(r)
<1> DEFINE next == [reader[r] EXCEPT !.pc = "recv", !.msg = NoMsg]
<1>1. next.pc = "recv" /\ next.conn = reader[r].conn
  BY DEF ReaderOK, Readers
<1>2. reader' = [reader EXCEPT ![r] = next] \/ reader' = [reader EXCEPT ![r] = NoReader]
  <2>1. CASE ~closing[r] /\ reader[r].conn = conn'[r] /\ link'[reader[r].conn].up[r]
    BY <2>1, Zenon DEF ReaderLoops
  <2>2. CASE ~(~closing[r] /\ reader[r].conn = conn'[r] /\ link'[reader[r].conn].up[r])
    BY <2>2, Zenon DEF ReaderLoops
  <2> QED BY <2>1, <2>2
<1> HIDE DEF next
<1> QED BY <1>1, <1>2 DEF ReaderOK, Stopped, Moved, NoReader, Alone

LEMMA HandleResponseMoves ==
  ASSUME ReaderOK, NEW r \in Role, reader[r].pc # "off", NEW m, NEW l, HandleResponse(r, m, l)
  PROVE  (Stopped(r) \/ Moved(r)) /\ Alone(r)
<1>1. ReaderLoops(r) \/ reader' = [reader EXCEPT ![r] = NoReader]
  BY Zenon DEF HandleResponse, Refuse, ReaderRaises
<1> QED BY <1>1, ReaderLoopsMoves

LEMMA AliceHandleMoves ==
  ASSUME ReaderOK, reader["alice"].pc # "off", NEW m, NEW l, AliceHandle(m, l)
  PROVE  (Stopped("alice") \/ Moved("alice")) /\ Alone("alice")
<1>0. "alice" \in Role
  BY DEF Role
<1>1. ReaderLoops("alice") \/ reader' = [reader EXCEPT !["alice"] = NoReader]
  <2>1. CASE m.type = "ready" /\ recovered = "waiting"
    BY <2>1 DEF AliceHandle
  <2>2. CASE m.type = "pong" /\ ping = "sent"
    BY <2>2 DEF AliceHandle
  <2>3. CASE m.type = "verify_response"
    <3>1. HandleResponse("alice", m, l)
      BY <2>3 DEF AliceHandle
    <3> QED BY <3>1, Zenon DEF HandleResponse, Refuse, ReaderRaises
  <2>4. CASE m.type = "shutdown"
    BY <2>4 DEF AliceHandle, HandleShutdown
  <2>5. CASE /\ ~(m.type = "ready" /\ recovered = "waiting")
             /\ ~(m.type = "pong" /\ ping = "sent")
             /\ m.type # "verify_response" /\ m.type # "shutdown"
    <3>1. Refuse("alice", l)
      BY <2>5, Zenon DEF AliceHandle
    <3> QED BY <3>1 DEF Refuse, ReaderRaises
  <2> QED BY <2>1, <2>2, <2>3, <2>4, <2>5
<1> QED BY <1>0, <1>1, ReaderLoopsMoves

LEMMA BobHandleMoves ==
  ASSUME ReaderOK, reader["bob"].pc # "off", NEW m \in Message, m.type \notin {"none", "pong"},
         NEW l, BobHandle(m, l)
  PROVE  (Stopped("bob") \/ Moved("bob")) /\ Alone("bob")
<1>0. "bob" \in Role
  BY DEF Role
<1>1. CASE ReaderLoops("bob") \/ reader' = [reader EXCEPT !["bob"] = NoReader]
  BY <1>0, <1>1, ReaderLoopsMoves
<1>2. CASE \/ reader' = [reader EXCEPT !["bob"].pc = "ready"]
           \/ reader' = [reader EXCEPT !["bob"].pc = "pong"]
  BY <1>0, <1>2 DEF ReaderOK, Readers, Moved, Alone
<1> QED
  <2>1. CASE m.type = "verify_request"
    BY <1>1, <2>1 DEF BobHandle, BobVerifyRequest, Refuse, ReaderRaises
  <2>2. CASE m.type = "verify_response"
    BY <1>0, <2>2, HandleResponseMoves DEF BobHandle
  <2>3. CASE m.type = "verification_result"
    BY <1>1, <1>2, <2>3 DEF BobHandle, BobResult, Refuse, ReaderRaises
  <2>4. CASE m.type = "demo_mode"
    BY <1>1, <2>4 DEF BobHandle, BobBurst, Refuse, ReaderRaises
  <2>5. CASE m.type = "ping"
    BY <1>1, <1>2, <2>5 DEF BobHandle, BobPing, ReaderRaises
  <2>6. CASE m.type = "reconnect"
    BY <1>1, <2>6 DEF BobHandle, BobReconnect, Refuse, ReaderRaises
  <2>7. CASE m.type = "ready"
    BY <1>1, <2>7 DEF BobHandle, BobReady, Refuse, ReaderRaises
  <2>8. CASE m.type = "shutdown"
    BY <1>1, <2>8 DEF BobHandle, HandleShutdown
  <2> QED BY <2>1, <2>2, <2>3, <2>4, <2>5, <2>6, <2>7, <2>8 DEF Message

LEMMA WaitsForLockMoves ==
  ASSUME ReaderOK, NEW r \in Role, reader[r].pc = "recv", Up(r, reader[r].conn),
         link[reader[r].conn].wire[r] # <<>>,
         reader' = [reader EXCEPT ![r].pc = "lock",
                                  ![r].msg = Head(link[reader[r].conn].wire[r])]
  PROVE  Waits(r) /\ Alone(r)
<1> DEFINE m == Head(link[reader[r].conn].wire[r])
           next == [reader[r] EXCEPT !.pc = "lock", !.msg = m]
<1>1. reader[r] \in Readers /\ reader[r].conn \in Conns
  BY EndpointAssumption DEF ReaderOK, Up, Readers, Refs, Conns
<1>2. reader' = [reader EXCEPT ![r] = next]
  BY DEF ReaderOK
<1> HIDE DEF m
<1>3. next.pc = "lock" /\ next.conn = reader[r].conn /\ next.msg = m
  BY <1>1 DEF Readers
<1> HIDE DEF next
<1>4. reader'[r] = next /\ Alone(r)
  BY <1>2 DEF ReaderOK, Alone
<1> QED BY <1>1, <1>3, <1>4 DEF Waits, m

(* Every way a reader moves in a step of the system                           *)
LEMMA ReaderMoves ==
  ASSUME TypeOK, SeatOK, Wires(link, Spoken), Held(reader, Spoken), [Next]_vars, NEW r \in Role
  PROVE  reader'[r] = reader[r] \/ Stopped(r) \/ Moved(r) \/ Started(r) \/ Waits(r)
<1>0. /\ EndpointOK /\ ReaderOK /\ CoreOK /\ link \in Links /\ "alice" \in Role /\ "bob" \in Role
      /\ conn \in [Role -> Refs]
  BY TypeParts DEF EndpointOK, CoreOK, Role
<1>1. CASE reader' = reader
  BY <1>1
<1>2. CASE Dialled
  <2>1. PICK c \in Conns : Connected(c)
    BY <1>2 DEF Dialled
  <2> QED BY <1>0, <2>1 DEF Connected, ReaderOK, Started
<1>3. ASSUME NEW t \in Tasks, RecoveryStep(t) \/ Redialled(t) \/ RedialFails(t)
      PROVE  reader'[r] = reader[r] \/ Stopped(r) \/ Started(r)
  <2>1. CASE RecoverBegins(t)
    BY <1>0, <1>1, <2>1 DEF RecoverBegins, ReaderOK, Stopped, NoReader
  <2>2. CASE ProofSent(t) \/ Recovered(t) \/ Resumed(t)
    BY <2>2 DEF ProofSent, Recovered, Resumed
  <2>3. CASE Redialled(t)
    <3>1. PICK c \in Conns : Reconnected(t, c, LinkUp(c))
      BY <2>3 DEF Redialled
    <3>2. \/ UNCHANGED reader
          \/ /\ conn' = [conn EXCEPT !["alice"] = c]
             /\ reader' = [reader EXCEPT !["alice"] = [pc |-> "recv", conn |-> c, msg |-> NoMsg]]
      BY <3>1, Zenon DEF Reconnected
    <3> QED BY <1>0, <3>2 DEF ReaderOK, Started
  <2>4. CASE RedialFails(t)
    BY <2>4 DEF RedialFails, EstablishFails
  <2> QED BY <1>3, <2>1, <2>2, <2>3, <2>4 DEF RecoveryStep
<1>4. CASE Measures
  <2>1. CASE MeasureStep
    BY <2>1 DEF MeasureStep, GuardFailed, LoopHead, Heartbeat, PingSent, HeartbeatStops, Conclude,
       AssessKeeps, AssessRotates, AssessVerifies, RequestSent, BothDecided, RespondTimesOut,
       ResultSent, NoticeSent
  <2> QED BY <1>3, <1>4, <2>1 DEF Measures, Tasks
<1>5. CASE Replaces
  <2>1. CASE BurstStep
    BY <2>1 DEF BurstStep, BurstNext, BurstReconnects
  <2> QED BY <1>3, <1>5, <2>1 DEF Replaces, Tasks
<1>6. ASSUME NEW c \in Conns, Admission(c)
      PROVE  reader'[r] = reader[r] \/ Started(r)
  <2>0. server'
    BY <1>6 DEF Admission, Admits, Accept, Admit, CandidateEnds, SeatOK
  <2>1. CASE AttachBob(c, "recv") \/ AttachBob(c, "ready")
    BY <1>0, <2>0, <2>1 DEF AttachBob, ReaderOK, CoreOK, Started
  <2> QED BY <1>6, <2>1 DEF Admission, Admits, Accept, Admit, CandidateEnds
<1>7. ASSUME NEW q \in Role, Reads(q)
      PROVE  reader'[r] = reader[r] \/ Stopped(r) \/ Moved(r) \/ Waits(r)
  <2>1. reader' = reader \/ ((Stopped(q) \/ Moved(q) \/ Waits(q)) /\ Alone(q))
    <3> DEFINE c == reader[q].conn
               m == Head(link[c].wire[q])
               l == Take(link, q, c)
    <3>1. CASE q = "alice" /\ AliceReceives
      <4>1. \/ AliceHandle(m, l)
            \/ reader' = [reader EXCEPT ![q].pc = "lock", ![q].msg = m]
        BY <3>1, Zenon DEF AliceReceives
      <4>2. reader[q].pc = "recv" /\ Up(q, c) /\ link[c].wire[q] # <<>>
        BY <3>1 DEF AliceReceives
      <4> HIDE DEF l
      <4> QED BY <1>0, <3>1, <4>1, <4>2, AliceHandleMoves, WaitsForLockMoves
    <3>2. CASE q = "alice" /\ AliceGetsLock
      BY <1>0, <3>2, AliceHandleMoves DEF AliceGetsLock
    <3>3. CASE q = "bob" /\ BobReceives
      <4>1. \/ BobHandle(m, l)
            \/ reader' = [reader EXCEPT ![q].pc = "lock", ![q].msg = m]
        BY <3>3, Zenon DEF BobReceives
      <4>2. reader[q].pc = "recv" /\ Up(q, c) /\ link[c].wire[q] # <<>> /\ c \in Conns
        BY <3>3 DEF BobReceives, SeatOK
      <4>3. m \in Message /\ m.type \notin {"none", "pong"}
        BY <1>0, <3>3, <4>2, TakeOK, TakeWires DEF Spoken
      <4> HIDE DEF l
      <4> QED BY <1>0, <3>3, <4>1, <4>2, <4>3, BobHandleMoves, WaitsForLockMoves
    <3>4. CASE q = "bob" /\ BobGetsLock
      <4>1. reader[q].pc = "lock" /\ BobHandle(reader[q].msg, link)
        BY <3>4 DEF BobGetsLock
      <4>2. reader[q].msg \in Message /\ c \in Conns
        BY <1>0, <3>4, <4>1 DEF SeatOK, ReaderOK, Readers
      <4>3. reader[q].msg.type \notin {"none", "pong"}
        BY <3>4, <4>1, <4>2 DEF Held, Spoken
      <4> QED BY <1>0, <3>4, <4>1, <4>2, <4>3, BobHandleMoves
    <3>5. CASE /\ reader[q].pc # "off"
               /\ ReaderLoops(q) \/ reader' = [reader EXCEPT ![q] = NoReader]
      BY <1>0, <3>5, ReaderLoopsMoves
    <3>6. CASE EndOfStream(q)
      BY <3>6 DEF EndOfStream, LinkFails
    <3> QED BY <1>7, <3>1, <3>2, <3>3, <3>4, <3>5, <3>6
            DEF Reads, AliceReads, BobReads, ProofHandled, ReaderSeesClose, ReaderSent, ReaderRaises
  <2>2. CASE r = q
    BY <2>1, <2>2
  <2>3. CASE r # q
    BY <2>1, <2>3 DEF Alone
  <2> QED BY <2>2, <2>3
<1>8. ASSUME NEW q \in Role, CommandStep(q) \/ TabCloses(q) \/ Timeouts(q)
      PROVE  reader'[r] = reader[r] \/ Stopped(r)
  <2>1. CASE \E u \in Role : \E l : DisconnectEnds(u, l)
    BY <1>0, <2>1 DEF DisconnectEnds, ReaderOK, Stopped, NoReader
  <2> QED BY <1>8, <2>1 DEF CommandStep, TabCloses, Timeouts, Decide, AliceStops, SendShutdown,
             AliceDisconnectEnds, BobDisconnectEnds, ConfirmAbandoned, DisconnectAbandoned,
             StopAbandoned, VerificationEnds, ReservationExpires
<1>9. CASE Connects \/ Listens \/ Bursts \/ DialFails \/ Disconnects
  BY <1>1, <1>9 DEF Connects, Listens, Bursts, DialFails, Disconnects, Connect, StartServer,
     StartBurst, ConnectFails, ConnectAbandoned, AliceDisconnectBegins, BobDisconnectBegins,
     SendShutdown, endpointVars
<1>10. ASSUME NEW q \in Role, Answers(q) \/ LinkFails(q, conn[q])
       PROVE  reader' = reader
  BY <1>10 DEF Answers, Confirm, LinkFails
<1>11. CASE UNCHANGED vars
  BY <1>1, <1>11 DEF vars, endpointVars
<1> QED BY <1>2, <1>4, <1>5, <1>6, <1>7, <1>8, <1>9, <1>10, <1>11 DEF Next

(* Every step leaves a reader that waits for the lock a frame that is         *)
(* allowed.                                                                   *)
LEMMA NextHeld ==
  ASSUME TypeOK, SeatOK, Wires(link, Spoken), Held(reader, Spoken), [Next]_vars,
         NEW S, Wires(link, S), Held(reader, S)
  PROVE  Held(reader', S)
<1> SUFFICES ASSUME NEW r \in Role, reader'[r].pc = "lock"
             PROVE  reader'[r].msg \in S[reader'[r].conn][r]
  BY DEF Held
<1>1. CASE reader'[r] = reader[r]
  BY <1>1 DEF Held
<1>2. CASE Waits(r)
  <2>1. link \in Links
    BY TypeParts DEF EndpointOK, CoreOK
  <2> QED BY <1>2, <2>1, TakeWires DEF Waits
<1> QED BY <1>1, <1>2, ReaderMoves DEF Stopped, Moved, Started

-------------------------------------------------------------------------------
(* A step is Alice's or Bob's, and leaves alone what is the other's.          *)
CoreStill(q) ==
    /\ gate'[q] = gate[q] /\ conn'[q] = conn[q] /\ dual'[q] = dual[q]
    /\ q = "bob" => resume' = resume
    /\ q = "alice" => guard' = guard
RestStill(q) ==
    /\ reader'[q] = reader[q] /\ basis'[q] = basis[q] /\ matched'[q] = matched[q]
    /\ cmd'[q] = cmd[q] /\ closing'[q] = closing[q]

(* The shared helpers of one role leave the other's state alone.              *)
LEMMA RestrictsStill ==
  ASSUME CoreOK, NEW r \in Role, NEW q \in Role \ {r}, NEW l, Restricts(r, l)
  PROVE  CoreStill(q)
BY DEF Restricts, CoreOK, CoreStill

LEMMA RaisesStill ==
  ASSUME CoreOK, NEW t, NEW l, Raises(t, l)
  PROVE  CoreStill("bob")
<1>0. "alice" \in Role /\ "bob" \in Role \ {"alice"}
  BY DEF Role
<1>1. CASE Restricts("alice", l)
  BY <1>0, <1>1, RestrictsStill
<1>2. CASE ~Restricts("alice", l)
  BY <1>0, <1>2 DEF Raises, CoreOK, CoreStill
<1> QED BY <1>1, <1>2

LEMMA ReaderRaisesStill ==
  ASSUME CoreOK, NEW r \in Role, NEW q \in Role \ {r}, NEW l, ReaderRaises(r, l)
  PROVE  CoreStill(q)
<1>1. CASE Restricts(r, l)
  BY <1>1, RestrictsStill
<1>2. CASE ~Restricts(r, l)
  BY <1>2 DEF ReaderRaises, CoreOK, CoreStill
<1> QED BY <1>1, <1>2

LEMMA HandleResponseStill ==
  ASSUME CoreOK, HistOK, NEW r \in Role, NEW q \in Role \ {r}, NEW m, NEW l, HandleResponse(r, m, l)
  PROVE  CoreStill(q) /\ UNCHANGED <<matched, basis>>
<1>1. CASE Refuse(r, l)
  BY <1>1, ReaderRaisesStill DEF Refuse
<1>2. CASE Restricts(r, l) /\ UNCHANGED hist
  BY <1>2, RestrictsStill DEF hist
<1>3. CASE dual' = [dual EXCEPT ![r] = Decided(dual[r], Peer(r), m.flag)]
           /\ UNCHANGED <<gate, conn, resume, guard>> /\ UNCHANGED hist
  BY <1>3 DEF CoreStill, CoreOK, hist
<1> QED BY <1>1, <1>2, <1>3, Zenon DEF HandleResponse

LEMMA MeasureStepStill ==
  ASSUME EndpointOK, MeasureStep
  PROVE  /\ CoreStill("bob") /\ basis'["bob"] = basis["bob"]
         /\ UNCHANGED <<reader, cmd, closing, conns, matched, refused>>
<1>0. CoreOK /\ basis \in [Role -> Bases] /\ "alice" \in Role /\ "bob" \in Role \ {"alice"}
  BY DEF EndpointOK, HistOK, Role
<1>1. UNCHANGED <<reader, cmd, closing, conns, matched, refused>>
  BY DEF MeasureStep, GuardFailed, LoopHead, Heartbeat, PingSent, HeartbeatStops, Conclude,
     AssessKeeps, AssessRotates, AssessVerifies, RequestSent, BothDecided, RespondTimesOut,
     ResultSent, NoticeSent, TaskStep, hist
<1>2. basis'["bob"] = basis["bob"]
  <2>1. basis' = basis \/ \E b : basis' = [basis EXCEPT !["alice"] = b]
    BY DEF MeasureStep, GuardFailed, LoopHead, Heartbeat, PingSent, HeartbeatStops, Conclude,
       AssessKeeps, AssessRotates, AssessVerifies, RequestSent, BothDecided, RespondTimesOut,
       ResultSent, NoticeSent, hist
  <2> QED BY <1>0, <2>1
<1> SUFFICES CoreStill("bob")
  BY <1>1, <1>2
<1>3. CASE Raises("measure", link)
  BY <1>0, <1>3, RaisesStill
<1>4. CASE Restricts("alice", link)
  BY <1>0, <1>4, RestrictsStill
<1>5. CASE UNCHANGED <<conn, resume>> /\ \E s, d :
              /\ gate' = [gate EXCEPT !["alice"] = s] \/ gate' = gate
              /\ dual' = [dual EXCEPT !["alice"] = d] \/ dual' = dual
  BY <1>0, <1>5 DEF CoreStill, CoreOK
<1>6. CASE Concludes
  BY <1>4, <1>5, <1>6, Zenon DEF Concludes
<1>7. CASE AssessVerifies
  BY <1>3, <1>5, <1>7, Zenon, SMTT(40) DEF AssessVerifies, BeginVerification
<1>8. CASE ResultSent \/ NoticeSent
  BY <1>3, <1>5, <1>8, Zenon DEF ResultSent, NoticeSent
<1>9. CASE GuardFailed \/ LoopHead \/ Heartbeat \/ PingSent \/ HeartbeatStops
  BY <1>3, <1>4, <1>5, <1>9 DEF GuardFailed, LoopHead, Heartbeat, PingSent, HeartbeatStops, core
<1>10. CASE RequestSent \/ BothDecided \/ RespondTimesOut
  BY <1>3, <1>5, <1>10 DEF RequestSent, BothDecided, RespondTimesOut, core
<1>11. CASE Conclude \/ AssessKeeps \/ AssessRotates
  BY <1>3, <1>6, <1>11 DEF Conclude, AssessKeeps, AssessRotates
<1> QED BY <1>7, <1>8, <1>9, <1>10, <1>11 DEF MeasureStep

LEMMA RecoveryStepStill ==
  ASSUME EndpointOK, NEW t \in Tasks, RecoveryStep(t) \/ (t = "burst" /\ BurstStep)
  PROVE  /\ CoreStill("bob") /\ reader'["bob"] = reader["bob"]
         /\ UNCHANGED <<cmd, closing, conns, matched, basis, refused>>
<1>0. CoreOK /\ ReaderOK /\ "alice" \in Role /\ "bob" \in Role \ {"alice"}
  BY DEF EndpointOK, Role
<1>1. UNCHANGED <<cmd, closing, conns, matched, basis, refused>>
  BY DEF RecoveryStep, RecoverBegins, ProofSent, Recovered, Resumed, BurstStep, BurstNext,
     BurstReconnects, TaskStep
<1>2. reader' \in {reader, [reader EXCEPT !["alice"] = NoReader]}
  BY DEF RecoveryStep, RecoverBegins, ProofSent, Recovered, Resumed, BurstStep, BurstNext,
     BurstReconnects
<1> SUFFICES CoreStill("bob")
  BY <1>0, <1>1, <1>2 DEF ReaderOK
<1>3. CASE Raises(t, link)
  BY <1>0, <1>3, RaisesStill
<1>4. CASE UNCHANGED <<conn, dual, resume, guard>> /\ \E s :
              gate' = [gate EXCEPT !["alice"] = s] \/ gate' = gate
  BY <1>0, <1>4 DEF CoreStill, CoreOK
<1> QED BY <1>3, <1>4 DEF RecoveryStep, RecoverBegins, ProofSent, Recovered, Resumed, BurstStep,
           BurstNext, BurstReconnects, core

-------------------------------------------------------------------------------
(* The frame m that the reader of r handles in a step; l is the links without *)
(* it.                                                                        *)
Delivered(r, m, l) ==
    \/ /\ reader[r].pc = "recv" /\ Up(r, reader[r].conn)
       /\ link[reader[r].conn].wire[r] # <<>>
       /\ m = Head(link[reader[r].conn].wire[r]) /\ l = Take(link, r, reader[r].conn)
    \/ reader[r].pc = "lock" /\ LockFree(r) /\ m = reader[r].msg /\ l = link

(* The frame that is handled has a type, and so have the links without it.    *)
LEMMA DeliveredOK ==
  ASSUME EndpointOK, NEW r \in Role, NEW m, NEW l, Delivered(r, m, l)
  PROVE  /\ m \in Message /\ l \in Links /\ reader[r].conn \in Refs
         /\ \A S : Wires(link, S) /\ Held(reader, S) => m \in S[reader[r].conn][r] /\ Wires(l, S)
<1>0. /\ reader[r] \in Readers /\ link \in Links
  BY DEF EndpointOK, ReaderOK, CoreOK
<1>1. CASE reader[r].pc = "lock" /\ m = reader[r].msg /\ l = link
  BY <1>0, <1>1 DEF Readers, Held
<1>2. CASE ~(reader[r].pc = "lock" /\ m = reader[r].msg /\ l = link)
  <2> DEFINE c == reader[r].conn
  <2>1. /\ Up(r, c) /\ link[c].wire[r] # <<>>
        /\ m = Head(link[c].wire[r]) /\ l = Take(link, r, c)
    BY <1>2 DEF Delivered
  <2>2. c \in Conns /\ c \in Refs
    BY <1>0, <2>1, EndpointAssumption DEF Up, Readers, Refs, Conns
  <2> HIDE DEF c
  <2>3. m \in Message /\ l \in Links
    BY <1>0, <2>1, <2>2, TakeOK
  <2>4. ASSUME NEW S, Wires(link, S)
        PROVE  m \in S[c][r] /\ Wires(l, S)
    BY <1>0, <2>1, <2>2, <2>4, TakeWires
  <2> QED BY <2>2, <2>3, <2>4 DEF c
<1> QED BY <1>1, <1>2

(* The reader puts the frame it has aside until verification_lock is free.    *)
Postpones(r, l) ==
    /\ \E m : reader' = [reader EXCEPT ![r].pc = "lock", ![r].msg = m]
    /\ link' = l /\ UNCHANGED <<gate, conn, dual, resume, guard>> /\ UNCHANGED hist

(* A reader that receives or gets the lock handles one frame, or waits.       *)
LEMMA AliceReadsOne ==
  ASSUME AliceReads
  PROVE  /\ UNCHANGED <<cmd, closing, conns, ids, task, via, asked, tries, left, approved>>
         /\ \E m, l : /\ Delivered("alice", m, l)
                      /\ \/ AliceHandle(m, l)
                         \/ Postpones("alice", l) /\ UNCHANGED <<ping, recovered>>
<1> DEFINE c == reader["alice"].conn
           m == Head(link[c].wire["alice"])
           l == Take(link, "alice", c)
<1>1. CASE AliceReceives
  <2>1. Delivered("alice", m, l)
    BY <1>1 DEF AliceReceives, Delivered
  <2>2. \/ AliceHandle(m, l)
        \/ /\ reader' = [reader EXCEPT !["alice"].pc = "lock", !["alice"].msg = m]
           /\ link' = l /\ UNCHANGED <<gate, conn, dual, resume, guard, ping, recovered, hist>>
    BY <1>1, Zenon DEF AliceReceives
  <2> HIDE DEF m, l
  <2>3. CASE AliceHandle(m, l)
    BY <1>1, <2>1, <2>3 DEF AliceReceives
  <2>4. CASE ~AliceHandle(m, l)
    <3>1. link' = l /\ UNCHANGED <<gate, conn, dual, resume, guard>> /\ UNCHANGED hist
          /\ UNCHANGED <<ping, recovered>>
      BY <2>2, <2>4
    <3>2. reader' = [reader EXCEPT !["alice"].pc = "lock", !["alice"].msg = m]
      BY <2>2, <2>4
    <3>3. Postpones("alice", l)
      BY <3>1, <3>2, Zenon DEF Postpones
    <3> QED BY <1>1, <2>1, <3>1, <3>3 DEF AliceReceives
  <2> QED BY <2>3, <2>4
<1>2. CASE AliceGetsLock
  BY <1>2 DEF AliceGetsLock, Delivered
<1> QED BY <1>1, <1>2 DEF AliceReads

LEMMA BobReadsOne ==
  ASSUME BobReceives \/ BobGetsLock
  PROVE  /\ UNCHANGED <<cmd, closing, conns, ids, bobVars>>
         /\ \E m, l : Delivered("bob", m, l) /\ (BobHandle(m, l) \/ Postpones("bob", l))
<1> DEFINE c == reader["bob"].conn
           m == Head(link[c].wire["bob"])
           l == Take(link, "bob", c)
<1>1. CASE BobReceives
  <2>1. Delivered("bob", m, l)
    BY <1>1 DEF BobReceives, Delivered
  <2>2. BobHandle(m, l) \/ Postpones("bob", l)
    BY <1>1, Zenon DEF BobReceives, Postpones
  <2> HIDE DEF m, l
  <2> QED BY <1>1, <2>1, <2>2 DEF BobReceives
<1>2. CASE BobGetsLock
  BY <1>2 DEF BobGetsLock, Delivered
<1> QED BY <1>1, <1>2

(* What Alice's handle may do                                                 *)
AliceHears(m, l) ==
    /\ \/ m.type = "ready" /\ recovered = "waiting" /\ recovered' = "done" /\ ping' = ping
       \/ m.type = "pong" /\ ping = "sent" /\ ping' = "done" /\ recovered' = recovered
    /\ link' = l /\ UNCHANGED <<gate, conn, dual, resume, guard>> /\ UNCHANGED hist
    /\ ReaderLoops("alice")

LEMMA AliceHandleCases ==
  ASSUME NEW m, NEW l, AliceHandle(m, l)
  PROVE  \/ AliceHears(m, l)
         \/ m.type = "verify_response" /\ HandleResponse("alice", m, l) /\ UNCHANGED <<ping, recovered>>
         \/ HandleShutdown("alice", l) /\ UNCHANGED <<ping, recovered>>
         \/ Refuse("alice", l) /\ UNCHANGED <<ping, recovered>>
<1>1. CASE m.type = "ready" /\ recovered = "waiting"
  BY <1>1 DEF AliceHandle, AliceHears, hist
<1>2. CASE m.type = "pong" /\ ping = "sent"
  BY <1>2 DEF AliceHandle, AliceHears, hist
<1>3. CASE m.type = "verify_response"
  BY <1>3 DEF AliceHandle
<1>4. CASE m.type = "shutdown"
  BY <1>4 DEF AliceHandle
<1>5. CASE /\ ~(m.type = "ready" /\ recovered = "waiting")
           /\ ~(m.type = "pong" /\ ping = "sent")
           /\ m.type # "verify_response" /\ m.type # "shutdown"
  BY <1>5, Zenon DEF AliceHandle
<1> QED BY <1>1, <1>2, <1>3, <1>4, <1>5

(* What Bob's handle may do with a frame that Alice sends                     *)
LEMMA BobHandleCases ==
  ASSUME NEW m \in Message, NEW l, m.type \notin {"none", "pong"}, BobHandle(m, l)
  PROVE  \/ m.type = "verify_request" /\ BobVerifyRequest(m, l)
         \/ m.type = "verify_response" /\ HandleResponse("bob", m, l)
         \/ m.type = "verification_result" /\ BobResult(m, l)
         \/ m.type = "demo_mode" /\ BobBurst(m, l)
         \/ m.type = "ping" /\ BobPing(l)
         \/ m.type = "reconnect" /\ BobReconnect(l)
         \/ m.type = "ready" /\ BobReady(l)
         \/ m.type = "shutdown" /\ HandleShutdown("bob", l)
<1>1. m.type \in {"verify_request", "verify_response", "verification_result", "demo_mode",
                  "ping", "reconnect", "ready", "shutdown"}
  BY DEF Message
<1> QED BY <1>1 DEF BobHandle

Still(q) == CoreStill(q) /\ RestStill(q) /\ sessions'[q] = sessions[q]

(* The steps of either process that are about its own role                    *)
OwnStep(r) ==
    \/ Answers(r) \/ CommandStep(r) \/ Reads(r) \/ TabCloses(r) \/ Timeouts(r)
    \/ LinkFails(r, conn[r]) /\ OfEither

AliceStep ==
    \/ Connects \/ Bursts \/ Dialled \/ DialFails \/ Measures \/ Replaces
    \/ AliceDisconnectBegins /\ OfAlice
    \/ OwnStep("alice")
BobStep ==
    \/ Listens
    \/ BobDisconnectBegins /\ OfBob
    \/ (\E c \in Conns : Admission(c)) \/ OwnStep("bob")

(* Every step is Alice's or Bob's.                                            *)
LEMMA NextIsOf == Next => AliceStep \/ BobStep
<1>1. ASSUME NEW r \in Role, OwnStep(r)
      PROVE  AliceStep \/ BobStep
  <2>1. r = "alice" \/ r = "bob"
    BY DEF Role
  <2> QED BY <1>1, <2>1 DEF AliceStep, BobStep
<1>2. CASE Connects \/ Listens \/ Bursts \/ Dialled \/ DialFails \/ Measures \/ Replaces \/ Disconnects
  BY <1>2 DEF AliceStep, BobStep, Disconnects
<1>3. CASE \E c \in Conns : Admission(c)
  BY <1>3 DEF BobStep
<1>4. CASE \E r \in Role : OwnStep(r)
  BY <1>1, <1>4
<1> QED BY <1>2, <1>3, <1>4 DEF Next, OwnStep

(* A reader's handlers leave the other role alone.                            *)
HandleStill(q) ==
    CoreStill(q) /\ reader'[q] = reader[q] /\ matched' = matched /\ basis'[q] = basis[q]

LEMMA ReaderStill ==
  ASSUME ReaderOK, NEW r \in Role, NEW q \in Role \ {r},
         \/ ReaderLoops(r) \/ reader' = [reader EXCEPT ![r] = NoReader] \/ reader' = reader
         \/ \E k : reader' = [reader EXCEPT ![r] = k]
  PROVE  reader'[q] = reader[q]
<1>1. \/ reader' = reader \/ \E k : reader' = [reader EXCEPT ![r] = k]
  BY Zenon DEF ReaderLoops
<1> QED BY <1>1 DEF ReaderOK

LEMMA RefuseStill ==
  ASSUME EndpointOK, NEW r \in Role, NEW q \in Role \ {r}, NEW l,
         Refuse(r, l) \/ (ReaderRaises(r, l) /\ UNCHANGED hist)
  PROVE  HandleStill(q)
<1>1. CoreStill(q) /\ reader'[q] = reader[q]
  BY ReaderRaisesStill, ReaderStill DEF Refuse, EndpointOK, ReaderRaises
<1> QED BY <1>1 DEF HandleStill, Refuse, hist

LEMMA SharedHandlersStill ==
  ASSUME EndpointOK, NEW r \in Role, NEW q \in Role \ {r}, NEW m, NEW l,
         HandleResponse(r, m, l) \/ HandleShutdown(r, l) \/ Postpones(r, l)
  PROVE  HandleStill(q)
<1>1. CASE HandleResponse(r, m, l)
  <2>1. ReaderLoops(r) \/ reader' = [reader EXCEPT ![r] = NoReader]
    BY <1>1, Zenon DEF HandleResponse, Refuse, ReaderRaises
  <2>2. reader'[q] = reader[q]
    BY <2>1, ReaderStill DEF EndpointOK
  <2>3. CoreStill(q) /\ UNCHANGED <<matched, basis>>
    BY <1>1, HandleResponseStill DEF EndpointOK
  <2> QED BY <2>2, <2>3 DEF HandleStill
<1>2. CASE HandleShutdown(r, l)
  BY <1>2, ReaderStill, RestrictsStill DEF HandleShutdown, EndpointOK, HandleStill, hist
<1>3. CASE Postpones(r, l)
  BY <1>3 DEF Postpones, EndpointOK, ReaderOK, HandleStill, CoreStill, hist
<1> QED BY <1>1, <1>2, <1>3

LEMMA AliceHandleStill ==
  ASSUME EndpointOK, NEW m, NEW l, AliceHandle(m, l)
  PROVE  HandleStill("bob")
<1>0. "alice" \in Role /\ "bob" \in Role \ {"alice"}
  BY DEF Role
<1>1. CASE AliceHears(m, l)
  BY <1>0, <1>1, ReaderStill DEF AliceHears, EndpointOK, HandleStill, CoreStill, hist
<1> QED BY <1>0, <1>1, AliceHandleCases, SharedHandlersStill, RefuseStill

LEMMA BobHandleStill ==
  ASSUME EndpointOK, NEW m \in Message, NEW l, m.type \notin {"none", "pong"}, BobHandle(m, l)
  PROVE  HandleStill("alice")
<1>0. "bob" \in Role /\ "alice" \in Role \ {"bob"}
  BY DEF Role
<1>1. CASE Refuse("bob", l) \/ (ReaderRaises("bob", l) /\ UNCHANGED hist)
  BY <1>0, <1>1, RefuseStill
<1>2. CASE HandleResponse("bob", m, l) \/ HandleShutdown("bob", l)
  BY <1>0, <1>2, SharedHandlersStill
<1>3. CASE /\ gate' = gate \/ \E s : gate' = [gate EXCEPT !["bob"] = s]
           /\ dual' = dual \/ \E s : dual' = [dual EXCEPT !["bob"] = s]
           /\ basis' = basis \/ \E s : basis' = [basis EXCEPT !["bob"] = s]
           /\ conn' = conn /\ guard' = guard /\ matched' = matched
           /\ ReaderLoops("bob") \/ \E k : reader' = [reader EXCEPT !["bob"] = k]
  <2>1. reader'["alice"] = reader["alice"]
    BY <1>0, <1>3, ReaderStill DEF EndpointOK
  <2> QED BY <1>0, <1>3, <2>1 DEF EndpointOK, CoreOK, HistOK, HandleStill, CoreStill
<1>4. CASE BobVerifyRequest(m, l)
  BY <1>1, <1>3, <1>4, Zenon DEF BobVerifyRequest, BeginVerification, hist
<1>5. CASE BobResult(m, l)
  BY <1>1, <1>3, <1>5, Zenon DEF BobResult, Proves, hist
<1>6. CASE BobBurst(m, l) \/ BobReconnect(l) \/ BobReady(l)
  BY <1>1, <1>3, <1>6, Zenon DEF BobBurst, BobReconnect, BobReady, hist
<1>7. CASE BobPing(l)
  BY <1>1, <1>3, <1>7, Zenon DEF BobPing, hist
<1> QED BY <1>2, <1>4, <1>5, <1>6, <1>7, BobHandleCases

LEMMA OwnStepStill ==
  ASSUME TypeOK, SeatOK, Wires(link, Spoken), Held(reader, Spoken),
         NEW r \in Role, NEW q \in Role \ {r}, OwnStep(r)
  PROVE  Still(q)
<1>0. /\ EndpointOK /\ CoreOK /\ ReaderOK /\ CommandOK /\ HistOK
      /\ gate \in [Role -> State] /\ dual \in [Role -> Dual]
      /\ cmd \in [Role -> Commands] /\ closing \in [Role -> BOOLEAN]
      /\ matched \in [Role -> SUBSET Ids] /\ basis \in [Role -> Bases]
      /\ reader \in [Role -> Readers]
  BY TypeParts DEF EndpointOK, CoreOK, CommandOK, HistOK, ReaderOK
<1>1. sessions'[q] = sessions[q]
  BY DEF OwnStep, Answers, CommandStep, Reads, TabCloses, Timeouts, OfEither, OfAlice, OfBob, bounds
<1>2. ASSUME \/ ReaderLoops(r) \/ reader' = [reader EXCEPT ![r] = NoReader] \/ reader' = reader
             \/ \E k \in Readers : reader' = [reader EXCEPT ![r] = k]
      PROVE  reader'[q] = reader[q]
  BY <1>0, <1>2, Zenon DEF ReaderLoops
<1>3. CASE Answers(r)
  <2>1. PICK id, match : Confirm(r, id, match)
    BY <1>3 DEF Answers
  <2>2. CoreStill(q)
    <3>1. CASE Restricts(r, link)
      BY <1>0, <3>1, RestrictsStill
    <3>2. CASE UNCHANGED <<gate, conn, dual, resume, guard>>
      BY <3>2 DEF CoreStill
    <3> QED BY <2>1, <3>1, <3>2, Zenon DEF Confirm
  <2>3. RestStill(q)
    <3>1. /\ UNCHANGED <<reader, closing, basis>>
          /\ cmd' = cmd \/ \E k : cmd' = [cmd EXCEPT ![r] = k]
          /\ matched' = matched \/ \E k : matched' = [matched EXCEPT ![r] = k]
      BY <2>1, Zenon DEF Confirm
    <3> QED BY <1>0, <3>1 DEF RestStill
  <2> QED BY <1>1, <2>2, <2>3 DEF Still
<1>4. CASE CommandStep(r) \/ TabCloses(r) \/ Timeouts(r)
  <2>1. CoreStill(q)
    <3>1. CASE Restricts(r, link)
      BY <1>0, <3>1, RestrictsStill
    <3>2. CASE UNCHANGED <<gate, conn, resume, guard>> /\ (dual' = dual \/ \E d : dual' = [dual EXCEPT ![r] = d])
      BY <1>0, <3>2 DEF CoreStill
    <3>3. CASE \E l : DisconnectEnds(r, l)
      <4>1. /\ gate' = [gate EXCEPT ![r] = "CLOSED"] /\ dual' = [dual EXCEPT ![r] = NoDual]
            /\ resume' = (IF r = "bob" THEN NoResume ELSE resume)
            /\ UNCHANGED <<conn, guard>>
        BY <3>3 DEF DisconnectEnds
      <4> QED BY <1>0, <4>1 DEF CoreStill
    <3>4. CASE Decide(r)
      BY <3>1, <3>2, <3>4, Zenon DEF Decide, core
    <3> QED
        BY <1>4, <3>1, <3>2, <3>3, <3>4 DEF CommandStep, TabCloses, Timeouts, AliceStops,
            SendShutdown,
               AliceDisconnectEnds, BobDisconnectEnds, ConfirmAbandoned, DisconnectAbandoned,
               StopAbandoned, VerificationEnds, ReservationExpires, core
  <2>2. RestStill(q)
    <3>1. /\ UNCHANGED <<matched, basis>>
          /\ cmd' = cmd \/ \E k : cmd' = [cmd EXCEPT ![r] = k]
          /\ closing' = closing \/ \E k : closing' = [closing EXCEPT ![r] = k]
          /\ reader' = reader \/ reader' = [reader EXCEPT ![r] = NoReader]
      BY <1>4 DEF CommandStep, TabCloses, Timeouts, AliceStops, SendShutdown, Decide,
          DisconnectEnds,
         AliceDisconnectEnds, BobDisconnectEnds, ConfirmAbandoned, DisconnectAbandoned,
         StopAbandoned, VerificationEnds, ReservationExpires, hist
    <3> QED BY <1>0, <3>1 DEF RestStill
  <2> QED BY <1>1, <2>1, <2>2 DEF Still
<1>5. CASE LinkFails(r, conn[r]) \/ EndOfStream(r)
  BY <1>1, <1>5 DEF EndOfStream, LinkFails, Still, CoreStill, RestStill, hist
<1>6. CASE Reads(r) /\ ~EndOfStream(r)
  <2>1. CASE ReaderRaises(r, link) /\ UNCHANGED <<cmd, closing, hist>>
    <3>1. HandleStill(q)
      BY <1>0, <2>1, RefuseStill
    <3> QED BY <1>1, <2>1, <3>1 DEF Still, RestStill, HandleStill
  <2>2. CASE /\ UNCHANGED core /\ UNCHANGED <<cmd, closing, hist>>
             /\ ReaderLoops(r) \/ reader' = [reader EXCEPT ![r] = NoReader]
    <3>1. reader'[q] = reader[q]
      BY <1>0, <2>2, ReaderStill
    <3> QED BY <1>1, <2>2, <3>1 DEF Still, CoreStill, RestStill, core, hist
  <2>3. CASE r = "alice" /\ AliceReads
    <3>1. PICK m, l : AliceHandle(m, l) \/ Postpones("alice", l)
      BY <2>3, AliceReadsOne
    <3>2. HandleStill(q)
      BY <1>0, <2>3, <3>1, AliceHandleStill, SharedHandlersStill DEF Role
    <3> QED BY <1>1, <2>3, <3>2, AliceReadsOne DEF Still, RestStill, HandleStill
  <2>4. CASE r = "bob" /\ (BobReceives \/ BobGetsLock)
    <3>1. PICK m, l : Delivered("bob", m, l) /\ (BobHandle(m, l) \/ Postpones("bob", l))
      BY <2>4, BobReadsOne
    <3>2. m \in Message /\ m \in Spoken[reader["bob"].conn]["bob"] /\ reader["bob"].conn \in Conns
      BY <1>0, <2>4, <3>1, DeliveredOK DEF SeatOK, Delivered
    <3>3. m.type \notin {"none", "pong"}
      BY <2>4, <3>2 DEF Spoken
    <3>4. HandleStill(q)
      BY <1>0, <2>4, <3>1, <3>2, <3>3, BobHandleStill, SharedHandlersStill DEF Role
    <3> QED BY <1>1, <2>4, <3>4, BobReadsOne DEF Still, RestStill, HandleStill
  <2> QED
      BY <1>6, <2>1, <2>2, <2>3, <2>4 DEF Reads, ReaderSeesClose, ReaderSent, BobReads,
          ProofHandled,
             bobVars
<1> QED BY <1>3, <1>4, <1>5, <1>6 DEF OwnStep

(* What the steps of Alice leave of Bob's, and the other way round.           *)
LEMMA AliceStepStill ==
  ASSUME TypeOK, SeatOK, Wires(link, Spoken), Held(reader, Spoken), AliceStep
  PROVE  /\ Still("bob")
         /\ UNCHANGED bobVars \/ \E c \in Conns : Established(c)
<1>0. /\ EndpointOK /\ CoreOK /\ ReaderOK /\ CommandOK /\ HistOK /\ BoundOK
      /\ "alice" \in Role /\ "bob" \in Role \ {"alice"} /\ Tasks = {"measure", "burst"}
  BY TypeParts DEF EndpointOK, Role, Tasks
<1>1. CASE OwnStep("alice")
  <2>1. UNCHANGED bobVars
    BY <1>1 DEF OwnStep, Answers, CommandStep, Reads, TabCloses, Timeouts, OfAlice, OfEither
  <2> QED BY <1>0, <1>1, <2>1, OwnStepStill
<1>2. CASE Connects \/ Bursts
  <2>1. UNCHANGED bobVars /\ UNCHANGED sessions
    BY <1>2 DEF Connects, Bursts, StartBurst, bounds
  <2>2. CoreStill("bob") /\ RestStill("bob")
    BY <1>0, <1>2 DEF Connects, Bursts, Connect, StartBurst, endpointVars, core, hist, CoreOK,
        CommandOK,
       CoreStill, RestStill
  <2> QED BY <2>1, <2>2 DEF Still
<1>3. CASE Dialled
  <2>1. PICK c \in Conns : Established(c) /\ Connected(c)
    BY <1>3 DEF Dialled
  <2>2. sessions'["bob"] = sessions["bob"]
    BY <1>0, <1>3 DEF Dialled, CountSession, BoundOK
  <2>3. CoreStill("bob") /\ RestStill("bob")
    BY <1>0, <2>1 DEF Connected, CoreOK, ReaderOK, CommandOK, HistOK, CoreStill, RestStill
  <2> QED BY <2>1, <2>2, <2>3 DEF Still
<1>4. CASE DialFails
  <2>1. UNCHANGED bobVars /\ UNCHANGED sessions
    BY <1>4 DEF DialFails, bounds
  <2>2. CoreStill("bob")
    <3>1. CASE ConnectFails
      BY <1>0, <3>1, RestrictsStill DEF ConnectFails
    <3>2. CASE ConnectAbandoned
      BY <1>0, <3>2 DEF ConnectAbandoned, core, CoreStill
    <3> QED BY <1>4, <3>1, <3>2 DEF DialFails
  <2>3. RestStill("bob")
    BY <1>0, <1>4 DEF DialFails, ConnectFails, ConnectAbandoned, hist, CommandOK, RestStill
  <2> QED BY <2>1, <2>2, <2>3 DEF Still
<1>5. ASSUME MeasureStep \/ BurstStep \/ \E t \in Tasks : RecoveryStep(t), OfAlice
      PROVE  Still("bob") /\ UNCHANGED bobVars
  <2>1. UNCHANGED bobVars /\ UNCHANGED sessions
    BY <1>5 DEF OfAlice, bounds
  <2>2. CASE MeasureStep
    BY <1>0, <2>1, <2>2, MeasureStepStill DEF Still, RestStill
  <2>3. CASE BurstStep \/ \E t \in Tasks : RecoveryStep(t)
    BY <1>0, <2>1, <2>3, RecoveryStepStill DEF Still, RestStill
  <2> QED BY <1>5, <2>1, <2>2, <2>3
<1>6. ASSUME NEW t \in Tasks, Redialled(t)
      PROVE  Still("bob") /\ \E c \in Conns : Established(c)
  <2>1. PICK c \in Conns : Established(c) /\ Reconnected(t, c, LinkUp(c))
    BY <1>6 DEF Redialled
  <2>2. CoreStill("bob") /\ reader'["bob"] = reader["bob"]
    <3>1. CASE Raises(t, LinkUp(c)) /\ UNCHANGED reader
      BY <1>0, <3>1, RaisesStill
    <3>2. CASE ~(Raises(t, LinkUp(c)) /\ UNCHANGED reader)
      <4>1. /\ gate' = [gate EXCEPT !["alice"] = "VERIFYING"]
            /\ conn' = [conn EXCEPT !["alice"] = c]
            /\ reader' = [reader EXCEPT !["alice"] = [pc |-> "recv", conn |-> c, msg |-> NoMsg]]
            /\ UNCHANGED <<dual, resume, guard>>
        BY <2>1, <3>2, Zenon DEF Reconnected
      <4> QED BY <1>0, <4>1 DEF CoreStill, CoreOK, ReaderOK
    <3> QED BY <3>1, <3>2
  <2>3. UNCHANGED <<cmd, closing, hist, sessions>>
    BY <1>6, <2>1 DEF Redialled, Reconnected, bounds
  <2> QED BY <2>1, <2>2, <2>3 DEF Still, RestStill, hist
<1>7. ASSUME NEW t \in Tasks, RedialFails(t)
      PROVE  /\ Still("bob")
             /\ UNCHANGED bobVars \/ \E c \in Conns : Established(c)
  <2>1. PICK l : EstablishFails(t, l)
    BY <1>7 DEF RedialFails
  <2>2. CoreStill("bob")
    <3>1. CASE Raises(t, l)
      BY <1>0, <3>1, RaisesStill
    <3>2. CASE UNCHANGED <<gate, conn, dual, resume, guard>>
      BY <3>2 DEF CoreStill
    <3> QED BY <2>1, <3>1, <3>2 DEF EstablishFails
  <2>3. UNCHANGED <<reader, cmd, closing, hist, sessions>>
    BY <1>7, <2>1 DEF RedialFails, EstablishFails, bounds
  <2>4. UNCHANGED bobVars \/ \E c \in Conns : Established(c)
    BY <1>7 DEF RedialFails
  <2> QED BY <2>2, <2>3, <2>4 DEF Still, RestStill, hist
<1>8. CASE Measures \/ Replaces
  BY <1>0, <1>5, <1>6, <1>7, <1>8 DEF Measures, Replaces
<1>9. CASE AliceDisconnectBegins /\ OfAlice
  <2>1. CoreStill("bob") /\ RestStill("bob")
    BY <1>0, <1>9 DEF AliceDisconnectBegins, CoreOK, CommandOK, hist, CoreStill, RestStill
  <2> QED BY <1>9, <2>1 DEF Still, OfAlice, bounds
<1> QED BY <1>1, <1>2, <1>3, <1>4, <1>8, <1>9 DEF AliceStep

LEMMA BobStepStill ==
  ASSUME TypeOK, SeatOK, Wires(link, Spoken), Held(reader, Spoken), BobStep
  PROVE  /\ Still("alice") /\ UNCHANGED aliceVars
         /\ UNCHANGED <<conns, ids, bursts>>
<1>0. /\ EndpointOK /\ CoreOK /\ ReaderOK /\ CommandOK /\ HistOK /\ BoundOK
      /\ "bob" \in Role /\ "alice" \in Role \ {"bob"}
  BY TypeParts DEF EndpointOK, Role
<1>1. CASE OwnStep("bob")
  <2>1. UNCHANGED aliceVars /\ UNCHANGED bursts
    BY <1>1 DEF OwnStep, Answers, CommandStep, Reads, TabCloses, Timeouts, OfBob, OfEither, bounds
  <2>2. Reads("bob") => UNCHANGED <<conns, ids>>
    BY BobReadsOne DEF Reads, BobReads, ProofHandled, ReaderSeesClose, ReaderSent, EndOfStream,
        LinkFails
  <2>3. UNCHANGED <<conns, ids>>
    BY <1>1, <2>2 DEF OwnStep, Answers, Confirm, CommandStep, Decide, BobDisconnectEnds,
        DisconnectEnds,
       TabCloses, ConfirmAbandoned, DisconnectAbandoned, Timeouts, VerificationEnds,
       ReservationExpires, LinkFails
  <2> QED BY <1>0, <1>1, <2>1, <2>3, OwnStepStill
<1>2. CASE Listens
  BY <1>0, <1>2 DEF Listens, StartServer, bounds, hist, CoreOK, Still, CoreStill, RestStill
<1>3. ASSUME NEW c \in Conns, Admission(c)
      PROVE  Still("alice") /\ UNCHANGED aliceVars /\ UNCHANGED <<conns, ids, bursts>>
  <2>1. UNCHANGED aliceVars /\ UNCHANGED bursts /\ sessions'["alice"] = sessions["alice"]
    BY <1>0, <1>3 DEF Admission, CountSession, bounds, BoundOK
  <2>2. UNCHANGED <<conns, ids, cmd, closing, matched, guard, dual>>
    BY <1>3 DEF Admission, Admits, Accept, Admit, CandidateEnds, hist
  <2>3. \/ AttachBob(c, "recv") \/ AttachBob(c, "ready")
        \/ UNCHANGED <<gate, conn, reader>>
    BY <1>3, Zenon DEF Admission, Admits, Accept, Admit, CandidateEnds
  <2>4. basis' = basis \/ basis' = [basis EXCEPT !["bob"] = NoBasis]
    BY <1>3 DEF Admission, Admits, Accept, Admit, CandidateEnds, hist
  <2>5. gate'["alice"] = gate["alice"] /\ conn'["alice"] = conn["alice"]
        /\ reader'["alice"] = reader["alice"]
    BY <1>0, <2>3 DEF AttachBob, CoreOK, ReaderOK
  <2> QED BY <1>0, <2>1, <2>2, <2>4, <2>5 DEF HistOK, Still, CoreStill, RestStill
<1>4. CASE BobDisconnectBegins /\ OfBob
  <2>1. CoreStill("alice") /\ RestStill("alice")
    BY <1>0, <1>4 DEF BobDisconnectBegins, SendShutdown, CommandOK, hist, CoreStill, RestStill
  <2> QED BY <1>4, <2>1 DEF BobDisconnectBegins, SendShutdown, Still, OfBob, bounds
<1> QED BY <1>1, <1>2, <1>3, <1>4 DEF BobStep

(* No step about one role alone replaces a connection.                        *)
LEMMA OwnStepConn ==
  ASSUME TypeOK, SeatOK, Wires(link, Spoken), Held(reader, Spoken), NEW r \in Role, OwnStep(r)
  PROVE  conn' = conn
<1>0. EndpointOK
  BY TypeParts
<1>1. ASSUME NEW q, NEW l, \/ Restricts(q, l) \/ ReaderRaises(q, l) \/ Refuse(q, l)
                           \/ DisconnectEnds(q, l) \/ HandleShutdown(q, l) \/ Postpones(q, l)
      PROVE  conn' = conn
  BY <1>1 DEF Restricts, ReaderRaises, Refuse, DisconnectEnds, HandleShutdown, Postpones
<1>2. ASSUME NEW q, NEW m, NEW l, HandleResponse(q, m, l)
      PROVE  conn' = conn
  BY <1>1, <1>2 DEF HandleResponse
<1>3. CASE Answers(r)
  <2>1. PICK id, match : Confirm(r, id, match)
    BY <1>3 DEF Answers
  <2> QED BY <1>1, <2>1 DEF Confirm
<1>4. CASE CommandStep(r) \/ TabCloses(r) \/ Timeouts(r)
  BY <1>1, <1>4 DEF CommandStep, Decide, AliceStops, SendShutdown, AliceDisconnectEnds,
      BobDisconnectEnds,
     TabCloses, ConfirmAbandoned, DisconnectAbandoned, StopAbandoned, Timeouts, VerificationEnds,
     ReservationExpires, core
<1>5. CASE LinkFails(r, conn[r]) \/ EndOfStream(r)
  BY <1>5 DEF LinkFails, EndOfStream
<1>6. CASE ReaderSeesClose(r) \/ ReaderSent(r) \/ ProofHandled
  BY <1>1, <1>6 DEF ReaderSeesClose, ReaderSent, ProofHandled, core
<1>7. CASE r = "alice" /\ AliceReads
  <2>1. PICK m, l : AliceHandle(m, l) \/ Postpones("alice", l)
    BY <1>7, AliceReadsOne
  <2> QED BY <1>1, <1>2, <2>1, AliceHandleCases DEF AliceHears
<1>8. CASE r = "bob" /\ (BobReceives \/ BobGetsLock)
  <2>1. PICK m, l : Delivered("bob", m, l) /\ (BobHandle(m, l) \/ Postpones("bob", l))
    BY <1>8, BobReadsOne
  <2>2. m \in Message /\ m \in Spoken[reader["bob"].conn]["bob"] /\ reader["bob"].conn \in Conns
    BY <1>0, <1>8, <2>1, DeliveredOK DEF SeatOK, Delivered
  <2>3. m.type \notin {"none", "pong"}
    BY <1>8, <2>2 DEF Spoken
  <2>4. CASE BobHandle(m, l)
    <3>1. CASE BobVerifyRequest(m, l) \/ BobResult(m, l) \/ BobBurst(m, l) \/ BobPing(l)
               \/ BobReconnect(l) \/ BobReady(l)
      BY <1>1, <3>1 DEF BobVerifyRequest, BobResult, BobBurst, BobPing, BobReconnect, BobReady
    <3> QED BY <1>1, <1>2, <2>2, <2>3, <2>4, <3>1, BobHandleCases
  <2> QED BY <1>1, <2>1, <2>4
<1> QED BY <1>3, <1>4, <1>5, <1>6, <1>7, <1>8 DEF OwnStep, Reads, BobReads

(* Every step keeps Bob's reader in its seat.                                 *)
LEMMA NextSeat ==
  ASSUME TypeOK, SeatOK, Wires(link, Spoken), Held(reader, Spoken), [Next]_vars
  PROVE  SeatOK'
<1>0. /\ EndpointOK /\ CoreOK /\ ReaderOK /\ BobTypeOK /\ "bob" \in Role
      /\ [Next]_vars
  BY TypeParts DEF EndpointOK, Role
<1>1. CASE AliceStep
  <2>1. CASE UNCHANGED bobVars
    BY <1>1, <2>1, AliceStepStill DEF Still, CoreStill, RestStill, bobVars, SeatOK
  <2>2. ASSUME NEW c \in Conns, Established(c)
        PROVE  server /\ server' = server
    BY <2>2 DEF Established, Arrives
  <2> QED BY <1>1, <2>1, <2>2, AliceStepStill DEF Still, CoreStill, RestStill, SeatOK
<1>2. CASE Listens \/ (BobDisconnectBegins /\ OfBob)
  BY <1>0, <1>2 DEF Listens, StartServer, BobDisconnectBegins, SendShutdown, bobVars, SeatOK
<1>3. ASSUME NEW c \in Conns, Admission(c)
      PROVE  SeatOK'
  <2>1. server /\ server' = server
    BY <1>3 DEF Admission, Admits, Accept, Admit, CandidateEnds, SeatOK
  <2>2. CASE UNCHANGED <<conn, reader>>
    BY <2>1, <2>2 DEF SeatOK
  <2>3. CASE AttachBob(c, "recv") \/ AttachBob(c, "ready")
    BY <1>0, <2>1, <2>3 DEF AttachBob, SeatOK, CoreOK, ReaderOK
  <2> QED BY <1>3, <2>2, <2>3, Zenon DEF Admission, Admits, Accept, Admit, CandidateEnds
<1>4. CASE OwnStep("bob")
  <2>1. CASE BobDisconnectEnds
    BY <1>0, <2>1 DEF BobDisconnectEnds, DisconnectEnds, NoCand, NoReader, SeatOK, ReaderOK
  <2>2. CASE UNCHANGED bobVars
    <3>1. conn' = conn
      BY <1>0, <1>4, OwnStepConn
    <3>2. \/ reader'["bob"] = reader["bob"] \/ Stopped("bob") \/ Moved("bob")
          \/ Started("bob") \/ Waits("bob")
      BY <1>0, ReaderMoves
    <3> QED BY <2>2, <3>1, <3>2 DEF bobVars, SeatOK, Stopped, Moved, Started, Waits
  <2> QED
      BY <1>4, <2>1, <2>2 DEF OwnStep, Answers, CommandStep, Reads, TabCloses, Timeouts, OfBob,
          OfEither,
             BobReads, BobReceives, BobGetsLock, ProofHandled, ReservationExpires
<1>5. CASE UNCHANGED vars
  BY <1>5 DEF vars, endpointVars, core, bobVars, SeatOK
<1> QED BY <1>1, <1>2, <1>3, <1>4, <1>5, NextIsOf DEF BobStep

(* A session still to be counted has room.                                    *)
RoomOK ==
    /\ cmd["alice"].pc = "connecting" => sessions["alice"] < MaxSessions
    /\ gate["bob"] = "CONNECTING" => sessions["bob"] < MaxSessions

(* A step about one role alone closes its gate or leaves it, but for what     *)
(* Bob's reader does.                                                         *)
LEMMA OwnStepGate ==
  ASSUME TypeOK, SeatOK, Wires(link, Spoken), Held(reader, Spoken), NEW r \in Role, OwnStep(r)
  PROVE  \/ gate'[r] \in {gate[r], "RESTRICTED", "CLOSED"}
         \/ /\ r = "bob" /\ (BobReceives \/ BobGetsLock)
            /\ gate'[r] \in {"VERIFYING", "ACTIVE", "RECONNECTING"}
<1>0. EndpointOK /\ CoreOK /\ "bob" \in Role
  BY TypeParts DEF EndpointOK, Role
<1>1. ASSUME NEW l, \/ Restricts(r, l) \/ ReaderRaises(r, l) \/ Refuse(r, l)
                    \/ DisconnectEnds(r, l) \/ HandleShutdown(r, l) \/ Postpones(r, l)
      PROVE  gate'[r] \in {gate[r], "RESTRICTED", "CLOSED"}
  BY <1>0, <1>1 DEF Restricts, ReaderRaises, Refuse, DisconnectEnds, HandleShutdown, Postpones,
      CoreOK
<1>2. ASSUME NEW m, NEW l, HandleResponse(r, m, l)
      PROVE  gate'[r] \in {gate[r], "RESTRICTED", "CLOSED"}
  BY <1>1, <1>2 DEF HandleResponse
<1>3. CASE Answers(r)
  <2>1. PICK id, match : Confirm(r, id, match)
    BY <1>3 DEF Answers
  <2> QED BY <1>1, <2>1 DEF Confirm
<1>4. CASE CommandStep(r) \/ TabCloses(r) \/ Timeouts(r)
  BY <1>1, <1>4 DEF CommandStep, Decide, AliceStops, SendShutdown, AliceDisconnectEnds,
      BobDisconnectEnds,
     TabCloses, ConfirmAbandoned, DisconnectAbandoned, StopAbandoned, Timeouts, VerificationEnds,
     ReservationExpires, core
<1>5. CASE LinkFails(r, conn[r]) \/ EndOfStream(r)
  BY <1>5 DEF LinkFails, EndOfStream
<1>6. CASE ReaderSeesClose(r) \/ ReaderSent(r) \/ ProofHandled
  BY <1>1, <1>6 DEF ReaderSeesClose, ReaderSent, ProofHandled, core
<1>7. CASE r = "alice" /\ AliceReads
  <2>1. PICK m, l : AliceHandle(m, l) \/ Postpones("alice", l)
    BY <1>7, AliceReadsOne
  <2> QED BY <1>1, <1>2, <1>7, <2>1, AliceHandleCases DEF AliceHears
<1>8. CASE r = "bob" /\ (BobReceives \/ BobGetsLock)
  <2>1. PICK m, l : Delivered("bob", m, l) /\ (BobHandle(m, l) \/ Postpones("bob", l))
    BY <1>8, BobReadsOne
  <2>2. m \in Message /\ m \in Spoken[reader["bob"].conn]["bob"] /\ reader["bob"].conn \in Conns
    BY <1>0, <1>8, <2>1, DeliveredOK DEF SeatOK, Delivered
  <2>3. m.type \notin {"none", "pong"}
    BY <1>8, <2>2 DEF Spoken
  <2>4. CASE BobHandle(m, l)
    <3>1. CASE BobVerifyRequest(m, l) \/ BobResult(m, l) \/ BobBurst(m, l) \/ BobPing(l)
               \/ BobReconnect(l) \/ BobReady(l)
      <4>1. gate'["bob"] \in {gate["bob"], "RESTRICTED", "CLOSED", "VERIFYING", "ACTIVE", "RECONNECTING"}
        BY <1>0, <1>1, <1>8, <3>1 DEF BobVerifyRequest, BeginVerification, BobResult, AfterResult,
            BobBurst,
           BobPing, BobReconnect, BobReady, CoreOK
      <4> QED BY <1>8, <4>1
    <3> QED BY <1>1, <1>2, <1>8, <2>2, <2>3, <2>4, <3>1, BobHandleCases
  <2> QED BY <1>1, <1>8, <2>1, <2>4
<1> QED BY <1>3, <1>4, <1>5, <1>6, <1>7, <1>8 DEF OwnStep, Reads, BobReads

(* Every step keeps room for the sessions under way.                          *)
LEMMA NextRoom ==
  ASSUME TypeOK, SeatOK, Wires(link, Spoken), Held(reader, Spoken), RoomOK, [Next]_vars
  PROVE  RoomOK'
<1>0. /\ EndpointOK /\ CommandOK /\ CoreOK /\ BoundOK /\ "bob" \in Role /\ "alice" \in Role
      /\ cmd \in [Role -> Commands] /\ gate \in [Role -> State]
  BY TypeParts DEF EndpointOK, CommandOK, CoreOK, Role
<1>1. CASE AliceStep
  <2>1. gate'["bob"] = gate["bob"] /\ sessions'["bob"] = sessions["bob"]
    BY <1>1, AliceStepStill DEF Still, CoreStill
  <2>2. CASE cmd'["alice"].pc # "connecting"
    BY <2>1, <2>2 DEF RoomOK
  <2>3. CASE UNCHANGED <<cmd, sessions>>
    BY <2>1, <2>3 DEF RoomOK
  <2>4. CASE Connects
    BY <2>1, <2>4 DEF Connects, bounds, RoomOK
  <2>5. CASE Dialled \/ DialFails \/ (AliceDisconnectBegins /\ OfAlice)
    BY <1>0, <2>2, <2>5 DEF Dialled, DialFails, Connected, ConnectFails, ConnectAbandoned,
        AliceDisconnectBegins,
       NoCommand
  <2>6. CASE Bursts
    BY <2>3, <2>6 DEF Bursts, StartBurst, endpointVars
  <2>7. CASE Measures \/ Replaces
    <3>1. ASSUME MeasureStep \/ BurstStep \/ \E t \in Tasks : RecoveryStep(t), OfAlice
          PROVE  UNCHANGED <<cmd, sessions>>
      BY <1>0, <3>1, MeasureStepStill, RecoveryStepStill DEF OfAlice, bounds, Tasks
    <3>2. ASSUME NEW t \in Tasks, Redialled(t) \/ RedialFails(t)
          PROVE  UNCHANGED <<cmd, sessions>>
      BY <3>2 DEF Redialled, Reconnected, RedialFails, EstablishFails, bounds
    <3> QED BY <2>3, <2>7, <3>1, <3>2 DEF Measures, Replaces, Tasks
  <2>8. CASE OwnStep("alice")
    <3>1. UNCHANGED sessions
      BY <2>8 DEF OwnStep, Answers, CommandStep, Reads, TabCloses, Timeouts, OfAlice, OfEither,
          bounds
    <3>2. UNCHANGED cmd \/ cmd'["alice"].pc # "connecting"
      <4>1. CASE Answers("alice")
        <5>1. PICK id, match : Confirm("alice", id, match)
          BY <4>1 DEF Answers
        <5>2. \/ UNCHANGED cmd
              \/ cmd' = [cmd EXCEPT !["alice"] = [pc |-> "deciding", conn |-> conn["alice"],
                                                  id |-> id, match |-> match]]
          BY <5>1, Zenon DEF Confirm
        <5> QED BY <1>0, <5>2
      <4>2. CASE Reads("alice")
        BY <4>2, AliceReadsOne DEF Reads, ReaderSeesClose, ReaderSent, EndOfStream, LinkFails
      <4>3. CASE CommandStep("alice") \/ TabCloses("alice") \/ Timeouts("alice")
        BY <1>0, <4>3 DEF CommandStep, Decide, AliceStops, SendShutdown, AliceDisconnectEnds,
            DisconnectEnds,
           TabCloses, ConfirmAbandoned, DisconnectAbandoned, StopAbandoned, Timeouts,
               VerificationEnds,
           NoCommand
      <4> QED BY <2>8, <4>1, <4>2, <4>3 DEF OwnStep, LinkFails
    <3> QED BY <2>2, <2>3, <3>1, <3>2
  <2> QED BY <1>1, <2>4, <2>5, <2>6, <2>7, <2>8 DEF AliceStep
<1>2. CASE BobStep
  <2>1. cmd'["alice"] = cmd["alice"] /\ sessions'["alice"] = sessions["alice"]
    BY <1>2, BobStepStill DEF Still, RestStill
  <2>2. CASE gate'["bob"] # "CONNECTING"
    BY <2>1, <2>2 DEF RoomOK
  <2>3. CASE gate'["bob"] = gate["bob"] /\ UNCHANGED sessions
    BY <2>1, <2>3 DEF RoomOK
  <2>4. CASE Listens
    BY <2>1, <2>4 DEF Listens, bounds, RoomOK
  <2>5. CASE BobDisconnectBegins /\ OfBob
    BY <2>3, <2>5 DEF BobDisconnectBegins, SendShutdown, OfBob, bounds
  <2>6. ASSUME NEW c \in Conns, Admission(c)
        PROVE  RoomOK'
    <3>1. CASE AttachBob(c, "recv") \/ AttachBob(c, "ready")
      BY <1>0, <2>2, <3>1 DEF AttachBob
    <3>2. CASE UNCHANGED gate
      <4>1. gate'["bob"] # "VERIFYING" \/ gate["bob"] # "CONNECTING"
        BY <3>2
      <4> QED BY <2>3, <2>6, <3>2, <4>1 DEF Admission, bounds
    <3> QED BY <2>6, <3>1, <3>2, Zenon DEF Admission, Admits, Accept, Admit, CandidateEnds
  <2>7. CASE OwnStep("bob")
    <3>1. UNCHANGED sessions
      BY <2>7 DEF OwnStep, Answers, CommandStep, Reads, TabCloses, Timeouts, OfBob, OfEither, bounds
    <3>2. gate'["bob"] \in {gate["bob"], "RESTRICTED", "CLOSED", "VERIFYING", "ACTIVE", "RECONNECTING"}
      BY <1>0, <2>7, OwnStepGate
    <3> QED BY <2>2, <2>3, <3>1, <3>2
  <2> QED BY <1>2, <2>4, <2>5, <2>6, <2>7 DEF BobStep
<1>3. CASE UNCHANGED vars
  BY <1>3 DEF vars, endpointVars, core, bounds, RoomOK
<1> QED BY <1>1, <1>2, <1>3, NextIsOf

(* A step about one role alone keeps the types.                               *)
LEMMA OwnStepType ==
  ASSUME TypeOK, SeatOK, Wires(link, Spoken), Held(reader, Spoken), NEW r \in Role, OwnStep(r)
  PROVE  TypeOK'
<1>0. EndpointOK /\ AliceOK /\ BobTypeOK /\ BoundOK
  BY TypeParts
<1>1. ASSUME EndpointOK', OfEither
      PROVE  TypeOK'
  <2>1. AliceOK' /\ BobTypeOK' /\ BoundOK'
    BY <1>0, <1>1 DEF OfEither, aliceVars, bobVars, bounds, AliceOK, TaskOK, RetryOK, WaitOK,
        BobTypeOK,
       BoundOK
  <2> QED BY <1>1, <2>1, TypeParts
<1>2. ASSUME EndpointOK', AliceOK', OfAlice
      PROVE  TypeOK'
  <2>1. BobTypeOK' /\ BoundOK'
    BY <1>0, <1>2 DEF OfAlice, bobVars, bounds, BobTypeOK, BoundOK
  <2> QED BY <1>2, <2>1, TypeParts
<1>3. ASSUME EndpointOK', BobTypeOK', OfBob
      PROVE  TypeOK'
  <2>1. AliceOK' /\ BoundOK'
    BY <1>0, <1>3 DEF OfBob, aliceVars, bounds, AliceOK, TaskOK, RetryOK, WaitOK, BoundOK
  <2> QED BY <1>3, <2>1, TypeParts
<1>4. CASE Answers(r)
  BY <1>0, <1>1, <1>4, ConfirmType DEF Answers
<1>5. CASE LinkFails(r, conn[r]) /\ OfEither
  BY <1>0, <1>1, <1>5, LinkFailsType DEF EndpointOK, CoreOK
<1>6. CASE CommandStep(r)
  BY <1>0, <1>1, <1>2, <1>3, <1>6, DecideType, AliceStopsType, AliceDisconnectEndsType,
      BobDisconnectEndsType
     DEF CommandStep
<1>7. CASE TabCloses(r)
  BY <1>0, <1>1, <1>2, <1>7, ConfirmAbandonedType, DisconnectAbandonedType, StopAbandonedType
     DEF TabCloses
<1>8. CASE Timeouts(r)
  BY <1>0, <1>1, <1>3, <1>8, VerificationEndsType, ReservationExpiresType DEF Timeouts
<1>9. CASE Reads(r)
  BY <1>0, <1>1, <1>2, <1>3, <1>9, AliceReceivesType, AliceGetsLockType, BobReceivesType,
      BobGetsLockType,
     ProofHandledType, ReaderSeesCloseType, ReaderSentType, EndOfStreamType
     DEF Reads, AliceReads, BobReads
<1> QED BY <1>4, <1>5, <1>6, <1>7, <1>8, <1>9 DEF OwnStep

(* Every step keeps the types, given the rest of the invariant.               *)
LEMMA NextType ==
  ASSUME TypeOK, SeatOK, RoomOK, Wires(link, Spoken), Held(reader, Spoken), [Next]_vars
  PROVE  TypeOK'
<1>0. EndpointOK /\ AliceOK /\ BobTypeOK /\ BoundOK /\ "alice" \in Role /\ "bob" \in Role
  BY TypeParts DEF Role
<1>1. ASSUME EndpointOK', AliceOK', OfAlice
      PROVE  TypeOK'
  <2>1. BobTypeOK' /\ BoundOK'
    BY <1>0, <1>1 DEF OfAlice, bobVars, bounds, BobTypeOK, BoundOK
  <2> QED BY <1>1, <2>1, TypeParts
<1>2. ASSUME EndpointOK', BobTypeOK', BoundOK', UNCHANGED aliceVars
      PROVE  TypeOK'
  <2>1. AliceOK'
    BY <1>0, <1>2 DEF aliceVars, AliceOK, TaskOK, RetryOK, WaitOK
  <2> QED BY <1>2, <2>1, TypeParts
<1>3. CASE Connects \/ Bursts
  <2>1. EndpointOK' /\ AliceOK'
    BY <1>0, <1>3, ConnectType, StartBurstType DEF Connects, Bursts
  <2>2. BobTypeOK'
    BY <1>0, <1>3 DEF Connects, Bursts, bobVars, BobTypeOK
  <2>3. BoundOK'
    BY <1>0, <1>3, SessionAssumption DEF Connects, Bursts, bounds, BoundOK
  <2> QED BY <2>1, <2>2, <2>3, TypeParts
<1>4. CASE Dialled
  <2>1. sessions["alice"] < MaxSessions
    BY <1>4 DEF Dialled, Connected, RoomOK
  <2> QED BY <1>4, <2>1, DialledType
<1>5. CASE DialFails
  <2>1. EndpointOK' /\ AliceOK'
    BY <1>0, <1>5, ConnectFailsType, ConnectAbandonedType DEF DialFails, EndpointOK, CountOK
  <2>2. BobTypeOK' /\ BoundOK'
    BY <1>0, <1>5 DEF DialFails, bobVars, bounds, BobTypeOK, BoundOK
  <2> QED BY <2>1, <2>2, TypeParts
<1>6. CASE Measures
  BY <1>0, <1>1, <1>6, MeasureStepType, RecoveryStepType, RedialledType, RedialFailsType
     DEF Measures, Tasks
<1>7. CASE Replaces
  <2>1. ASSUME BurstStep PROVE EndpointOK' /\ AliceOK'
    BY <1>0, <2>1, BurstNextType, BurstReconnectsType DEF BurstStep
  <2> QED BY <1>0, <1>1, <1>7, <2>1, RecoveryStepType, RedialledType, RedialFailsType
          DEF Replaces, Tasks
<1>8. CASE AliceDisconnectBegins /\ OfAlice
  BY <1>0, <1>1, <1>8, AliceDisconnectBeginsType
<1>9. CASE BobDisconnectBegins /\ OfBob
  <2>1. EndpointOK' /\ BobTypeOK' /\ BoundOK' /\ UNCHANGED aliceVars
    BY <1>0, <1>9, BobDisconnectBeginsType DEF OfBob, bounds, BoundOK
  <2> QED BY <1>2, <2>1
<1>10. CASE Listens
  <2>1. EndpointOK' /\ BobTypeOK'
    BY <1>0, <1>10, StartServerType DEF Listens
  <2>2. BoundOK' /\ UNCHANGED aliceVars
    BY <1>0, <1>10 DEF Listens, bounds, BoundOK
  <2> QED BY <1>2, <2>1, <2>2
<1>11. ASSUME NEW c \in Conns, Admission(c)
       PROVE  TypeOK'
  <2>1. EndpointOK' /\ BobTypeOK'
    BY <1>0, <1>11, AcceptType, AdmitType, CandidateEndsType DEF Admission, Admits
  <2>2. BoundOK'
    <3>1. CASE UNCHANGED bounds
      BY <1>0, <3>1 DEF bounds, BoundOK
    <3>2. CASE gate["bob"] = "CONNECTING" /\ CountSession("bob")
      BY <1>0, <3>2, CountSessionType DEF RoomOK
    <3> QED BY <1>11, <3>1, <3>2 DEF Admission
  <2> QED BY <1>2, <1>11, <2>1, <2>2 DEF Admission
<1>12. ASSUME NEW r \in Role, OwnStep(r)
       PROVE  TypeOK'
  BY <1>12, OwnStepType
<1>13. CASE UNCHANGED vars
  BY <1>13 DEF vars, endpointVars, core, hist, aliceVars, bobVars, bounds, TypeOK, EndpointTypeOK,
      AliceTypeOK,
     BobTypeOK
<1> QED BY <1>0, <1>3, <1>4, <1>5, <1>6, <1>7, <1>8, <1>9, <1>10, <1>11, <1>12, <1>13, NextIsOf
        DEF AliceStep, BobStep

-------------------------------------------------------------------------------
(* The type invariant, with what it needs: the seat of Bob's reader, room for *)
(* the sessions under way, and the frames that are ever sent.                 *)
IType == TypeOK /\ SeatOK /\ RoomOK /\ Wires(link, Spoken) /\ Held(reader, Spoken)

(* The frames that are ever sent are allowed for.                             *)
LEMMA SpokenAllows ==
  ASSUME TypeOK, ids' \in 0 .. MaxIds
  PROVE  Speech(Spoken)
<1>0. /\ ids \in 0 .. MaxIds /\ asked.id \in 0 .. MaxIds
      /\ asked.recovery \in BOOLEAN /\ approved \in 0 .. MaxIds
  BY TypeParts DEF EndpointOK, CountOK, AliceOK, TaskOK, RetryOK
<1>1. \A c \in Conns, r \in Role, m \in Message :
        m.type \notin {"none", "pong"} => m \in Spoken[c][r]
  BY DEF Spoken
<1>2. \A c \in Conns : Message \subseteq Spoken[c]["alice"]
  BY DEF Spoken, Role
<1>3. /\ "bob" \in Role /\ "alice" \in Role /\ \A r \in Role : Peer(r) \in Role
  BY DEF Role, Peer
<1>4. \A c \in Conns :
        /\ {Notice("ping"), Notice("ready"), Notice("reconnect"), Notice("shutdown")}
              \subseteq Spoken[c]["bob"]
        /\ {Notice("pong"), Notice("ready"), Notice("shutdown")} \subseteq Spoken[c]["alice"]
  BY <1>1, <1>2, <1>3, ValuesOK
<1>5. \A r \in Role : \A id \in Ids, match \in BOOLEAN : \A c \in Conns :
        Msg("verify_response", id, match) \in Spoken[c][Peer(r)]
  BY <1>1, <1>3, ValuesOK, EndpointAssumption, SMTT(40) DEF Ids
<1>6. ASSUME NEW c \in Conns
      PROVE  /\ ids' = ids + 1 =>
                   /\ \A recovery \in BOOLEAN :
                         Msg("verify_request", ids + 1, recovery) \in Spoken[c]["bob"]
                   /\ Msg("demo_mode", ids + 1, FALSE) \in Spoken[c]["bob"]
             /\ Msg("verification_result", asked.id, asked.recovery) \in Spoken[c]["bob"]
             /\ Msg("verification_result", approved, TRUE) \in Spoken[c]["bob"]
  <2>1. ids' = ids + 1 => ids + 1 \in 0 .. MaxIds
    OBVIOUS
  <2>2. \A id \in 0 .. MaxIds, flag \in BOOLEAN,
           type \in {"verify_request", "demo_mode", "verification_result"} :
          Msg(type, id, flag) \in Spoken[c]["bob"]
    BY <1>1, <1>3, ValuesOK
  <2> QED BY <1>0, <2>1, <2>2
<1> QED BY <1>4, <1>5, <1>6 DEF Speech

(* The invariant holds at first, and after every step.                        *)
LEMMA InitIType == Init => IType
<1> SUFFICES ASSUME Init PROVE IType
  OBVIOUS
<1>1. TypeOK
  BY InitTypes
<1>2. SeatOK
  BY DEF Init, EndpointInit, BobInit, NoReader, NoCand, SeatOK, Role
<1>3. RoomOK
  BY DEF Init, EndpointInit, NoCommand, RoomOK, Role
<1>4. Wires(link, Spoken)
  <2>1. \A c \in Conns, r \in Role : link[c].wire[r] = <<>>
    BY DEF Init, EndpointInit
  <2>2. \A c \in Conns, r \in Role : <<>> \in Seq(Spoken[c][r])
    OBVIOUS
  <2> QED BY <2>1, <2>2 DEF Wires
<1>5. Held(reader, Spoken)
  BY DEF Init, EndpointInit, NoReader, Held
<1> QED BY <1>1, <1>2, <1>3, <1>4, <1>5 DEF IType

LEMMA NextIType ==
  ASSUME IType, [Next]_vars
  PROVE  IType'
<1> USE DEF IType
<1>1. TypeOK'
  BY NextType
<1>2. ids' \in 0 .. MaxIds
  BY <1>1, TypeParts DEF EndpointOK, CountOK
<1>3. Wires(link', Spoken)
  BY <1>2, SpokenAllows, NextWires
<1>4. Held(reader', Spoken)
  BY NextHeld
<1>5. SeatOK' /\ RoomOK'
  BY NextSeat, NextRoom
<1>6. Wires(link, Spoken)' /\ Held(reader, Spoken)'
  BY <1>3, <1>4 DEF Wires, Held, Spoken
<1> QED BY <1>1, <1>5, <1>6

(* Every variable of the two processes, and of the links between them, keeps  *)
(* its type: no handler is handed a frame it has no case for, no connection   *)
(* is counted beyond MaxConns and no session beyond MaxSessions.              *)
THEOREM TypeCorrect == Spec => []TypeOK
<1>1. IType /\ [Next]_vars => IType'
  BY NextIType
<1>2. IType => TypeOK
  BY DEF IType
<1> QED BY <1>1, <1>2, InitIType, PTL DEF Spec

-------------------------------------------------------------------------------
(* From the humans' answers to the gates                                      *)

(* The comparisons that both people matched                                   *)
Both(M) == M["alice"] \cap M["bob"]

(* The frames an end may receive from a peer that reports what its human      *)
(* answered: M is matched.                                                    *)
Honest(M) ==
    [c \in Refs |-> [r \in Role |->
        {m \in Message : m.type = "verify_response" /\ m.flag => m.id \in M[Peer(r)]}]]

(* A comparison counts only answers that were given, and its outcome is       *)
(* theirs.                                                                    *)
HonestDual(d, M) ==
    /\ \A q \in Role : d.decisions[q] = "MATCH" => d.id \in M[q]
    /\ d.ready = "waiting" => \A q \in Role : d.decisions[q] # "other"
    /\ d.ready = "yes" => d.id \in Both(M)

(* A command of role r that is to send an answer is about a request that was  *)
(* made, and MATCH is what its human gave.                                    *)
HonestCommand(k, r, M) ==
    k.pc = "deciding" => k.id \in Ids /\ (k.match => k.id \in M[r])

(* Wherever an answer is on its way or counted, its human gave it.            *)
AnswersOK ==
    /\ \A r \in Role : HonestCommand(cmd[r], r, matched)
    /\ Wires(link, Honest(matched)) /\ Held(reader, Honest(matched))
    /\ \A r \in Role : HonestDual(dual[r], matched)

-------------------------------------------------------------------------------
(* What happens to matched, to a command and to a comparison                  *)

LEMMA NextMatched ==
  ASSUME IType, [Next]_vars
  PROVE  \A r \in Role : matched[r] \subseteq matched'[r]
<1> SUFFICES ASSUME NEW r \in Role PROVE matched[r] \subseteq matched'[r]
  OBVIOUS
<1>0. /\ EndpointOK /\ HistOK /\ CoreOK /\ "alice" \in Role /\ "bob" \in Role
      /\ TypeOK /\ SeatOK /\ Wires(link, Spoken) /\ Held(reader, Spoken)
  BY TypeParts DEF IType, EndpointOK, Role
<1>1. CASE matched' = matched
  BY <1>1
<1>2. ASSUME NEW q \in Role, NEW id, NEW match, Confirm(q, id, match)
      PROVE  matched[r] \subseteq matched'[r]
  <2>1. matched' = matched \/ matched' = [matched EXCEPT ![q] = @ \cup {id}]
    BY <1>2 DEF Confirm
  <2> QED BY <1>0, <2>1 DEF HistOK
<1>3. ASSUME NEW q \in Role, OwnStep(q)
      PROVE  matched[r] \subseteq matched'[r]
  <2>1. CASE Answers(q)
    BY <1>2, <2>1 DEF Answers
  <2>2. CASE CommandStep(q) \/ TabCloses(q) \/ Timeouts(q) \/ LinkFails(q, conn[q])
    BY <1>1, <2>2 DEF CommandStep, Decide, AliceStops, SendShutdown, AliceDisconnectEnds,
        BobDisconnectEnds,
       DisconnectEnds, TabCloses, ConfirmAbandoned, DisconnectAbandoned, StopAbandoned, Timeouts,
       VerificationEnds, ReservationExpires, LinkFails, hist
  <2>3. CASE Reads(q)
    <3>1. CASE q = "alice" /\ AliceReads
      <4>1. PICK m, l : AliceHandle(m, l) \/ Postpones("alice", l)
        BY <3>1, AliceReadsOne
      <4> QED
          BY <1>0, <1>1, <4>1, AliceHandleStill, SharedHandlersStill DEF HandleStill, Postpones,
              hist
    <3>2. CASE q = "bob" /\ (BobReceives \/ BobGetsLock)
      <4>1. PICK m, l : Delivered("bob", m, l) /\ (BobHandle(m, l) \/ Postpones("bob", l))
        BY <3>2, BobReadsOne
      <4>2. m \in Message /\ m \in Spoken[reader["bob"].conn]["bob"] /\ reader["bob"].conn \in Conns
        BY <1>0, <3>2, <4>1, DeliveredOK DEF SeatOK, Delivered
      <4>3. m.type \notin {"none", "pong"}
        BY <1>0, <4>2 DEF Spoken
      <4> QED BY <1>0, <1>1, <4>1, <4>2, <4>3, BobHandleStill DEF HandleStill, Postpones, hist
    <3> QED
        BY <1>1, <2>3, <3>1, <3>2 DEF Reads, BobReads, ProofHandled, ReaderSeesClose, ReaderSent,
            EndOfStream,
               LinkFails, hist
  <2> QED BY <1>3, <2>1, <2>2, <2>3 DEF OwnStep
<1>4. CASE AliceStep /\ ~OwnStep("alice")
  <2>1. CASE Connects \/ Bursts \/ Dialled \/ DialFails \/ AliceDisconnectBegins
    BY <1>1, <2>1 DEF Connects, Connect, Bursts, StartBurst, endpointVars, Dialled, Connected,
        DialFails,
       ConnectFails, ConnectAbandoned, AliceDisconnectBegins, hist
  <2>2. CASE Measures \/ Replaces
    <3>1. ASSUME NEW t \in Tasks, Redialled(t) \/ RedialFails(t)
          PROVE  matched' = matched
      BY <3>1 DEF Redialled, Reconnected, RedialFails, EstablishFails, hist
    <3> QED
        BY <1>0, <1>1, <2>2, <3>1, MeasureStepStill, RecoveryStepStill DEF Measures, Replaces, Tasks
  <2> QED BY <1>4, <2>1, <2>2 DEF AliceStep
<1>5. CASE BobStep /\ ~OwnStep("bob")
  BY <1>1, <1>5 DEF BobStep, Listens, StartServer, BobDisconnectBegins, SendShutdown, Admission,
      Admits, Accept,
     Admit, CandidateEnds, hist
<1>6. CASE UNCHANGED vars
  BY <1>1, <1>6 DEF vars, endpointVars, hist
<1> QED BY <1>0, <1>3, <1>4, <1>5, <1>6, NextIsOf

(* What Bob's reader takes is a frame his handler has a case for.             *)
LEMMA DeliveredSpoken ==
  ASSUME IType, NEW m, NEW l, Delivered("bob", m, l)
  PROVE  /\ m \in Message /\ l \in Links /\ m.type \notin {"none", "pong"}
         /\ conn["bob"] \in Conns /\ reader["bob"].conn = conn["bob"]
<1>0. /\ EndpointOK /\ SeatOK /\ Wires(link, Spoken) /\ Held(reader, Spoken) /\ "bob" \in Role
      /\ reader["bob"].pc # "off"
  BY TypeParts DEF IType, Role, Delivered
<1>1. conn["bob"] \in Conns /\ reader["bob"].conn = conn["bob"]
  BY <1>0 DEF SeatOK
<1>2. m \in Message /\ l \in Links /\ m \in Spoken[reader["bob"].conn]["bob"]
  BY <1>0, DeliveredOK
<1> QED BY <1>0, <1>1, <1>2 DEF Spoken

-------------------------------------------------------------------------------
(* What one step does to a comparison: nothing, it goes, an answer is counted *)
(* that came from the peer or from the command under way, or it begins.       *)
Kept(r) == dual'[r] \in {dual[r], NoDual}
(* The reader counts the peer's answer.                                       *)
PeerCounts(r) ==
    /\ dual[r] # NoDual
    /\ \E m \in Message, l \in Links :
          /\ Delivered(r, m, l) /\ m.type = "verify_response" /\ m.id = dual[r].id
          /\ dual'[r] = Decided(dual[r], Peer(r), m.flag)
(* The command counts the human's own.                                        *)
OwnCounts(r) ==
    /\ cmd[r].pc = "deciding" /\ cmd[r].id = dual[r].id
    /\ dual'[r] = Decided(dual[r], r, cmd[r].match)
(* Bob begins the comparison that Alice asks for.                             *)
BobBegins ==
    \E m \in Message, l \in Links : Delivered("bob", m, l) /\ BobHandle(m, l)
       /\ m.type = "verify_request" /\ dual'["bob"] = NewDual(m.id, m.flag)

(* A handler other than those two leaves the comparison or drops it.          *)
LEMMA RestrictsKeeps ==
  ASSUME CoreOK, NEW r \in Role, NEW l,
         \/ Restricts(r, l) \/ ReaderRaises(r, l) \/ Refuse(r, l) \/ DisconnectEnds(r, l)
         \/ HandleShutdown(r, l) \/ Postpones(r, l) \/ dual' = dual
  PROVE  Kept(r)
<1>1. ASSUME Restricts(r, l) \/ DisconnectEnds(r, l) PROVE Kept(r)
  BY <1>1 DEF Restricts, DisconnectEnds, Kept, CoreOK
<1>2. ASSUME ReaderRaises(r, l) PROVE Kept(r)
  BY <1>1, <1>2 DEF ReaderRaises, Kept
<1> QED BY <1>1, <1>2 DEF Refuse, HandleShutdown, Postpones, Kept

(* A response counts, or is passed over.                                      *)
LEMMA HandleResponseCounts ==
  ASSUME IType, NEW r \in Role, NEW m \in Message, NEW l \in Links, Delivered(r, m, l),
         m.type = "verify_response", HandleResponse(r, m, l)
  PROVE  Kept(r) \/ PeerCounts(r)
<1>0. CoreOK
  BY TypeParts DEF IType, EndpointOK
<1>1. CASE Refuse(r, l) \/ Restricts(r, l)
  BY <1>0, <1>1, RestrictsKeeps
<1>2. CASE /\ dual[r] # NoDual /\ m.id = dual[r].id
           /\ dual' = [dual EXCEPT ![r] = Decided(dual[r], Peer(r), m.flag)]
  BY <1>0, <1>2 DEF PeerCounts, CoreOK
<1> QED BY <1>1, <1>2, Zenon DEF HandleResponse

(* What a step about one role alone does to its comparison                    *)
LEMMA OwnStepDual ==
  ASSUME IType, NEW r \in Role, OwnStep(r)
  PROVE  Kept(r) \/ PeerCounts(r) \/ OwnCounts(r) \/ (r = "bob" /\ BobBegins)
<1>0. EndpointOK /\ CoreOK /\ "alice" \in Role /\ "bob" \in Role
  BY TypeParts DEF IType, EndpointOK, Role
<1>1. ASSUME NEW l, \/ Restricts(r, l) \/ ReaderRaises(r, l) \/ Refuse(r, l) \/ DisconnectEnds(r, l)
                    \/ HandleShutdown(r, l) \/ Postpones(r, l) \/ dual' = dual
      PROVE  Kept(r)
  BY <1>0, <1>1, RestrictsKeeps
<1>2. CASE Answers(r)
  <2>1. PICK id, match : Confirm(r, id, match)
    BY <1>2 DEF Answers
  <2> QED BY <1>1, <2>1 DEF Confirm
<1>3. CASE Decide(r)
  <2>1. CASE UNCHANGED core \/ Restricts(r, link)
    BY <1>1, <2>1 DEF core
  <2>2. CASE dual[r].id = cmd[r].id /\ dual' = [dual EXCEPT ![r] = Decided(@, r, cmd[r].match)]
    BY <1>0, <1>3, <2>2 DEF Decide, OwnCounts, CoreOK
  <2> QED BY <1>3, <2>1, <2>2, Zenon DEF Decide
<1>4. CASE (CommandStep(r) \/ TabCloses(r) \/ Timeouts(r)) /\ ~Decide(r)
  BY <1>1, <1>4 DEF CommandStep, AliceStops, SendShutdown, AliceDisconnectEnds, BobDisconnectEnds,
     TabCloses, ConfirmAbandoned, DisconnectAbandoned, StopAbandoned, Timeouts, VerificationEnds,
     ReservationExpires, core
<1>5. CASE LinkFails(r, conn[r]) \/ EndOfStream(r)
  BY <1>1, <1>5 DEF LinkFails, EndOfStream
<1>6. CASE ReaderSeesClose(r) \/ ReaderSent(r) \/ ProofHandled
  BY <1>1, <1>6 DEF ReaderSeesClose, ReaderSent, ProofHandled, core
<1>7. CASE r = "alice" /\ AliceReads
  <2>1. PICK m, l : Delivered("alice", m, l) /\ (AliceHandle(m, l) \/ Postpones("alice", l))
    BY <1>7, AliceReadsOne
  <2>2. m \in Message /\ l \in Links
    BY <1>0, <2>1, DeliveredOK
  <2> QED BY <1>0, <1>1, <1>7, <2>1, <2>2, AliceHandleCases, HandleResponseCounts DEF AliceHears
<1>8. CASE r = "bob" /\ (BobReceives \/ BobGetsLock)
  <2>1. PICK m, l : Delivered("bob", m, l) /\ (BobHandle(m, l) \/ Postpones("bob", l))
    BY <1>8, BobReadsOne
  <2>2. m \in Message /\ l \in Links /\ m.type \notin {"none", "pong"}
    BY <1>0, <2>1, DeliveredSpoken
  <2>3. CASE BobHandle(m, l)
    <3>1. CASE HandleResponse("bob", m, l) /\ m.type = "verify_response"
      BY <1>8, <2>1, <2>2, <3>1, HandleResponseCounts
    <3>2. CASE HandleShutdown("bob", l) \/ Refuse("bob", l)
      BY <1>1, <1>8, <3>2
    <3>3. CASE BobVerifyRequest(m, l) /\ m.type = "verify_request" /\ ~Refuse("bob", l)
      <4>1. dual' = [dual EXCEPT !["bob"] = NewDual(m.id, m.flag)]
        BY <3>3 DEF BobVerifyRequest, BeginVerification
      <4> QED BY <1>0, <1>8, <2>1, <2>2, <2>3, <3>3, <4>1 DEF BobBegins, CoreOK
    <3>4. CASE BobResult(m, l) /\ ~Refuse("bob", l)
      <4>1. dual' = [dual EXCEPT !["bob"] = NoDual] \/ dual' = dual
        BY <3>4, Zenon DEF BobResult
      <4> QED BY <1>0, <1>8, <4>1 DEF Kept, CoreOK
    <3>5. CASE (BobBurst(m, l) \/ BobReconnect(l) \/ BobReady(l) \/ BobPing(l)) /\ ~Refuse("bob", l)
      BY <1>1, <1>8, <3>5 DEF BobBurst, BobReconnect, BobReady, BobPing
    <3> QED BY <2>2, <2>3, <3>1, <3>2, <3>3, <3>4, <3>5, BobHandleCases
  <2> QED BY <1>1, <1>8, <2>1, <2>3
<1> QED BY <1>2, <1>3, <1>4, <1>5, <1>6, <1>7, <1>8 DEF OwnStep, Reads, BobReads

(* A comparison whose every counted answer was given by its human stays one.  *)
LEMMA HonestGrows ==
  ASSUME NEW d \in Dual, NEW M, NEW N, \A r \in Role : M[r] \subseteq N[r], HonestDual(d, M)
  PROVE  HonestDual(d, N)
BY DEF HonestDual, Both, Role

(* A comparison begins with no answer counted.                                *)
LEMMA HonestBegins ==
  ASSUME NEW id, NEW recovery, NEW M
  PROVE  HonestDual(NoDual, M) /\ HonestDual(NewDual(id, recovery), M)
BY DEF HonestDual, NoDual, NewDual

(* Counting an answer that was given keeps it so.                             *)
LEMMA HonestCounts ==
  ASSUME NEW d \in Dual, NEW M, HonestDual(d, M), NEW r \in Role, NEW match \in BOOLEAN,
         match => d.id \in M[r]
  PROVE  HonestDual(Decided(d, r, match), M)
<1> DEFINE e == Decided(d, r, match)
<1>1. /\ e.id = d.id
      /\ \A q \in Role : e.decisions[q] =
            IF q # r THEN d.decisions[q] ELSE IF match THEN "MATCH" ELSE "other"
      /\ d.ready # "waiting" => e.ready = d.ready
      /\ d.ready = "waiting" => e.ready =
            IF ~match THEN "no" ELSE IF d.decisions[Peer(r)] # "none" THEN "yes" ELSE "waiting"
  BY DecidedOK
<1>2. /\ \A q \in Role : d.decisions[q] \in {"none", "MATCH", "other"}
      /\ Peer(r) \in Role /\ Role = {r, Peer(r)} /\ Peer(r) # r
  BY DEF Dual, Role, Peer
<1> HIDE DEF e
<1>3. \A q \in Role : e.decisions[q] = "MATCH" => e.id \in M[q]
  BY <1>1 DEF HonestDual
<1>4. e.ready = "waiting" => \A q \in Role : e.decisions[q] # "other"
  BY <1>1 DEF HonestDual
<1>5. e.ready = "yes" => e.id \in Both(M)
  <2>1. CASE d.ready = "waiting"
    <3>1. SUFFICES ASSUME e.ready = "yes" PROVE e.id \in M[r] /\ e.id \in M[Peer(r)]
      BY <1>2 DEF Both, Role
    <3>2. match /\ d.decisions[Peer(r)] # "none"
      BY <1>1, <2>1, <3>1
    <3>3. d.decisions[Peer(r)] = "MATCH"
      BY <1>2, <2>1, <3>2 DEF HonestDual
    <3> QED BY <1>1, <1>2, <3>2, <3>3 DEF HonestDual
  <2>2. CASE d.ready # "waiting"
    BY <1>1, <2>2 DEF HonestDual
  <2> QED BY <2>1, <2>2
<1> QED BY <1>3, <1>4, <1>5 DEF HonestDual, e

(* A measurement step keeps Alice's comparison, drops it or begins the next.  *)
LEMMA AliceStepDual ==
  ASSUME IType, AliceStep, ~OwnStep("alice")
  PROVE  \/ Kept("alice")
         \/ AssessVerifies /\ dual'["alice"] = NewDual(ids + 1, guard = "verified")
<1>0. EndpointOK /\ CoreOK /\ "alice" \in Role
  BY TypeParts DEF IType, EndpointOK, Role
<1>1. ASSUME NEW t, NEW l, \/ Raises(t, l) \/ Restricts("alice", l) \/ dual' = dual
                           \/ dual' = [dual EXCEPT !["alice"] = NoDual]
      PROVE  Kept("alice")
  BY <1>0, <1>1, RestrictsKeeps DEF Raises, Kept, CoreOK
<1>2. CASE Connects \/ Bursts \/ Dialled \/ DialFails
  BY <1>1, <1>2 DEF Connects, Connect, Bursts, StartBurst, endpointVars, core, Dialled, Connected,
      DialFails,
     ConnectFails, ConnectAbandoned
<1>3. CASE AliceDisconnectBegins
  BY <1>1, <1>3 DEF AliceDisconnectBegins
<1>4. CASE AssessVerifies
  <2>1. CASE BeginVerification("alice", ids + 1, guard = "verified")
    BY <1>0, <1>4, <2>1 DEF BeginVerification, CoreOK
  <2> QED BY <1>1, <1>4, <2>1, Zenon DEF AssessVerifies
<1>5. CASE Concludes
  BY <1>1, <1>5, Zenon DEF Concludes
<1>6. CASE ResultSent \/ NoticeSent
  BY <1>1, <1>6, Zenon DEF ResultSent, NoticeSent
<1>7. CASE MeasureStep /\ ~AssessVerifies /\ ~ResultSent /\ ~NoticeSent /\ ~Concludes
  BY <1>1, <1>7 DEF MeasureStep, GuardFailed, LoopHead, Heartbeat, PingSent, HeartbeatStops,
      Conclude,
     AssessKeeps, AssessRotates, RequestSent, BothDecided, RespondTimesOut, core
<1>8. ASSUME NEW t \in Tasks, RecoveryStep(t) \/ BurstStep
      PROVE  Kept("alice")
  BY <1>1, <1>8 DEF RecoveryStep, RecoverBegins, ProofSent, Recovered, Resumed, BurstStep,
      BurstNext,
     BurstReconnects, core
<1>9. ASSUME NEW t \in Tasks, Redialled(t) \/ RedialFails(t)
      PROVE  Kept("alice")
  BY <1>1, <1>9 DEF Redialled, Reconnected, RedialFails, EstablishFails
<1> QED BY <1>2, <1>3, <1>4, <1>5, <1>6, <1>7, <1>8, <1>9
    DEF AliceStep, Measures, Replaces, Tasks

(* Every step does one of those things to the comparison of each role.        *)
LEMMA NextDual ==
  ASSUME IType, [Next]_vars, NEW r \in Role
  PROVE  \/ Kept(r) \/ PeerCounts(r) \/ OwnCounts(r) \/ (r = "bob" /\ BobBegins)
         \/ r = "alice" /\ AssessVerifies /\ dual'["alice"] = NewDual(ids + 1, guard = "verified")
<1>0. /\ TypeOK /\ SeatOK /\ Wires(link, Spoken) /\ Held(reader, Spoken)
      /\ "alice" \in Role /\ "bob" \in Role
  BY DEF IType, Role
<1>1. CASE UNCHANGED vars
  BY <1>1 DEF vars, endpointVars, core, Kept
<1>2. CASE AliceStep
  <2>1. CASE r = "alice"
    BY <1>2, <2>1, OwnStepDual, AliceStepDual
  <2>2. CASE r = "bob"
    BY <1>0, <1>2, <2>2, AliceStepStill DEF Still, CoreStill, Kept
  <2> QED BY <2>1, <2>2 DEF Role
<1>3. CASE BobStep
  <2>1. CASE r = "bob" /\ OwnStep("bob")
    BY <2>1, OwnStepDual
  <2>2. CASE r = "bob" /\ ~OwnStep("bob")
    <3>1. UNCHANGED dual
      BY <1>3, <2>2 DEF BobStep, Listens, StartServer, BobDisconnectBegins, SendShutdown,
          Admission, Admits,
         Accept, Admit, CandidateEnds
    <3> QED BY <2>2, <3>1 DEF Kept
  <2>3. CASE r = "alice"
    BY <1>0, <1>3, <2>3, BobStepStill DEF Still, CoreStill, Kept
  <2> QED BY <2>1, <2>2, <2>3 DEF Role
<1> QED BY <1>1, <1>2, <1>3, NextIsOf

(* A command that is to send an answer is the one its human gave.             *)
LEMMA NextCommand ==
  ASSUME IType, [Next]_vars, NEW r \in Role, HonestCommand(cmd[r], r, matched)
  PROVE  HonestCommand(cmd'[r], r, matched')
<1>0. /\ EndpointOK /\ CommandOK /\ HistOK /\ TypeOK /\ SeatOK /\ Wires(link, Spoken) /\ Held(reader, Spoken)
      /\ "alice" \in Role \ {"bob"} /\ "bob" \in Role \ {"alice"} /\ cmd \in [Role -> Commands]
      /\ matched \in [Role -> SUBSET Ids]
  BY TypeParts DEF IType, EndpointOK, Role, CommandOK, HistOK
<1>1. ASSUME cmd'[r] = cmd[r] \/ cmd'[r].pc # "deciding"
      PROVE  HonestCommand(cmd'[r], r, matched')
  BY <1>1, NextMatched DEF HonestCommand
<1>2. ASSUME \E pc \in {"idle", "connecting", "stopping", "notice"} :
                cmd' = [cmd EXCEPT ![r] = [NoCommand EXCEPT !.pc = pc]] \/ cmd' = [cmd EXCEPT ![r].pc = pc]
      PROVE  cmd'[r].pc # "deciding"
  BY <1>0, <1>2 DEF NoCommand, Commands
<1>3. ASSUME cmd' = [cmd EXCEPT ![r] = NoCommand]
      PROVE  cmd'[r].pc # "deciding"
  BY <1>0, <1>3 DEF NoCommand
<1>4. CASE UNCHANGED cmd
  BY <1>1, <1>4
<1>5. ASSUME NEW id \in 1 .. ids, NEW match \in BOOLEAN, Confirm(r, id, match)
      PROVE  HonestCommand(cmd'[r], r, matched')
  <2>1. CASE UNCHANGED cmd
    BY <1>4, <2>1
  <2>2. CASE /\ cmd' = [cmd EXCEPT ![r] = [pc |-> "deciding", conn |-> conn[r], id |-> id, match |-> match]]
             /\ matched' = IF match THEN [matched EXCEPT ![r] = @ \cup {id}] ELSE matched
    <3>1. id \in Ids
      BY <1>0, EndpointAssumption DEF EndpointOK, CountOK, Ids
    <3> QED BY <1>0, <2>2, <3>1 DEF HonestCommand
  <2> QED BY <1>5, <2>1, <2>2, Zenon DEF Confirm
<1>6. CASE OwnStep(r)
  <2>1. CASE Answers(r)
    BY <1>5, <2>1 DEF Answers
  <2>2. CASE CommandStep(r) \/ TabCloses(r)
    BY <1>1, <1>2, <1>3, <1>4, <2>2 DEF CommandStep, Decide, AliceStops, SendShutdown,
        AliceDisconnectEnds,
       BobDisconnectEnds, DisconnectEnds, TabCloses, ConfirmAbandoned, DisconnectAbandoned,
           StopAbandoned
  <2>3. CASE Reads(r) \/ Timeouts(r) \/ LinkFails(r, conn[r])
    BY <1>4, <2>3, AliceReadsOne, BobReadsOne DEF Reads, BobReads, ProofHandled, ReaderSeesClose,
        ReaderSent,
       EndOfStream, LinkFails, Timeouts, VerificationEnds, ReservationExpires
  <2> QED BY <1>6, <2>1, <2>2, <2>3 DEF OwnStep
<1>7. CASE AliceStep /\ ~OwnStep("alice") /\ r = "alice"
  <2>1. CASE Connects \/ Bursts \/ Dialled \/ DialFails
    BY <1>1, <1>2, <1>3, <1>4, <1>7, <2>1 DEF Connects, Connect, Bursts, StartBurst, endpointVars,
        Dialled,
       Connected, DialFails, ConnectFails, ConnectAbandoned
  <2>2. CASE AliceDisconnectBegins
    BY <1>1, <1>2, <1>7, <2>2 DEF AliceDisconnectBegins
  <2>3. CASE MeasureStep \/ (\E t \in Tasks : RecoveryStep(t)) \/ BurstStep
    BY <1>0, <1>4, <2>3, MeasureStepStill, RecoveryStepStill DEF Tasks
  <2>4. CASE \E t \in Tasks : Redialled(t) \/ RedialFails(t)
    BY <1>4, <2>4 DEF Redialled, Reconnected, RedialFails, EstablishFails
  <2> QED BY <1>7, <2>1, <2>2, <2>3, <2>4 DEF AliceStep, Measures, Replaces, Tasks
<1>8. CASE BobStep /\ ~OwnStep("bob") /\ r = "bob"
  BY <1>1, <1>2, <1>4, <1>8 DEF BobStep, Listens, StartServer, BobDisconnectBegins, SendShutdown,
      Admission, Admits,
     Accept, Admit, CandidateEnds
<1>9. CASE UNCHANGED vars
  BY <1>4, <1>9 DEF vars, endpointVars
<1>10. CASE AliceStep /\ r = "bob"
  BY <1>0, <1>1, <1>10, AliceStepStill DEF Still, RestStill
<1>11. CASE BobStep /\ r = "alice"
  BY <1>0, <1>1, <1>11, BobStepStill DEF Still, RestStill
<1> QED BY <1>6, <1>7, <1>8, <1>9, <1>10, <1>11, NextIsOf DEF Role

(* The frames of an honest peer leave the choice of every other frame free.   *)
LEMMA HonestAllows ==
  ASSUME IType, ids' \in 0 .. MaxIds
  PROVE  Speech(Honest(matched'))
<1> DEFINE S == Honest(matched')
<1>0. /\ ids \in 0 .. MaxIds /\ asked.id \in 0 .. MaxIds /\ conn' = conn' /\ Conns \subseteq Refs
      /\ asked.recovery \in BOOLEAN /\ approved \in 0 .. MaxIds
  BY TypeParts DEF IType, EndpointOK, CountOK, AliceOK, TaskOK, RetryOK, Conns, Refs
<1>1. \A c \in Conns, r \in Role, m \in Message : m.type # "verify_response" => m \in S[c][r]
  BY <1>0 DEF Honest
<1>2. \A c \in Conns, r \in Role, m \in Message : m.id \in matched'[Peer(r)] => m \in S[c][r]
  BY <1>0 DEF Honest
<1>3. \A c \in Conns, r \in Role, m \in Message : ~m.flag => m \in S[c][r]
  BY <1>0 DEF Honest
<1> HIDE DEF S
<1>4. "bob" \in Role /\ "alice" \in Role /\ \A r \in Role : Peer(r) \in Role /\ Peer(Peer(r)) = r
  BY DEF Role, Peer
<1>5. \A c \in Conns :
        /\ {Notice("ping"), Notice("ready"), Notice("reconnect"), Notice("shutdown")} \subseteq S[c]["bob"]
        /\ {Notice("pong"), Notice("ready"), Notice("shutdown")} \subseteq S[c]["alice"]
  BY <1>1, <1>4, ValuesOK
<1>6. ASSUME NEW r \in Role, NEW id \in Ids, NEW match \in BOOLEAN, NEW c \in Conns, match => id \in matched'[r]
      PROVE  Msg("verify_response", id, match) \in S[c][Peer(r)]
  <2>1. /\ Msg("verify_response", id, match) \in Message
        /\ Msg("verify_response", id, match).id = id /\ Msg("verify_response", id, match).flag = match
    BY ValuesOK, EndpointAssumption DEF Ids
  <2>2. Peer(r) \in Role /\ Peer(Peer(r)) = r
    BY <1>4
  <2> HIDE DEF Msg
  <2>3. CASE match
    BY <1>2, <1>6, <2>1, <2>2, <2>3
  <2>4. CASE ~match
    BY <1>3, <2>1, <2>2, <2>4
  <2> QED BY <2>3, <2>4
<1>7. ASSUME NEW c \in Conns
      PROVE  /\ ids' = ids + 1 =>
                   /\ \A recovery \in BOOLEAN : Msg("verify_request", ids + 1, recovery) \in S[c]["bob"]
                   /\ Msg("demo_mode", ids + 1, FALSE) \in S[c]["bob"]
             /\ Msg("verification_result", asked.id, asked.recovery) \in S[c]["bob"]
             /\ Msg("verification_result", approved, TRUE) \in S[c]["bob"]
  <2>1. ids' = ids + 1 => ids + 1 \in 0 .. MaxIds
    OBVIOUS
  <2>2. \A id \in 0 .. MaxIds, flag \in BOOLEAN,
           type \in {"verify_request", "demo_mode", "verification_result"} :
          Msg(type, id, flag) \in S[c]["bob"]
    BY <1>1, <1>4, ValuesOK
  <2> QED BY <1>0, <2>1, <2>2
<1>8. Speech(S)
  BY <1>5, <1>6, <1>7 DEF Speech
<1> QED BY <1>8 DEF S

(* Every step keeps AnswersOK.                                                *)
LEMMA NextAnswers ==
  ASSUME IType, AnswersOK, [Next]_vars
  PROVE  AnswersOK'
<1>0. /\ EndpointOK /\ CoreOK /\ ReaderOK /\ CommandOK /\ "alice" \in Role /\ "bob" \in Role
      /\ TypeOK /\ SeatOK /\ Wires(link, Spoken) /\ Held(reader, Spoken)
      /\ \A r \in Role : Peer(r) \in Role /\ matched[r] \subseteq matched'[r]
      /\ Conns \subseteq Refs
  BY TypeParts, NextMatched, PeerOK DEF IType, EndpointOK, Role, Conns, Refs
<1>1. IType' /\ EndpointOK'
  BY NextIType, TypeParts DEF IType
<1>2. PICK S : S = Honest(matched')
  OBVIOUS
<1>3. \A c \in Refs, r \in Role : Honest(matched)[c][r] \subseteq S[c][r]
  BY <1>0, <1>2 DEF Honest
<1>4. Wires(link, S)
  BY <1>0, <1>3, WiresGrow DEF AnswersOK
<1>5. Held(reader, S)
  BY <1>0, <1>3 DEF AnswersOK, Held, ReaderOK, Readers
<1>6. Speech(S)
  BY <1>1, <1>2, HonestAllows DEF EndpointOK, CountOK
<1>7. Wires(link', S) /\ Held(reader', S)
  BY <1>0, <1>4, <1>5, <1>6, NextWires, NextHeld
<1>8. ASSUME NEW r \in Role
      PROVE  HonestCommand(cmd'[r], r, matched')
  BY NextCommand DEF AnswersOK
<1>9. ASSUME NEW r \in Role
      PROVE  HonestDual(dual'[r], matched')
  <2>1. dual[r] \in Dual /\ HonestDual(dual[r], matched')
    BY <1>0, HonestGrows DEF AnswersOK, CoreOK
  <2>2. CASE Kept(r)
    BY <2>1, <2>2, HonestBegins DEF Kept
  <2>3. CASE PeerCounts(r)
    <3>1. PICK m \in Message, l \in Links :
             /\ Delivered(r, m, l) /\ m.type = "verify_response" /\ m.id = dual[r].id
             /\ dual'[r] = Decided(dual[r], Peer(r), m.flag)
      BY <2>3 DEF PeerCounts
    <3>2. m \in S[reader[r].conn][r] /\ reader[r].conn \in Refs
      BY <1>0, <1>4, <1>5, <3>1, DeliveredOK
    <3>3. m.flag \in BOOLEAN /\ (m.flag => dual[r].id \in matched'[Peer(r)])
      BY <1>2, <3>1, <3>2 DEF Honest, Message
    <3> QED BY <1>0, <2>1, <3>1, <3>3, HonestCounts
  <2>4. CASE OwnCounts(r)
    <3>1. cmd[r].match \in BOOLEAN /\ (cmd[r].match => dual[r].id \in matched'[r])
      BY <1>0, <2>4 DEF OwnCounts, AnswersOK, HonestCommand, CommandOK, Commands
    <3> QED BY <2>1, <2>4, <3>1, HonestCounts DEF OwnCounts
  <2>5. CASE r = "bob" /\ BobBegins
    BY <2>5, HonestBegins DEF BobBegins
  <2>6. CASE r = "alice" /\ dual'["alice"] = NewDual(ids + 1, guard = "verified")
    BY <2>6, HonestBegins
  <2> QED BY <2>2, <2>3, <2>4, <2>5, <2>6, NextDual
<1>10. Wires(link', Honest(matched')) /\ Held(reader', Honest(matched'))
  BY <1>2, <1>7
<1> QED BY <1>8, <1>9, <1>10 DEF AnswersOK, Wires, Held, Honest

-------------------------------------------------------------------------------
(* Alice's side: why what opens her gate was matched by both.                 *)

(* respond is about the pending comparison, and past "ready" about one that   *)
(* both people matched.                                                       *)
RespondOK ==
    /\ task["measure"] \in {"request", "ready"} /\ dual["alice"].ready # "no" =>
          asked.id = dual["alice"].id
    /\ task["measure"] \in {"result", "notice"} => asked.id \in Both(matched)

(* Her tasks run within a session only: not before the first, and not once a  *)
(* connect or a disconnect has begun.                                         *)
Idle ==
    \/ cmd["alice"].pc \in {"connecting", "stopping", "notice"}
    \/ gate["alice"] \in {"LOCKED", "CLOSED"} \/ guard = "none"
(* While Alice is idle no task runs, and without a guard her gate is not      *)
(* open.                                                                      *)
IdleOK == (Idle => \A t \in Tasks : task[t] = "off") /\ (guard = "none" => gate["alice"] # "ACTIVE")

(* What has been, or is about to be, opened rests on a matched comparison.    *)
Committed == {"notice", "close", "establish", "proof", "confirm", "conclude", "resume"}
(* Alice's gate is open, or something under way may open it.                  *)
Based ==
    gate["alice"] = "ACTIVE" \/ guard = "verified" \/ task["burst"] # "off"
    \/ task["measure"] \in Committed
(* What it rests on was matched by both.                                      *)
AliceBased == Based => basis["alice"].id \in Both(matched)

(* Alice's part of the invariant                                              *)
AInv == RespondOK /\ IdleOK /\ AliceBased

(* A step that leaves it based on the same comparison keeps AliceBased.       *)
LEMMA BasedStays ==
  ASSUME IType, [Next]_vars, AliceBased, basis'["alice"] = basis["alice"], Based' => Based
  PROVE  AliceBased'
BY NextMatched DEF AliceBased, Both, Role

(* A step that leaves Alice's comparison or drops it keeps RespondOK.         *)
LEMMA DualStays ==
  ASSUME IType, NEW r \in Role, Kept(r) \/ PeerCounts(r) \/ OwnCounts(r)
  PROVE  dual'[r].ready # "no" => dual'[r].id = dual[r].id /\ dual[r].ready # "no"
<1>0. dual[r] \in Dual /\ cmd[r].match \in BOOLEAN /\ Peer(r) \in Role
  BY TypeParts, PeerOK DEF IType, EndpointOK, CoreOK, CommandOK, Commands
<1>1. ASSUME NEW q \in Role, NEW match \in BOOLEAN
      PROVE  Decided(dual[r], q, match).ready # "no" =>
                Decided(dual[r], q, match).id = dual[r].id /\ dual[r].ready # "no"
  <2> DEFINE e == Decided(dual[r], q, match)
  <2>1. e.id = dual[r].id /\ (dual[r].ready # "waiting" => e.ready = dual[r].ready)
    BY <1>0, DecidedOK, SMTT(40)
  <2> HIDE DEF e
  <2>2. e.ready # "no" => e.id = dual[r].id /\ dual[r].ready # "no"
    BY <2>1
  <2> QED BY <2>2 DEF e
<1>2. CASE Kept(r)
  BY <1>2 DEF Kept, NoDual
<1>3. CASE PeerCounts(r)
  BY <1>0, <1>1, <1>3 DEF PeerCounts, Message
<1>4. CASE OwnCounts(r)
  BY <1>0, <1>1, <1>4 DEF OwnCounts
<1> QED BY <1>2, <1>3, <1>4

(* What Alice's reader, her commands and her timers do to the rest of her     *)
(* process.                                                                   *)
LEMMA OwnStepAlice ==
  ASSUME IType, OwnStep("alice")
  PROVE  /\ UNCHANGED <<task, asked>> /\ basis'["alice"] = basis["alice"]
         /\ guard' \in {guard, "unverified"} /\ (guard' = "none" <=> guard = "none")
         /\ \/ gate'["alice"] \in {gate["alice"], "RESTRICTED"}
            \/ gate'["alice"] = "CLOSED" /\ cmd["alice"].pc = "notice"
         /\ \/ cmd'["alice"].pc \in {cmd["alice"].pc, "idle", "deciding"}
            \/ cmd["alice"].pc = "stopping" /\ cmd'["alice"].pc = "notice"
<1> DEFINE Safe ==
             /\ guard' \in {guard, "unverified"} /\ (guard' = "none" <=> guard = "none")
             /\ gate'["alice"] \in {gate["alice"], "RESTRICTED"}
<1>0. /\ EndpointOK /\ CoreOK /\ CommandOK /\ "alice" \in Role
      /\ cmd \in [Role -> Commands]
  BY TypeParts DEF IType, EndpointOK, CommandOK, Role
<1>1. ASSUME NEW l, \/ Restricts("alice", l) \/ ReaderRaises("alice", l) \/ Refuse("alice", l)
                    \/ HandleShutdown("alice", l) \/ Postpones("alice", l)
      PROVE  Safe
  <2>1. CASE Restricts("alice", l)
    BY <1>0, <2>1 DEF Restricts, CoreOK
  <2> QED BY <1>1, <2>1 DEF ReaderRaises, Refuse, HandleShutdown, Postpones
<1>2. CASE Answers("alice")
  <2>1. PICK id \in 1 .. ids, match \in BOOLEAN : Confirm("alice", id, match)
    BY <1>2 DEF Answers
  <2>2. UNCHANGED <<task, asked, basis>>
    BY <1>2, <2>1 DEF Answers, OfEither, aliceVars, Confirm
  <2>3. CASE Restricts("alice", link) /\ UNCHANGED <<cmd, matched>>
    BY <1>1, <2>2, <2>3
  <2>4. CASE UNCHANGED <<gate, guard>> /\ \E k : k.pc = "deciding" /\ cmd' = [cmd EXCEPT !["alice"] = k]
    BY <1>0, <2>2, <2>4
  <2> QED BY <2>1, <2>3, <2>4, Zenon DEF Confirm
<1>3. CASE CommandStep("alice") \/ TabCloses("alice") \/ Timeouts("alice")
  <2>1. UNCHANGED <<task, asked>> /\ UNCHANGED basis
    BY <1>3 DEF CommandStep, Decide, AliceStops, SendShutdown, AliceDisconnectEnds, DisconnectEnds,
        TabCloses,
       ConfirmAbandoned, DisconnectAbandoned, StopAbandoned, Timeouts, VerificationEnds, OfEither,
           OfAlice,
       aliceVars, hist
  <2>2. CASE Decide("alice") \/ VerificationEnds("alice") \/ ConfirmAbandoned("alice")
             \/ DisconnectAbandoned("alice") \/ StopAbandoned
    <3>1. cmd'["alice"].pc \in {cmd["alice"].pc, "idle"}
      BY <1>0, <2>2 DEF Decide, VerificationEnds, ConfirmAbandoned, DisconnectAbandoned,
          StopAbandoned, NoCommand
    <3>2. Safe
      <4>1. Restricts("alice", link) \/ UNCHANGED <<gate, guard>>
        BY <2>2 DEF Decide, VerificationEnds, ConfirmAbandoned, DisconnectAbandoned, StopAbandoned,
            core
      <4> QED BY <1>1, <4>1
    <3> QED BY <2>1, <3>1, <3>2
  <2>3. CASE AliceStops
    BY <1>0, <2>1, <2>3 DEF AliceStops, SendShutdown, NoCommand
  <2>4. CASE AliceDisconnectEnds
    BY <1>0, <2>1, <2>4 DEF AliceDisconnectEnds, DisconnectEnds, NoCommand, CoreOK
  <2> QED BY <1>3, <2>2, <2>3, <2>4 DEF CommandStep, TabCloses, Timeouts
<1>4. CASE LinkFails("alice", conn["alice"]) /\ OfEither
  BY <1>4 DEF LinkFails, OfEither, aliceVars, hist
<1>5. CASE Reads("alice")
  <2>1. UNCHANGED <<cmd, task, asked>>
    BY <1>5, AliceReadsOne DEF Reads, ReaderSeesClose, ReaderSent, EndOfStream, LinkFails,
        OfEither, aliceVars
  <2>2. CASE ReaderSeesClose("alice") \/ ReaderSent("alice") \/ EndOfStream("alice")
    BY <1>1, <2>1, <2>2 DEF ReaderSeesClose, ReaderSent, EndOfStream, LinkFails, core, hist
  <2>3. CASE AliceReads
    <3>1. PICK m, l : AliceHandle(m, l) \/ Postpones("alice", l)
      BY <2>3, AliceReadsOne
    <3>2. CASE AliceHears(m, l)
      BY <2>1, <3>2 DEF AliceHears, hist
    <3>3. CASE Refuse("alice", l) \/ HandleShutdown("alice", l) \/ Postpones("alice", l)
      BY <1>1, <2>1, <3>3 DEF Refuse, HandleShutdown, Postpones, hist
    <3>4. CASE HandleResponse("alice", m, l)
      BY <1>1, <2>1, <3>3, <3>4 DEF HandleResponse, hist
    <3> QED BY <3>1, <3>2, <3>3, <3>4, AliceHandleCases
  <2> QED BY <1>5, <2>2, <2>3 DEF Reads
<1> QED BY <1>2, <1>3, <1>4, <1>5 DEF OwnStep

(* A step about Alice alone that is not a task's keeps her part.              *)
LEMMA OwnStepAInv ==
  ASSUME IType, AInv, OwnStep("alice")
  PROVE  AInv'
<1>0. /\ UNCHANGED <<task, asked>> /\ basis'["alice"] = basis["alice"]
      /\ guard' \in {guard, "unverified"} /\ (guard' = "none" <=> guard = "none")
      /\ \/ gate'["alice"] \in {gate["alice"], "RESTRICTED"}
         \/ gate'["alice"] = "CLOSED" /\ cmd["alice"].pc = "notice"
      /\ \/ cmd'["alice"].pc \in {cmd["alice"].pc, "idle", "deciding"}
         \/ cmd["alice"].pc = "stopping" /\ cmd'["alice"].pc = "notice"
  BY OwnStepAlice
<1>1. "alice" \in Role /\ "bob" \in Role /\ [Next]_vars
  BY DEF Role, Next, OwnStep
<1>2. RespondOK'
  <2>1. dual'["alice"].ready # "no" => dual'["alice"].id = dual["alice"].id /\ dual["alice"].ready # "no"
    BY <1>1, OwnStepDual, DualStays
  <2>2. Both(matched) \subseteq Both(matched')
    BY <1>1, NextMatched DEF Both
  <2> QED BY <1>0, <2>1, <2>2 DEF AInv, RespondOK
<1>3. IdleOK'
  BY <1>0 DEF AInv, IdleOK, Idle
<1>4. AliceBased'
  BY <1>0, <1>1, BasedStays DEF AInv, Based
<1> QED BY <1>2, <1>3, <1>4 DEF AInv

(* A task that runs finds Alice in a session.                                 *)
LEMMA TaskRuns ==
  ASSUME IdleOK, NEW t \in Tasks, task[t] # "off"
  PROVE  ~Idle
BY DEF IdleOK

(* A task that raises ends the session's tasks, and nothing opens.            *)
LEMMA RaisesAlice ==
  ASSUME IType, NEW t \in Tasks, NEW l, Raises(t, l)
  PROVE  /\ dual'["alice"].ready = "no" /\ guard' \in {guard, "unverified"} /\ guard' # "verified"
         /\ (guard' = "none" => guard = "none")
         /\ gate'["alice"] \in {gate["alice"], "RESTRICTED"}
         /\ task'[t] \in {"off", "failed"} /\ (t = "burst" => asked' = asked)
         /\ \A u \in Tasks : u # t => task'[u] = task[u]
<1>0. CoreOK /\ TaskOK /\ "alice" \in Role /\ dual \in [Role -> Dual] /\ gate \in [Role -> State]
  BY TypeParts DEF IType, EndpointOK, AliceOK, Role, CoreOK
<1>1. task' \in {[task EXCEPT ![t] = "off"], [task EXCEPT ![t] = "failed"]}
  BY DEF Raises, Goto
<1>2. dual' = [dual EXCEPT !["alice"] = NoDual]
  BY DEF Raises, Restricts
<1>3. /\ guard' \in {guard, "unverified"} /\ guard' # "verified" /\ (guard' = "none" => guard = "none")
      /\ gate'["alice"] \in {gate["alice"], "RESTRICTED"}
  <2>1. CASE Restricts("alice", l)
    BY <1>0, <2>1 DEF Restricts
  <2>2. CASE guard' = "unverified" /\ gate' = gate
    BY <2>2
  <2> QED BY <2>1, <2>2, Zenon DEF Raises
<1>4. t = "burst" => asked' = asked
  BY DEF Raises
<1> QED BY <1>0, <1>1, <1>2, <1>3, <1>4 DEF TaskOK, NoDual

(* What the tasks do to the gate, the guard and the command: they neither     *)
(* begin nor end a session.                                                   *)
Working ==
    /\ gate'["alice"] \in {gate["alice"], "RESTRICTED", "VERIFYING", "RECONNECTING", "ACTIVE"}
    /\ guard' \in {guard, "unverified", "verified"} /\ cmd' = cmd

(* A step that neither begins nor ends a session keeps IdleOK.                *)
LEMMA WorkingIdle ==
  ASSUME IdleOK, ~Idle, Working
  PROVE  IdleOK'
BY DEF IdleOK, Idle, Working

(* A step of task t that is such a step                                       *)
TaskWorks(t) ==
    \/ t = "measure" /\ MeasureStep
    \/ t = "burst" /\ BurstStep
    \/ RecoveryStep(t) \/ Redialled(t) \/ RedialFails(t)

(* A task that takes a step runs.                                             *)
LEMMA TaskIsOn ==
  ASSUME NEW t \in Tasks, TaskWorks(t)
  PROVE  task[t] # "off"
BY DEF TaskWorks, MeasureStep, GuardFailed, LoopHead, Heartbeat, PingSent, HeartbeatStops,
    Conclude, AssessKeeps,
   AssessRotates, AssessVerifies, AtAssess, RequestSent, BothDecided, RespondTimesOut, Responding,
       ResultSent,
   NoticeSent, RecoveryStep, RecoverBegins, ProofSent, Recovered, Resumed, BurstStep, BurstNext,
       BurstReconnects,
   Redialled, Reconnected, RedialFails, EstablishFails

(* Every step of a task is Working.                                           *)
LEMMA TaskWorking ==
  ASSUME IType, NEW t \in Tasks, TaskWorks(t)
  PROVE  Working
<1>0. EndpointOK /\ CoreOK /\ "alice" \in Role /\ gate \in [Role -> State] /\ "measure" \in Tasks
  BY TypeParts DEF IType, EndpointOK, Role, CoreOK, Tasks
<1>1. cmd' = cmd
  BY <1>0, MeasureStepStill, RecoveryStepStill DEF TaskWorks, Redialled, Reconnected, RedialFails,
      EstablishFails
<1>2. ASSUME NEW u \in Tasks, NEW l, Raises(u, l) \/ Restricts("alice", l) PROVE Working
  <2>1. CASE Restricts("alice", l)
    BY <1>0, <1>1, <2>1 DEF Restricts, Working
  <2>2. CASE Raises(u, l)
    BY <1>1, <2>2, RaisesAlice DEF Working
  <2> QED BY <1>2, <2>1, <2>2
<1>3. CASE /\ \/ gate' = gate
              \/ \E s \in {"VERIFYING", "RECONNECTING", "ACTIVE"} : gate' = [gate EXCEPT !["alice"] = s]
           /\ guard' = guard \/ guard' = "verified"
  BY <1>0, <1>1, <1>3 DEF Working
<1>4. CASE Concludes
  BY <1>0, <1>2, <1>3, <1>4, Zenon DEF Concludes
<1>5. CASE AssessVerifies
  BY <1>0, <1>2, <1>3, <1>5, Zenon DEF AssessVerifies, BeginVerification
<1>6. CASE ResultSent \/ NoticeSent
  BY <1>0, <1>2, <1>3, <1>6, Zenon DEF ResultSent, NoticeSent
<1>7. CASE MeasureStep /\ ~AssessVerifies /\ ~ResultSent /\ ~NoticeSent /\ ~Concludes
  BY <1>0, <1>2, <1>3, <1>7 DEF MeasureStep, GuardFailed, LoopHead, Heartbeat, PingSent,
      HeartbeatStops, Conclude,
     AssessKeeps, AssessRotates, RequestSent, BothDecided, RespondTimesOut, core
<1>8. CASE RecoveryStep(t) \/ BurstStep
  BY <1>0, <1>2, <1>3, <1>8 DEF RecoveryStep, RecoverBegins, ProofSent, Recovered, Resumed,
      BurstStep, BurstNext,
     BurstReconnects, core, Tasks
<1>9. CASE Redialled(t) \/ RedialFails(t)
  BY <1>2, <1>3, <1>9 DEF Redialled, Reconnected, RedialFails, EstablishFails
<1> QED BY <1>4, <1>5, <1>6, <1>7, <1>8, <1>9 DEF TaskWorks

(* A measurement step but the one that ends a comparison keeps what its       *)
(* outcome is said to rest on.                                                *)
LEMMA TaskBasis ==
  ASSUME IType, NEW t \in Tasks, TaskWorks(t), ~ResultSent
  PROVE  basis'["alice"] = basis["alice"] /\ matched' = matched
<1>0. EndpointOK /\ "alice" \in Role
  BY TypeParts DEF IType, Role
<1>1. CASE MeasureStep
  BY <1>1 DEF MeasureStep, GuardFailed, LoopHead, Heartbeat, PingSent, HeartbeatStops, Conclude,
      AssessKeeps,
     AssessRotates, AssessVerifies, RequestSent, BothDecided, RespondTimesOut, NoticeSent,
         TaskStep, hist
<1>2. CASE RecoveryStep(t) \/ BurstStep
  BY <1>2 DEF RecoveryStep, RecoverBegins, ProofSent, Recovered, Resumed, BurstStep, BurstNext,
      BurstReconnects,
     TaskStep
<1>3. CASE Redialled(t) \/ RedialFails(t)
  BY <1>3 DEF Redialled, Reconnected, RedialFails, EstablishFails, hist
<1> QED BY <1>1, <1>2, <1>3 DEF TaskWorks

(* The steps of measure_loop, one by one                                      *)
LEMMA MeasureAInv ==
  ASSUME IType, AnswersOK, AInv, MeasureStep
  PROVE  RespondOK' /\ AliceBased'
<1>0. /\ EndpointOK /\ CoreOK /\ TaskOK /\ HistOK /\ AliceOK /\ "alice" \in Role /\ "bob" \in Role
      /\ "measure" \in Tasks /\ "burst" \in Tasks /\ TaskWorks("measure") 
      /\ dual \in [Role -> Dual] /\ gate \in [Role -> State] /\ task \in [Tasks -> Places]
  BY TypeParts DEF IType, EndpointOK, AliceOK, Role, Tasks, TaskWorks, CoreOK, TaskOK
<1>1. ASSUME basis'["alice"] = basis["alice"], matched' = matched, Based \/ ~Based'
      PROVE  AliceBased'
  BY <1>1 DEF AInv, AliceBased, Based
<1>2. ASSUME task'["measure"] \notin {"request", "ready", "result", "notice"}
      PROVE  RespondOK'
  BY <1>2 DEF RespondOK
<1>3. ASSUME NEW l, Raises("measure", l) PROVE RespondOK' /\ (Based' => Based)
  BY <1>0, <1>3, RaisesAlice DEF RespondOK, Based, Committed, Tasks
<1>4. ASSUME NEW l, Raises("measure", l), ~ResultSent PROVE RespondOK' /\ AliceBased'
  BY <1>0, <1>1, <1>3, <1>4, TaskBasis
<1>5. CASE Concludes /\ Based /\ ~ResultSent
  <2>1. task'["measure"] \in {"loop", "resume", "off"}
    BY <1>0, <1>5 DEF Concludes, Goto, Sends
  <2> QED BY <1>0, <1>1, <1>2, <1>5, <2>1, TaskBasis
<1>6. CASE GuardFailed
  <2>1. task'["measure"] = "off" /\ task'["burst"] = task["burst"] /\ ~ResultSent
        /\ guard' # "verified" /\ (gate'["alice"] = "ACTIVE" => gate["alice"] = "ACTIVE")
    BY <1>0, <1>6 DEF GuardFailed, Goto, Restricts, Tasks, ResultSent
  <2> QED BY <1>0, <1>1, <1>2, <2>1, TaskBasis DEF Based, Committed
<1>7. CASE LoopHead
  <2>1. task'["measure"] \in {"off", "sleep"} /\ task'["burst"] = task["burst"] /\ ~ResultSent
        /\ UNCHANGED <<guard, gate>>
    BY <1>0, <1>7 DEF LoopHead, Goto, core, Tasks, ResultSent
  <2> QED BY <1>0, <1>1, <1>2, <2>1, TaskBasis DEF Based, Committed
<1>8. CASE (Heartbeat \/ PingSent) /\ ~Raises("measure", link)
  <2>1. task'["measure"] \in {"loop", "ping", "pong"} /\ task'["burst"] = task["burst"] /\ ~ResultSent
        /\ UNCHANGED <<guard, gate>>
    BY <1>0, <1>8 DEF Heartbeat, PingSent, Sends, Goto, core, Tasks, ResultSent
  <2> QED BY <1>0, <1>1, <1>2, <2>1, TaskBasis DEF Based, Committed
<1>9. CASE (Heartbeat \/ PingSent) /\ Raises("measure", link)
  BY <1>4, <1>9 DEF Heartbeat, PingSent, ResultSent
<1>10. CASE HeartbeatStops \/ AssessRotates
  <2>1. Raises("measure", link) /\ ~ResultSent
    BY <1>10 DEF HeartbeatStops, AssessRotates, AtAssess, ResultSent
  <2> QED BY <1>4, <2>1
<1>11. CASE Conclude
  BY <1>5, <1>11 DEF Conclude, Based, Committed, ResultSent
<1>12. CASE AssessKeeps
  BY <1>5, <1>12 DEF AssessKeeps, AtAssess, Based, Committed, ResultSent
<1>13. CASE AssessVerifies
  <2>1. ~ResultSent
    BY <1>13 DEF AssessVerifies, AtAssess, ResultSent
  <2>2. CASE Raises("measure", link)
    BY <1>4, <2>1, <2>2
  <2>3. CASE /\ BeginVerification("alice", ids + 1, guard = "verified") /\ guard' = guard
             /\ asked' = [id |-> ids + 1, recovery |-> guard = "verified"]
             /\ Sends("measure", "request", Msg("verify_request", ids + 1, guard = "verified"), link)
    <3>1. task'["measure"] = "request" /\ task'["burst"] = task["burst"]
      BY <1>0, <2>3 DEF Sends, Goto, Tasks
    <3>2. gate'["alice"] = "VERIFYING" /\ dual'["alice"].id = ids + 1
      BY <1>0, <2>3 DEF BeginVerification, NewDual
    <3>3. RespondOK'
      BY <2>3, <3>1, <3>2 DEF RespondOK
    <3>4. Based' => Based
      BY <2>3, <3>1, <3>2 DEF Based, Committed
    <3> QED BY <1>0, <1>1, <2>1, <3>3, <3>4, TaskBasis
  <2> QED BY <1>13, <2>2, <2>3, Zenon DEF AssessVerifies
<1>14. CASE RequestSent
  <2>1. ~ResultSent
    BY <1>14 DEF RequestSent, ResultSent
  <2>2. CASE Goto("measure", "ready") /\ UNCHANGED <<core, via, asked>>
    <3>1. task'["measure"] = "ready" /\ task'["burst"] = task["burst"]
          /\ UNCHANGED <<gate, guard, dual, asked>>
      BY <1>0, <2>2 DEF Goto, core, Tasks
    <3>2. RespondOK'
      BY <1>14, <3>1 DEF RespondOK, RequestSent, AInv
    <3>3. Based' => Based
      BY <3>1 DEF Based, Committed
    <3> QED BY <1>0, <1>1, <2>1, <3>2, <3>3, TaskBasis
  <2> QED BY <1>4, <1>14, <2>1, <2>2 DEF RequestSent
<1>15. CASE BothDecided
  <2>1. ~ResultSent
    BY <1>15 DEF BothDecided, ResultSent
  <2>2. CASE /\ dual["alice"].ready = "yes" /\ UNCHANGED <<gate, guard, asked>>
             /\ Sends("measure", "result", Msg("verification_result", asked.id, asked.recovery), link)
    <3>1. task'["measure"] = "result" /\ task'["burst"] = task["burst"]
      BY <1>0, <2>2 DEF Sends, Goto, Tasks
    <3>2. asked.id = dual["alice"].id /\ dual["alice"].id \in Both(matched)
      BY <1>0, <1>15, <2>2 DEF BothDecided, AInv, RespondOK, AnswersOK, HonestDual
    <3>3. matched' = matched
      BY <1>0, <2>1, TaskBasis
    <3>4. RespondOK'
      BY <2>2, <3>1, <3>2, <3>3 DEF RespondOK
    <3>5. Based' => Based
      BY <2>2, <3>1 DEF Based, Committed
    <3> QED BY <1>0, <1>1, <2>1, <3>4, <3>5, TaskBasis
  <2> QED BY <1>4, <1>15, <2>1, <2>2, Zenon DEF BothDecided
<1>16. CASE RespondTimesOut /\ ~ResultSent
  BY <1>4, <1>16 DEF RespondTimesOut
<1>17. CASE ResultSent
  <2>1. asked.id \in Both(matched) /\ matched' = matched
    BY <1>17 DEF ResultSent, AInv, RespondOK, TaskStep
  <2>2. CASE SendLost("measure") /\ Raises("measure", link) /\ UNCHANGED <<basis, approved>>
    BY <1>1, <1>3, <2>1, <2>2
  <2>3. CASE ~(SendLost("measure") /\ Raises("measure", link) /\ UNCHANGED <<basis, approved>>)
    <3>1. basis' = [basis EXCEPT !["alice"] =
                      [id |-> asked.id, on |-> via["measure"], recovery |-> asked.recovery]]
      BY <1>17, <2>3, Zenon DEF ResultSent
    <3>2. basis'["alice"].id = asked.id
      BY <1>0, <3>1 DEF HistOK
    <3>3. AliceBased'
      BY <2>1, <3>2 DEF AliceBased
    <3>4. CASE Goto("measure", "conclude")
      BY <1>0, <1>2, <3>3, <3>4 DEF Goto
    <3>5. CASE asked' = asked /\ Sends("measure", "notice", Notice("reconnect"), link)
      <4>1. task'["measure"] = "notice" /\ asked' = asked
        BY <1>0, <3>5 DEF Sends, Goto
      <4> QED BY <2>1, <3>3, <4>1 DEF RespondOK
    <3>6. CASE Raises("measure", link)
      BY <1>3, <3>3, <3>6
    <3> QED BY <1>17, <2>3, <3>4, <3>5, <3>6, Zenon DEF ResultSent
  <2> QED BY <2>2, <2>3
<1>18. CASE NoticeSent
  <2>1. ~ResultSent /\ Based
    BY <1>18 DEF NoticeSent, ResultSent, Based, Committed
  <2>2. CASE Goto("measure", "close")
    <3>1. task'["measure"] = "close"
      BY <1>0, <2>2 DEF Goto
    <3> QED BY <1>0, <1>1, <1>2, <2>1, <3>1, TaskBasis
  <2> QED BY <1>4, <1>18, <2>1, <2>2, Zenon DEF NoticeSent
<1> QED
    BY <1>4, <1>6, <1>7, <1>8, <1>9, <1>10, <1>11, <1>12, <1>13, <1>14, <1>15, <1>16, <1>17, <1>18
    DEF MeasureStep

(* recover and the burst, on either task's behalf                             *)
LEMMA RecoveryAInv ==
  ASSUME IType, AInv, NEW t \in Tasks, TaskWorks(t), ~MeasureStep
  PROVE  RespondOK' /\ AliceBased'
<1>0. /\ EndpointOK /\ CoreOK /\ TaskOK /\ "alice" \in Role /\ "measure" \in Tasks /\ "burst" \in Tasks
      /\ "measure" # "burst" /\ t \in {"measure", "burst"}
      /\ dual \in [Role -> Dual] /\ task \in [Tasks -> Places]
  BY TypeParts DEF IType, EndpointOK, AliceOK, Role, Tasks, CoreOK, TaskOK
<1>1. ~ResultSent
  BY DEF MeasureStep
<1>2. AliceBased'
  <2>1. Based
    <3>1. task[t] # "off"
      BY TaskIsOn
    <3>2. t = "measure" => task[t] \in Committed
      BY <1>0 DEF TaskWorks, RecoveryStep, RecoverBegins, ProofSent, Recovered, Resumed, Redialled,
          Reconnected,
         RedialFails, EstablishFails, Committed
    <3> QED BY <1>0, <3>1, <3>2 DEF Based
  <2> QED BY <1>1, <2>1, TaskBasis DEF AInv, AliceBased
<1>3. RespondOK'
  <2>1. matched' = matched
    BY <1>1, TaskBasis
  <2>2. ASSUME NEW l, Raises(t, l) PROVE RespondOK'
    <3>1. CASE t = "measure"
      BY <2>2, <3>1, RaisesAlice DEF RespondOK
    <3>2. CASE t = "burst"
      BY <1>0, <2>1, <2>2, <3>2, RaisesAlice DEF RespondOK, AInv
    <3> QED BY <1>0, <3>1, <3>2
  <2>3. ASSUME UNCHANGED <<dual, asked>>,
               task' = task \/ \E pc \in {"establish", "proof", "confirm", "conclude", "resume", "next", "loop",
                                          "off", "demo", "close"} : task' = [task EXCEPT ![t] = pc]
        PROVE  RespondOK'
    BY <1>0, <2>1, <2>3 DEF RespondOK, AInv
  <2>4. CASE RecoveryStep(t) \/ (BurstStep /\ t = "burst")
    BY <1>0, <2>2, <2>3, <2>4 DEF RecoveryStep, RecoverBegins, ProofSent, Recovered, Resumed,
        BurstStep, BurstNext,
       BurstReconnects, core, Goto, Sends
  <2>5. CASE Redialled(t) \/ RedialFails(t)
    BY <2>2, <2>3, <2>5 DEF Redialled, Reconnected, RedialFails, EstablishFails, Sends, Goto
  <2> QED BY <2>4, <2>5 DEF TaskWorks
<1> QED BY <1>2, <1>3

(* Every step of Alice keeps her part.                                        *)
LEMMA AliceAInv ==
  ASSUME IType, AnswersOK, AInv, [Next]_vars, AliceStep
  PROVE  AInv'
<1>0. /\ EndpointOK /\ CoreOK /\ TaskOK /\ HistOK /\ CommandOK /\ "alice" \in Role /\ "measure" \in Tasks
      /\ "burst" \in Tasks /\ Tasks = {"measure", "burst"} /\ gate \in [Role -> State] /\ cmd \in [Role -> Commands]
      /\ dual \in [Role -> Dual] /\ task \in [Tasks -> Places] /\ basis \in [Role -> Bases]
      /\ Both(matched) \subseteq Both(matched')
  BY TypeParts, NextMatched DEF IType, EndpointOK, AliceOK, Role, Tasks, CoreOK, TaskOK, CommandOK,
      HistOK, Both
<1>1. CASE OwnStep("alice")
  BY <1>1, OwnStepAInv
<1>2. ASSUME NEW t \in Tasks, TaskWorks(t)
      PROVE  AInv'
  <2>1. RespondOK' /\ AliceBased'
    BY <1>2, MeasureAInv, RecoveryAInv
  <2>2. IdleOK'
    BY <1>2, TaskIsOn, TaskRuns, TaskWorking, WorkingIdle DEF AInv
  <2> QED BY <2>1, <2>2 DEF AInv
<1>3. CASE Measures \/ Replaces
  BY <1>0, <1>2, <1>3 DEF Measures, Replaces, TaskWorks
<1>4. CASE Connects
  <2>1. /\ gate["alice"] \in {"LOCKED", "CLOSED"} \/ guard = "none"
        /\ gate' = [gate EXCEPT !["alice"] = "CONNECTING"]
        /\ UNCHANGED <<task, guard, asked, dual, basis, matched>>
    BY <1>4 DEF Connects, Connect, aliceVars, hist
  <2>2. gate'["alice"] = "CONNECTING" /\ \A t \in Tasks : task[t] = "off"
    BY <1>0, <2>1 DEF AInv, IdleOK, Idle
  <2>3. Based' => Based
    BY <2>1, <2>2 DEF Based
  <2> QED BY <2>1, <2>2, <2>3, BasedStays DEF AInv, RespondOK, IdleOK
<1>5. CASE Bursts
  <2>1. /\ cmd["alice"].pc = "idle" /\ gate["alice"] = "ACTIVE" /\ task' = [task EXCEPT !["burst"] = "wait"]
        /\ UNCHANGED <<cmd, gate, guard, asked, dual, basis, matched>>
    BY <1>5 DEF Bursts, StartBurst, Goto, endpointVars, core, hist
  <2>2. task'["measure"] = task["measure"] /\ Based /\ ~Idle /\ guard # "none"
    BY <1>0, <2>1 DEF Based, Idle, AInv, IdleOK
  <2>3. AliceBased'
    BY <2>1, <2>2 DEF AInv, AliceBased
  <2>4. IdleOK'
    BY <2>1, <2>2 DEF Idle, IdleOK
  <2> QED BY <2>1, <2>2, <2>3, <2>4 DEF AInv, RespondOK
<1>6. CASE Dialled
  <2>1. PICK c : Connected(c)
    BY <1>6 DEF Dialled
  <2>2. \A t \in Tasks : task[t] = "off"
    BY <2>1 DEF Connected, AInv, IdleOK, Idle
  <2>3. /\ task'["measure"] = "assess" /\ task'["burst"] = "off"
        /\ gate'["alice"] = "VERIFYING" /\ guard' = "unverified" /\ cmd'["alice"].pc = "idle"
    BY <1>0, <2>1, <2>2 DEF Connected, Goto, NewGuard, NoCommand
  <2> QED BY <2>3 DEF AInv, RespondOK, IdleOK, Idle, AliceBased, Based, Committed
<1>7. CASE DialFails
  <2>1. cmd["alice"].pc = "connecting" /\ UNCHANGED <<task, asked, basis, matched>>
    BY <1>7 DEF DialFails, ConnectFails, ConnectAbandoned, aliceVars, hist
  <2>2. \A t \in Tasks : task[t] = "off"
    BY <2>1 DEF AInv, IdleOK, Idle
  <2>3. /\ guard' \in {guard, "unverified"} /\ gate'["alice"] \in {gate["alice"], "RESTRICTED"}
        /\ (guard' = "none" => guard = "none")
    BY <1>0, <1>7 DEF DialFails, ConnectFails, ConnectAbandoned, Restricts, core
  <2>4. Based' => Based
    BY <2>1, <2>3 DEF Based
  <2>5. IdleOK'
    BY <2>1, <2>2, <2>3 DEF AInv, IdleOK
  <2> QED BY <1>0, <2>1, <2>2, <2>4, <2>5, BasedStays DEF AInv, RespondOK
<1>8. CASE AliceDisconnectBegins
  <2>1. /\ task' = [t \in Tasks |-> "off"] /\ guard' \in {guard, "unverified"} /\ UNCHANGED <<gate, basis, matched>>
        /\ (guard' = "none" => guard = "none")
    BY <1>8 DEF AliceDisconnectBegins, hist
  <2>2. \A t \in Tasks : task'[t] = "off"
    BY <2>1
  <2>3. Based' => Based
    BY <1>0, <2>1, <2>2 DEF Based, Committed
  <2> QED BY <1>0, <2>1, <2>2, <2>3, BasedStays DEF AInv, RespondOK, IdleOK
<1> QED BY <1>1, <1>3, <1>4, <1>5, <1>6, <1>7, <1>8 DEF AliceStep

(* Every step keeps it: no step of Bob touches what it is about.              *)
LEMMA NextAInv ==
  ASSUME IType, AnswersOK, AInv, [Next]_vars
  PROVE  AInv'
<1>0. /\ TypeOK /\ SeatOK /\ Wires(link, Spoken) /\ Held(reader, Spoken) /\ "alice" \in Role
      /\ Both(matched) \subseteq Both(matched')
  BY NextMatched DEF IType, Role, Both
<1>1. CASE BobStep \/ UNCHANGED vars
  <2>1. /\ UNCHANGED aliceVars /\ gate'["alice"] = gate["alice"] /\ dual'["alice"] = dual["alice"]
        /\ guard' = guard /\ basis'["alice"] = basis["alice"] /\ cmd'["alice"] = cmd["alice"]
    <3>1. CASE BobStep
      BY <1>0, <3>1, BobStepStill DEF Still, CoreStill, RestStill
    <3>2. CASE UNCHANGED vars
      BY <3>2 DEF vars, endpointVars, core, hist
    <3> QED BY <1>1, <3>1, <3>2
  <2>2. UNCHANGED <<task, asked>>
    BY <2>1 DEF aliceVars
  <2>3. RespondOK' /\ IdleOK'
    BY <1>0, <2>1, <2>2 DEF AInv, RespondOK, IdleOK, Idle
  <2>4. Based' => Based
    BY <2>1, <2>2 DEF Based
  <2> QED BY <2>1, <2>3, <2>4, BasedStays DEF AInv
<1> QED BY <1>1, AliceAInv, NextIsOf

-------------------------------------------------------------------------------
(* Bob's side                                                                 *)
Trusts == gate["bob"] \in {"ACTIVE", "RECONNECTING"} \/ resume # NoResume
(* What that rests on was matched by both.                                    *)
BobBased == Trusts => basis["bob"].id \in Both(matched)
(* A server that waits for its peer, or is down, keeps no approval.           *)
BobFree == gate["bob"] = "CONNECTING" \/ ~server => resume = NoResume
(* Bob's part of the invariant                                                *)
BInv == BobBased /\ BobFree

(* A step that opens nothing of Bob's keeps BobBased.                         *)
LEMMA TrustStays ==
  ASSUME IType, [Next]_vars, BInv, basis'["bob"] = basis["bob"], Trusts' => Trusts,
         \/ resume' = NoResume
         \/ server' /\ gate'["bob"] # "CONNECTING"
         \/ resume' = resume /\ server' = server /\ gate'["bob"] = gate["bob"]
  PROVE  BInv'
BY NextMatched DEF BInv, BobBased, BobFree, Both, Role

(* Each of Bob's handlers                                                     *)
LEMMA BobHandleBInv ==
  ASSUME IType, AnswersOK, BInv, [Next]_vars, NEW m \in Message, NEW l, m.type \notin {"none", "pong"},
         BobHandle(m, l), server, server' = server
  PROVE  BInv'
<1>0. /\ EndpointOK /\ CoreOK /\ "bob" \in Role /\ gate \in [Role -> State] /\ basis \in [Role -> Bases]
      /\ dual["bob"] \in Dual /\ resume \in Resumes /\ "alice" \in Role
  BY TypeParts DEF IType, EndpointOK, CoreOK, HistOK, Role
<1>1. ASSUME NEW k, Restricts("bob", k), basis' = basis PROVE BInv'
  <2>1. resume' = NoResume /\ gate'["bob"] \in {gate["bob"], "RESTRICTED"}
    BY <1>0, <1>1 DEF Restricts
  <2> QED BY <1>0, <1>1, <2>1, TrustStays DEF Trusts
<1>2. CASE UNCHANGED <<gate, resume, basis>>
  BY <1>2, TrustStays DEF Trusts
<1>3. CASE (Refuse("bob", l) \/ ReaderRaises("bob", l)) /\ basis' = basis
  BY <1>1, <1>2, <1>3 DEF Refuse, ReaderRaises
<1>4. ASSUME Refuse("bob", l) PROVE BInv'
  BY <1>3, <1>4 DEF Refuse
<1>5. CASE BobVerifyRequest(m, l)
  <2>1. CASE gate' = [gate EXCEPT !["bob"] = "VERIFYING"] /\ UNCHANGED resume /\ basis' = basis
    <3>1. gate'["bob"] = "VERIFYING"
      BY <1>0, <2>1
    <3>2. Trusts' => Trusts
      BY <2>1, <3>1 DEF Trusts
    <3> QED BY <2>1, <3>1, <3>2, TrustStays
  <2> QED BY <1>4, <1>5, <2>1 DEF BobVerifyRequest, BeginVerification, hist
<1>6. CASE HandleResponse("bob", m, l)
  BY <1>1, <1>2, <1>4, <1>6, Zenon DEF HandleResponse, hist
<1>7. CASE BobResult(m, l)
  <2>1. CASE /\ ResultAgrees(m) /\ CanMove(gate["bob"], AfterResult(m))
    <3>1. /\ gate' = [gate EXCEPT !["bob"] = AfterResult(m)]
          /\ basis' = [basis EXCEPT !["bob"] = [id |-> m.id, on |-> conn["bob"], recovery |-> m.flag]]
          /\ matched' = matched
      BY <1>7, <2>1, Zenon DEF BobResult
    <3>2. gate'["bob"] \in {"ACTIVE", "RECONNECTING"} /\ basis'["bob"].id = m.id
      BY <1>0, <3>1 DEF AfterResult
    <3>3. m.id \in Both(matched)
      BY <1>0, <2>1 DEF ResultAgrees, AnswersOK, HonestDual, Both
    <3> QED BY <1>0, <3>1, <3>2, <3>3 DEF BInv, BobBased, BobFree
  <2>2. CASE /\ resume # NoResume /\ gate["bob"] = "VERIFYING" /\ Proves(conn["bob"], l)
             /\ UNCHANGED gate /\ basis' = basis
    <3>1. Trusts' => Trusts
      BY <2>2 DEF Trusts
    <3> QED BY <2>2, <3>1, TrustStays
  <2> QED BY <1>4, <1>7, <2>1, <2>2 DEF BobResult, hist
<1>8. CASE BobBurst(m, l)
  <2>1. CASE gate["bob"] = "ACTIVE" /\ gate' = [gate EXCEPT !["bob"] = "RECONNECTING"] /\ basis' = basis
    <3>1. gate'["bob"] = "RECONNECTING" /\ (Trusts' => Trusts)
      BY <1>0, <2>1 DEF Trusts
    <3> QED BY <2>1, <3>1, TrustStays
  <2> QED BY <1>4, <1>8, <2>1 DEF BobBurst, hist
<1>9. CASE BobPing(l) \/ BobReconnect(l)
  BY <1>2, <1>3, <1>4, <1>9 DEF BobPing, BobReconnect, hist
<1>10. CASE BobReady(l)
  <2>1. CASE resume.confirmed /\ resume' = NoResume /\ basis' = basis
    <3>1. Trusts
      BY <2>1 DEF Trusts, NoResume
    <3> QED BY <2>1, <3>1, TrustStays
  <2> QED BY <1>4, <1>10, <2>1 DEF BobReady, hist
<1>11. CASE HandleShutdown("bob", l)
  BY <1>1, <1>11 DEF HandleShutdown, hist
<1> QED BY <1>5, <1>6, <1>7, <1>8, <1>9, <1>10, <1>11, BobHandleCases

(* Every step keeps Bob's part.                                               *)
LEMMA NextBInv ==
  ASSUME IType, AnswersOK, BInv, [Next]_vars
  PROVE  BInv'
<1>0. /\ TypeOK /\ SeatOK /\ Wires(link, Spoken) /\ Held(reader, Spoken) /\ EndpointOK /\ CoreOK
      /\ "bob" \in Role /\ "alice" \in Role /\ gate \in [Role -> State] /\ basis \in [Role -> Bases]
  BY TypeParts DEF IType, EndpointOK, CoreOK, HistOK, Role
<1>1. ASSUME gate'["bob"] = gate["bob"], resume' = resume, basis'["bob"] = basis["bob"], server' = server
      PROVE  BInv'
  BY <1>1, TrustStays DEF Trusts
<1>2. CASE UNCHANGED vars
  BY <1>1, <1>2 DEF vars, endpointVars, core, hist, bobVars
<1>3. CASE AliceStep
  BY <1>0, <1>1, <1>3, AliceStepStill DEF Still, CoreStill, RestStill, bobVars, Established, Arrives
<1>4. CASE Listens
  <2>1. gate'["bob"] \in {"CONNECTING", "CLOSED"} /\ resume' = resume /\ ~server /\ basis' = basis
    BY <1>0, <1>4 DEF Listens, StartServer, hist
  <2>2. resume' = NoResume
    BY <2>1 DEF BInv, BobFree
  <2> QED BY <2>1, <2>2, TrustStays DEF Trusts
<1>5. CASE BobDisconnectBegins
  BY <1>1, <1>5 DEF BobDisconnectBegins, SendShutdown, bobVars, hist
<1>6. ASSUME NEW c \in Conns, Admits(c)
      PROVE  BInv'
  <2>0. server /\ server' = server
    BY <1>0, <1>6 DEF Admits, Accept, Admit, CandidateEnds, SeatOK
  <2>1. CASE UNCHANGED <<gate, resume, basis>>
    BY <1>1, <2>0, <2>1
  <2>2. CASE AttachBob(c, "recv") /\ gate["bob"] = "CONNECTING" /\ UNCHANGED resume
    <3>1. resume' = NoResume
      BY <2>2 DEF BInv, BobFree
    <3>2. gate'["bob"] = "VERIFYING"
      BY <1>0, <2>2 DEF AttachBob
    <3> QED BY <3>1, <3>2 DEF BInv, BobBased, BobFree, Trusts
  <2>3. CASE AttachBob(c, "ready") /\ gate["bob"] = "RECONNECTING" /\ basis' = basis
    <3>1. gate'["bob"] = "VERIFYING" /\ Trusts
      BY <1>0, <2>3 DEF AttachBob, Trusts
    <3> QED BY <2>0, <2>3, <3>1, TrustStays
  <2>4. CASE Accept(c)
    BY <2>1, <2>2, <2>4, Zenon DEF Accept
  <2>5. CASE Admit(c)
    BY <2>1, <2>3, <2>5, Zenon DEF Admit, Admissible, hist
  <2>6. CASE CandidateEnds(c)
    BY <2>1, <2>6 DEF CandidateEnds, hist
  <2> QED BY <1>6, <2>4, <2>5, <2>6 DEF Admits
<1>7. CASE OwnStep("bob")
  <2>1. ASSUME NEW k, Restricts("bob", k), basis' = basis PROVE BInv'
    <3>1. resume' = NoResume /\ gate'["bob"] \in {gate["bob"], "RESTRICTED"}
      BY <1>0, <2>1 DEF Restricts
    <3> QED BY <1>0, <2>1, <3>1, TrustStays DEF Trusts
  <2>2. CASE Answers("bob")
    <3>1. PICK id \in 1 .. ids, match \in BOOLEAN : Confirm("bob", id, match)
      BY <2>2 DEF Answers
    <3>2. basis' = basis /\ server' = server
      BY <2>2, <3>1 DEF Answers, OfEither, bobVars, Confirm
    <3>3. Restricts("bob", link) \/ UNCHANGED <<gate, resume>>
      BY <3>1, Zenon DEF Confirm
    <3> QED BY <1>1, <2>1, <3>2, <3>3
  <2>3. CASE BobDisconnectEnds
    <3>1. gate'["bob"] = "CLOSED" /\ resume' = NoResume /\ basis' = basis
      BY <1>0, <2>3 DEF BobDisconnectEnds, DisconnectEnds, hist
    <3> QED BY <3>1, TrustStays DEF Trusts
  <2>4. CASE (CommandStep("bob") \/ TabCloses("bob") \/ Timeouts("bob")) /\ ~BobDisconnectEnds
    <3>1. basis' = basis /\ server' = server
      BY <2>4 DEF CommandStep, Decide, TabCloses, ConfirmAbandoned, DisconnectAbandoned, Timeouts,
          VerificationEnds,
         ReservationExpires, OfEither, OfBob, bobVars, hist
    <3>2. Restricts("bob", link) \/ UNCHANGED <<gate, resume>>
      BY <2>4 DEF CommandStep, Decide, TabCloses, ConfirmAbandoned, DisconnectAbandoned, Timeouts,
          VerificationEnds,
         ReservationExpires, core
    <3> QED BY <1>1, <2>1, <3>1, <3>2
  <2>5. CASE LinkFails("bob", conn["bob"]) /\ OfEither
    BY <1>1, <2>5 DEF LinkFails, OfEither, bobVars, hist
  <2>6. CASE (ReaderSeesClose("bob") \/ ReaderSent("bob") \/ EndOfStream("bob")) /\ OfEither
    <3>1. basis' = basis /\ server' = server
      BY <2>6 DEF ReaderSeesClose, ReaderSent, EndOfStream, LinkFails, OfEither, bobVars, hist
    <3>2. Restricts("bob", link) \/ UNCHANGED <<gate, resume>>
      BY <2>6 DEF ReaderSeesClose, ReaderSent, EndOfStream, LinkFails, ReaderRaises, core
    <3> QED BY <1>1, <2>1, <3>1, <3>2
  <2>7. CASE ProofHandled
    BY <1>1, <2>7 DEF ProofHandled, core, bobVars, hist
  <2>8. CASE BobReceives \/ BobGetsLock
    <3>1. PICK m, l : Delivered("bob", m, l) /\ (BobHandle(m, l) \/ Postpones("bob", l))
      BY <2>8, BobReadsOne
    <3>2. m \in Message /\ m.type \notin {"none", "pong"}
      BY <3>1, DeliveredSpoken
    <3>3. server /\ server' = server
      BY <1>0, <2>8, <3>1, BobReadsOne DEF SeatOK, Delivered, bobVars
    <3>4. CASE Postpones("bob", l)
      BY <1>1, <3>3, <3>4 DEF Postpones, hist
    <3> QED BY <3>1, <3>2, <3>3, <3>4, BobHandleBInv
  <2> QED BY <1>7, <2>2, <2>3, <2>4, <2>5, <2>6, <2>7, <2>8 DEF OwnStep, Reads, BobReads
<1> QED BY <1>2, <1>3, <1>4, <1>5, <1>6, <1>7, NextIsOf DEF BobStep, Admission

-------------------------------------------------------------------------------
(* The inductive invariant                                                    *)
IBoth == IType /\ AnswersOK /\ AInv /\ BInv

(* It holds before anything has happened.                                     *)
LEMMA InitIBoth == Init => IBoth
<1> SUFFICES ASSUME Init PROVE IBoth
  OBVIOUS
<1>1. "alice" \in Role /\ "bob" \in Role /\ Conns \subseteq Refs
  BY DEF Role, Conns, Refs
<1>2. AnswersOK
  <2>1. \A c \in Conns, r \in Role : link[c].wire[r] = <<>>
    BY DEF Init, EndpointInit
  <2>2. \A c \in Conns, r \in Role : <<>> \in Seq(Honest(matched)[c][r])
    OBVIOUS
  <2>3. Wires(link, Honest(matched)) /\ Held(reader, Honest(matched))
    BY <2>1, <2>2 DEF Wires, Held, Init, EndpointInit, NoReader
  <2>4. \A r \in Role : HonestDual(dual[r], matched)
    BY HonestBegins DEF Init, EndpointInit
  <2> QED BY <2>3, <2>4 DEF AnswersOK, HonestCommand, Init, EndpointInit, NoCommand
<1>3. AInv
  BY <1>1 DEF Init, EndpointInit, AliceInit, AInv, RespondOK, IdleOK, AliceBased, Based, Committed,
      Tasks
<1>4. BInv
  BY <1>1 DEF Init, EndpointInit, BInv, BobBased, BobFree, Trusts
<1> QED BY <1>2, <1>3, <1>4, InitIType DEF IBoth

(* No gate opens on one person's word: what an open gate rests on is a        *)
(* request of this session that both people answered MATCH, whatever the two  *)
(* of them click, and whichever frames, connections and tabs are lost.        *)
THEOREM BothMatched == Spec => []BothPeopleMatched
<1>1. IBoth /\ [Next]_vars => IBoth'
  BY NextIType, NextAnswers, NextAInv, NextBInv DEF IBoth
<1>2. IBoth => BothPeopleMatched
  <2> SUFFICES ASSUME IBoth, NEW r \in Role, gate[r] = "ACTIVE"
               PROVE  basis[r].id \in Both(matched)
    BY DEF BothPeopleMatched, Both
  <2>1. CASE r = "alice"
    BY <2>1 DEF IBoth, AInv, AliceBased, Based
  <2>2. CASE r = "bob"
    BY <2>2 DEF IBoth, BInv, BobBased, Trusts
  <2> QED BY <2>1, <2>2 DEF Role
<1> QED BY <1>1, <1>2, InitIBoth, PTL DEF Spec
=============================================================================
