------------------------------ MODULE BrowserProofs ------------------------------
(***************************************************************************)
(* The bridge to the local page, for any number of tabs, connections and    *)
(* retries and any bound of the queues: types and bounds, that no state is  *)
(* lost on the way to a page, and that every step of Browser is a step of   *)
(* BrowserView or changes nothing a person sees.  That the page catches up  *)
(* in the end is a matter of fairness, and of the model checker.            *)
(*                                                                          *)
(* The invariant adds to the properties: no queued state is newer than the  *)
(* runtime's (QueueOK), a connection has one page (OneEach), and a page     *)
(* that has not been greeted yet misses nothing either (Covered).           *)
(***************************************************************************)
EXTENDS Browser, FiniteSetTheorems, SequenceTheorems, TLAPS

ConnState == [pc : {"free", "greeting", "serving", "ending", "restricting", "ghost"},
              queue : Seq(Event)]
PageState == [tab : {"away", "waiting", "joined", "lost"},
              ws : Conns \cup {NoConn}, retries : 0 .. Retries]

\* The last state that waits in the queue is v, or it asks for a new start.
Ends(queue, v) == \/ Resyncs(queue) # {}
                  \/ \E i \in States(queue) :
                        queue[i].data = v /\ \A j \in States(queue) : j <= i

\* A queue as it should be when the runtime's state is v.
QueueOK(queue, v) == /\ queue \in Seq(Event) /\ Len(queue) <= QueueBound
                     /\ \A i \in 1 .. Len(queue) : queue[i].data <= v

OneEach == \A p, q \in Pages : page[p].ws # NoConn /\ page[p].ws = page[q].ws => p = q

\* NothingLost, and the same of the connections that are not greeted yet.
Covered(c) ==
    conn[c].pc \in {"greeting", "serving"} =>
        \/ Ends(conn[c].queue, version)
        \/ /\ States(conn[c].queue) = {}
           /\ conn[c].pc = "serving" => \A p \in Viewers(c) : shown[p] = version

Quiet == \A c \in Conns : conn[c].pc # "restricting"

IInv == /\ TypeOK /\ OneEach
        /\ \A c \in Conns : QueueOK(conn[c].queue, version)
        /\ \A c \in Conns : conn[c].pc \in {"greeting", "serving"} \/ conn[c].queue = <<>>
        /\ Quiet => \A c \in Conns : Covered(c)
--------------------------------------------------------------------------------
(* Queues.                                                                  *)

LEMMA Events == /\ \A v \in Nat : State(v) \in Event
                /\ Resync \in Event /\ Failed \in Event
BY DEF State, Resync, Failed, Event

\* Publishing: the queue ends in the new state, and keeps its bound.
LEMMA PutEnds ==
    ASSUME NEW v \in Nat, NEW w \in Nat, w <= v, NEW queue, QueueOK(queue, w)
    PROVE  QueueOK(Put(queue, State(v)), v) /\ Ends(Put(queue, State(v)), v)
<1>1. queue \in Seq(Event) /\ Len(queue) \in Nat /\ Len(queue) <= QueueBound
      /\ QueueBound \in Nat \ {0}
    BY BrowserAssumption DEF QueueOK
<1>2. CASE Len(queue) >= QueueBound
    <2>1. Put(queue, State(v)) = <<Resync>> BY <1>2 DEF Put
    <2>2. <<Resync>> \in Seq(Event) /\ Len(<<Resync>>) = 1 /\ <<Resync>>[1] = Resync
        BY Events
    <2>3. Resync.event = "resync" /\ Resync.data = 0 BY DEF Resync
    <2>4. 1 \in Resyncs(<<Resync>>) BY <2>2, <2>3 DEF Resyncs
    <2> QED BY <1>1, <2>1, <2>2, <2>3, <2>4 DEF QueueOK, Ends
<1>3. CASE Len(queue) < QueueBound
    <2> DEFINE q == Append(queue, State(v))
               n == Len(queue) + 1
    <2>1. Put(queue, State(v)) = q BY <1>1, <1>3 DEF Put
    <2>2. State(v) \in Event BY Events
    <2>3. q \in Seq(Event) /\ Len(q) = n /\ q[n] = State(v)
          /\ \A i \in 1 .. Len(queue) : q[i] = queue[i]
        BY <1>1, <2>2, AppendProperties
    <2> HIDE DEF q
    <2>4. State(v).event = "state" /\ State(v).data = v BY DEF State
    <2>5. n \in Nat /\ n <= QueueBound /\ n > 0 BY <1>1, <1>3
    <2>6. \A i \in 1 .. n : q[i].data <= v
        <3>1. SUFFICES ASSUME NEW i \in 1 .. n PROVE q[i].data <= v OBVIOUS
        <3>2. CASE i = n BY <2>3, <2>4, <3>2
        <3>3. CASE i # n
            <4>1. i \in 1 .. Len(queue) BY <1>1, <3>3
            <4>2. queue[i].data <= w /\ queue[i] \in Event
                BY <1>1, <4>1, ElementOfSeq DEF QueueOK
            <4>3. queue[i].data \in Nat BY <4>2 DEF Event
            <4> QED BY <2>3, <4>1, <4>2, <4>3
        <3> QED BY <3>2, <3>3
    <2>7. n \in States(q) /\ \A j \in States(q) : j <= n
        BY <2>3, <2>4, <2>5 DEF States
    <2> QED BY <2>1, <2>3, <2>4, <2>5, <2>6, <2>7 DEF QueueOK, Ends
<1> QED BY <1>1, <1>2, <1>3

\* An error in the queue takes nothing away.
LEMMA ErrorKeeps ==
    ASSUME NEW v \in Nat, NEW queue, QueueOK(queue, v), Len(queue) < QueueBound
    PROVE  LET q == Append(queue, Failed) IN
           /\ QueueOK(q, v) /\ States(q) = States(queue)
           /\ Ends(queue, v) => Ends(q, v)
<1> DEFINE q == Append(queue, Failed)
           n == Len(queue) + 1
<1>1. queue \in Seq(Event) /\ Len(queue) \in Nat /\ QueueBound \in Nat
    BY BrowserAssumption DEF QueueOK
<1>2. q \in Seq(Event) /\ Len(q) = n /\ q[n] = Failed
      /\ \A i \in 1 .. Len(queue) : q[i] = queue[i]
    BY <1>1, Events, AppendProperties
<1> HIDE DEF q
<1>3. Failed.event = "error" /\ Failed.data = 0 BY DEF Failed
<1>4. \A i \in 1 .. n : i # n => i \in 1 .. Len(queue) BY <1>1
<1>5. n <= QueueBound /\ 1 .. Len(queue) \subseteq 1 .. n BY <1>1
<1>6. QueueOK(q, v) BY <1>2, <1>3, <1>4, <1>5 DEF QueueOK
<1>7. States(q) = States(queue) BY <1>2, <1>3, <1>4, <1>5 DEF States
<1>8. Resyncs(q) = Resyncs(queue) BY <1>2, <1>3, <1>4, <1>5 DEF Resyncs
<1>9. \A i \in States(queue) : q[i] = queue[i] BY <1>2 DEF States
<1> HIDE DEF n
<1> QED BY <1>6, <1>7, <1>8, <1>9 DEF Ends, q

\* Sending the first event: what is left ends as before, or was all of it.
LEMMA SentKeeps ==
    ASSUME NEW v \in Nat, NEW queue, QueueOK(queue, v), queue # <<>>,
           Head(queue).event # "resync"
    PROVE  /\ QueueOK(Tail(queue), v)
           /\ Head(queue) \in Event /\ Head(queue).data <= v
           /\ Ends(queue, v) => \/ Ends(Tail(queue), v)
                                \/ /\ States(Tail(queue)) = {}
                                   /\ Head(queue).event = "state" /\ Head(queue).data = v
           /\ States(queue) = {} => /\ States(Tail(queue)) = {}
                                    /\ Head(queue).event # "state"
<1> DEFINE q == Tail(queue)
           n == Len(queue)
<1>1. queue \in Seq(Event) /\ n \in Nat /\ n > 0 /\ QueueBound \in Nat
    BY BrowserAssumption, EmptySeq DEF QueueOK
<1>2. q \in Seq(Event) /\ Len(q) = n - 1 /\ \A i \in 1 .. Len(q) : q[i] = queue[i + 1]
    BY <1>1, HeadTailProperties
<1>3. Head(queue) = queue[1] /\ queue[1] \in Event BY <1>1, ElementOfSeq
<1> HIDE DEF q
<1>4. \A i \in 1 .. n - 1 : i + 1 \in 1 .. n BY <1>1
<1>5. 1 \in 1 .. n /\ n - 1 <= QueueBound /\ n - 1 <= n BY <1>1 DEF QueueOK
<1>6. \A i \in 1 .. n - 1 : q[i] = queue[i + 1] BY <1>2
<1>7. QueueOK(q, v) /\ Head(queue).data <= v
    BY <1>1, <1>2, <1>3, <1>4, <1>5, <1>6 DEF QueueOK
<1>8. \A i \in 1 .. n : i # 1 => i - 1 \in 1 .. n - 1 /\ (i - 1) + 1 = i BY <1>1
<1>9. \A i \in 1 .. n : i # 1 => q[i - 1] = queue[i] BY <1>6, <1>8
<1>10. \A i \in States(queue) : i # 1 => i - 1 \in States(q)
    BY <1>2, <1>8, <1>9 DEF States
<1>11. \A i \in Resyncs(queue) : i - 1 \in Resyncs(q)
    <2>1. 1 \notin Resyncs(queue) BY <1>3 DEF Resyncs
    <2> QED BY <1>2, <1>8, <1>9, <2>1 DEF Resyncs
<1>12. \A i \in States(q) : i + 1 \in States(queue) /\ i + 1 # 1 /\ i \in Nat
    BY <1>1, <1>2, <1>4, <1>6 DEF States
<1>13. ASSUME Ends(queue, v)
       PROVE  Ends(q, v) \/ (States(q) = {} /\ queue[1].event = "state" /\ queue[1].data = v)
    <2>1. CASE Resyncs(queue) # {} BY <1>11, <2>1 DEF Ends
    <2>2. CASE \E i \in States(queue) : queue[i].data = v /\ \A j \in States(queue) : j <= i
        <3>1. PICK i \in States(queue) : queue[i].data = v /\ \A j \in States(queue) : j <= i
            BY <2>2
        <3>2. i \in 1 .. n BY <3>1 DEF States
        <3>3. CASE i = 1
            <4>1. States(q) = {}
                <5>1. SUFFICES ASSUME NEW j \in States(q) PROVE FALSE OBVIOUS
                <5>2. j + 1 \in States(queue) /\ j + 1 # 1 /\ j \in Nat BY <1>12
                <5>3. j + 1 <= 1 BY <3>1, <3>3, <5>2
                <5> QED BY <5>2, <5>3
            <4> QED BY <3>1, <3>3, <4>1 DEF States
        <3>4. CASE i # 1
            <4>1. i - 1 \in States(q) BY <1>10, <3>4
            <4>2. q[i - 1].data = v BY <1>9, <3>1, <3>2, <3>4
            <4>3. \A j \in States(q) : j <= i - 1 BY <1>12, <3>1, <3>2
            <4> QED BY <4>1, <4>2, <4>3 DEF Ends
        <3> QED BY <3>3, <3>4
    <2> QED BY <1>13, <2>1, <2>2 DEF Ends
<1>14. ASSUME States(queue) = {} PROVE States(q) = {} /\ queue[1].event # "state"
    BY <1>5, <1>12, <1>14 DEF States
<1> QED BY <1>3, <1>7, <1>13, <1>14 DEF q
--------------------------------------------------------------------------------
(* The state.                                                               *)

\* The connections' part of the invariant, for queues cn when v is the state.
ConnsOK(cn, v) ==
    /\ cn \in [Conns -> ConnState]
    /\ \A c \in Conns : QueueOK(cn[c].queue, v)
    /\ \A c \in Conns : cn[c].pc \in {"greeting", "serving"} \/ cn[c].queue = <<>>

PagesOK == /\ page \in [Pages -> PageState] /\ OneEach
           /\ shown \in [Pages -> Nat \cup {Gone, Blank}]
           /\ \A p \in Pages : (page[p].tab = "joined") = (page[p].ws # NoConn)
           /\ \A p \in Pages : (page[p].tab = "joined") = (shown[p] # Gone)

Bound == Cardinality(Clients) <= MaxClients

LEMMA Parts ==
    IInv <=> /\ version \in Nat /\ pending \in BOOLEAN
             /\ ConnsOK(conn, version) /\ PagesOK /\ Bound
             /\ Quiet => \A c \in Conns : Covered(c)
BY DEF IInv, TypeOK, ConnsOK, PagesOK, QueueOK, ConnState, PageState, Bound

LEMMA PartsNext ==
    /\ version' \in Nat /\ pending' \in BOOLEAN
    /\ ConnsOK(conn', version') /\ PagesOK' /\ Bound'
    /\ Quiet' => \A c \in Conns : Covered(c)'
    => IInv'
BY DEF IInv, TypeOK, ConnsOK, PagesOK, QueueOK, ConnState, PageState, Bound

\* Fewer subscribers stay within the bound.
LEMMA FewerClients ==
    ASSUME Bound, Clients' \subseteq Clients PROVE Bound'
<1>1. IsFiniteSet(Clients) BY BrowserAssumption, FS_Subset DEF Clients
<1>2. Cardinality(Clients') <= Cardinality(Clients) /\ IsFiniteSet(Clients')
    BY <1>1, FS_Subset
<1>3. Cardinality(Clients') \in Nat /\ Cardinality(Clients) \in Nat
    BY <1>1, <1>2, FS_CardinalityType
<1> QED BY <1>2, <1>3, BrowserAssumption DEF Bound

LEMMA InitIInv == Init => IInv
<1>1. SUFFICES ASSUME Init PROVE IInv OBVIOUS
<1>2. Unused \in ConnState BY DEF Unused, ConnState
<1>3. QueueOK(<<>>, 0) BY BrowserAssumption DEF QueueOK
<1>4. conn = [c \in Conns |-> Unused] /\ version = 0 /\ pending = FALSE BY <1>1 DEF Init
<1>5. ConnsOK(conn, version) BY <1>2, <1>3, <1>4 DEF ConnsOK, Unused
<1>6. PagesOK BY <1>1, BrowserAssumption DEF Init, PagesOK, PageState, OneEach
<1>7. Bound
    <2>1. Clients = {} BY <1>4 DEF Clients, Unused
    <2> QED BY <2>1, FS_EmptySet, BrowserAssumption DEF Bound
<1>8. \A c \in Conns : Covered(c) BY <1>4 DEF Covered, Unused
<1> QED BY <1>4, <1>5, <1>6, <1>7, <1>8, Parts

\* A queue after a publication.
Published(cn, v) == [cn EXCEPT !.queue = Put(@, State(v))]

LEMMA PublishedOne ==
    ASSUME IInv, NEW c \in Conns, NEW v \in Nat, version <= v
    PROVE  LET cn == Published(conn[c], v) IN
           /\ cn \in ConnState /\ cn.pc = conn[c].pc
           /\ QueueOK(cn.queue, v) /\ Ends(cn.queue, v)
           /\ QueueOK(conn[c].queue, v)
<1>1. conn[c] \in ConnState /\ QueueOK(conn[c].queue, version) /\ version \in Nat
    BY Parts DEF ConnsOK
<1> DEFINE q == Put(conn[c].queue, State(v))
<1>2. QueueOK(q, v) /\ Ends(q, v) BY <1>1, PutEnds
<1>3. Published(conn[c], v) = [pc |-> conn[c].pc, queue |-> q]
    BY <1>1 DEF Published, ConnState
<1>4. q \in Seq(Event) BY <1>2 DEF QueueOK
<1> HIDE DEF q
<1>5. QueueOK(conn[c].queue, v)
    <2>1. \A i \in 1 .. Len(conn[c].queue) : conn[c].queue[i].data <= v
        <3>1. SUFFICES ASSUME NEW i \in 1 .. Len(conn[c].queue)
                       PROVE  conn[c].queue[i].data <= v
            OBVIOUS
        <3>2. conn[c].queue[i] \in Event /\ conn[c].queue[i].data <= version
            BY <1>1, ElementOfSeq DEF QueueOK
        <3>3. conn[c].queue[i].data \in Nat BY <3>2 DEF Event
        <3> QED BY <1>1, <3>2, <3>3
    <2> QED BY <1>1, <2>1 DEF QueueOK
<1> QED BY <1>1, <1>2, <1>3, <1>4, <1>5 DEF ConnState

\* Whatever is published reaches every subscriber's queue.
LEMMA PublishKeeps ==
    ASSUME IInv, Publish(version + 1), version' = version + 1, pending' \in BOOLEAN,
           UNCHANGED <<page, shown>>
    PROVE  IInv'
<1>1. version \in Nat /\ PagesOK /\ Bound /\ ConnsOK(conn, version) BY Parts
<1>2. version + 1 \in Nat /\ version <= version + 1 BY <1>1
<1>3. ASSUME NEW c \in Conns
      PROVE  /\ conn'[c] \in ConnState /\ conn'[c].pc = conn[c].pc
             /\ QueueOK(conn'[c].queue, version + 1)
             /\ c \in Listening => Ends(conn'[c].queue, version + 1)
             /\ c \notin Listening => conn'[c] = conn[c]
    <2>1. conn'[c] = IF c \in Listening THEN Published(conn[c], version + 1) ELSE conn[c]
        BY DEF Publish, Published
    <2> QED BY <1>1, <1>2, <2>1, PublishedOne DEF ConnsOK
<1>4. \A c \in Conns : conn[c].pc \in {"greeting", "serving"} <=> c \in Listening
    BY DEF Listening, Clients
<1>5. ConnsOK(conn', version') BY <1>1, <1>3, <1>4 DEF ConnsOK, Publish
<1>6. \A c \in Conns : Covered(c)' BY <1>3, <1>4 DEF Covered
<1>7. Clients' = Clients BY <1>3 DEF Clients
<1>8. PagesOK' BY <1>1 DEF PagesOK, OneEach
<1> QED BY <1>1, <1>2, <1>5, <1>6, <1>7, <1>8, FewerClients, PartsNext

\* Steps of the page that leave the connections as they are.
LEMMA PageKeeps ==
    ASSUME IInv, NEW p \in Pages, Open(p) \/ Leave(p) \/ Refused(p) \/ OnClose(p)
    PROVE  IInv'
<1>1. version \in Nat /\ PagesOK /\ Bound /\ ConnsOK(conn, version) BY Parts
<1>2. UNCHANGED <<version, pending, conn>> BY DEF Open, Leave, Refused, OnClose
<1>3. page[p] \in PageState /\ Retries \in Nat /\ NoConn \notin Conns
    BY <1>1, BrowserAssumption DEF PagesOK
<1>4. PICK pg \in PageState :
         /\ pg.ws = NoConn /\ pg.tab # "joined"
         /\ page' = [page EXCEPT ![p] = pg]
         /\ shown'[p] = Gone /\ shown' = [shown EXCEPT ![p] = Gone]
    <2>1. CASE Open(p)
        <3> DEFINE pg == [tab |-> "waiting", ws |-> NoConn, retries |-> 0]
        <3>1. pg \in PageState BY <1>3 DEF PageState
        <3>2. shown[p] = Gone BY <1>1, <2>1 DEF Open, PagesOK
        <3>3. page' = [page EXCEPT ![p] = pg] /\ shown' = shown BY <2>1 DEF Open
        <3>4. shown' = [shown EXCEPT ![p] = Gone] BY <1>1, <3>2, <3>3 DEF PagesOK
        <3> QED BY <1>1, <3>1, <3>2, <3>3, <3>4
    <2>2. CASE Leave(p)
        <3> DEFINE pg == Moved(page[p], "away", NoConn)
        <3>1. pg = [tab |-> "away", ws |-> NoConn, retries |-> page[p].retries]
            BY DEF Moved
        <3>2. pg \in PageState BY <1>3, <3>1 DEF PageState
        <3>3. page' = [page EXCEPT ![p] = pg] BY <1>1, <2>2 DEF Leave, PagesOK
        <3>4. shown' = [shown EXCEPT ![p] = Gone] BY <2>2 DEF Leave
        <3>5. shown'[p] = Gone BY <1>1, <3>4 DEF PagesOK
        <3> HIDE DEF pg
        <3>6. pg.ws = NoConn /\ pg.tab # "joined" BY <3>1
        <3> QED BY <3>2, <3>3, <3>4, <3>5, <3>6
    <2>3. CASE Refused(p) \/ OnClose(p)
        <3> DEFINE pg == Retried(page[p])
        <3>1. pg = IF page[p].retries < Retries
                   THEN [tab |-> "waiting", ws |-> NoConn, retries |-> page[p].retries + 1]
                   ELSE [tab |-> "lost", ws |-> NoConn, retries |-> page[p].retries]
            BY DEF Retried, Moved
        <3>2. page' = [page EXCEPT ![p] = pg] BY <2>3 DEF Refused, OnClose
        <3>3. shown' = [shown EXCEPT ![p] = Gone]
            <4>1. CASE Refused(p)
                <5>1. shown[p] = Gone /\ shown' = shown BY <1>1, <4>1 DEF Refused, PagesOK
                <5> QED BY <1>1, <5>1 DEF PagesOK
            <4>2. CASE OnClose(p) BY <4>2 DEF OnClose
            <4> QED BY <2>3, <4>1, <4>2
        <3>4. shown'[p] = Gone BY <1>1, <3>3 DEF PagesOK
        <3> HIDE DEF pg
        <3>5. pg \in PageState /\ pg.ws = NoConn /\ pg.tab # "joined"
            BY <1>3, <3>1 DEF PageState
        <3> QED BY <3>2, <3>3, <3>4, <3>5
    <2> QED BY <2>1, <2>2, <2>3
<1>5. /\ page'[p] = pg /\ \A q \in Pages : q # p => page'[q] = page[q] /\ shown'[q] = shown[q]
      /\ page' \in [Pages -> PageState] /\ shown' \in [Pages -> Nat \cup {Gone, Blank}]
    BY <1>1, <1>4 DEF PagesOK
<1>6. PagesOK' BY <1>1, <1>4, <1>5 DEF PagesOK, OneEach
<1>7. \A c \in Conns : Viewers(c)' \subseteq Viewers(c)
                        /\ \A q \in Viewers(c)' : shown'[q] = shown[q]
    BY <1>3, <1>4, <1>5 DEF Viewers
<1>8. ASSUME Quiet', NEW c \in Conns PROVE Covered(c)'
    <2>1. Covered(c) BY <1>2, <1>8, Parts DEF Quiet
    <2> QED BY <1>2, <1>7, <2>1 DEF Covered
<1>9. Clients' = Clients BY <1>2 DEF Clients
<1> QED BY <1>1, <1>2, <1>6, <1>8, <1>9, Parts, FewerClients, PartsNext

\* A page connects to a handler that is subscribed from then on.
LEMMA ConnectKeeps == ASSUME IInv, NEW p \in Pages, Connect(p) PROVE IInv'
<1>1. version \in Nat /\ PagesOK /\ Bound /\ ConnsOK(conn, version)
      /\ (Quiet => \A d \in Conns : Covered(d))
    BY Parts
<1>2. PICK c \in Fresh :
         /\ conn' = [conn EXCEPT ![c].pc = "greeting"]
         /\ page' = [page EXCEPT ![p] = Moved(@, "joined", c)]
    BY DEF Connect
<1>3. /\ page[p].tab = "waiting" /\ Cardinality(Clients) < MaxClients
      /\ shown' = [shown EXCEPT ![p] = Blank] /\ UNCHANGED <<version, pending>>
    BY DEF Connect
<1>4. c \in Conns /\ conn[c].pc = "free" /\ Viewers(c) = {} /\ c # NoConn
    BY BrowserAssumption DEF Fresh
<1>5. page[p] \in PageState /\ page[p].ws = NoConn /\ shown[p] = Gone
    BY <1>1, <1>3 DEF PagesOK
<1>6. /\ page'[p] \in PageState /\ page'[p].ws = c /\ page'[p].tab = "joined"
      /\ \A q \in Pages : q # p => page'[q] = page[q] /\ shown'[q] = shown[q]
      /\ shown'[p] = Blank
    BY <1>1, <1>2, <1>3, <1>4, <1>5 DEF PagesOK, PageState, Moved
<1>7. PagesOK'
    <2>1. page' \in [Pages -> PageState] /\ shown' \in [Pages -> Nat \cup {Gone, Blank}]
        BY <1>1, <1>2, <1>3, <1>6 DEF PagesOK
    <2>2. OneEach' BY <1>1, <1>4, <1>6 DEF PagesOK, OneEach, Viewers
    <2> QED BY <1>1, <1>4, <1>6, <2>1, <2>2, BrowserAssumption DEF PagesOK
<1>8. /\ conn' \in [Conns -> ConnState]
      /\ conn'[c].pc = "greeting" /\ conn'[c].queue = conn[c].queue
      /\ \A d \in Conns : d # c => conn'[d] = conn[d]
    BY <1>1, <1>2, <1>4 DEF ConnsOK, ConnState
<1>9. ConnsOK(conn', version') BY <1>1, <1>3, <1>8 DEF ConnsOK
<1>10. Bound'
    <2>1. Clients' = Clients \cup {c} /\ c \notin Clients BY <1>4, <1>8 DEF Clients
    <2>2. IsFiniteSet(Clients) BY BrowserAssumption, FS_Subset DEF Clients
    <2>3. Cardinality(Clients') = Cardinality(Clients) + 1 /\ Cardinality(Clients) \in Nat
        BY <2>1, <2>2, FS_AddElement, FS_CardinalityType
    <2> QED BY <1>3, <2>3, BrowserAssumption DEF Bound
<1>11. ASSUME Quiet', NEW d \in Conns PROVE Covered(d)'
    <2>1. Covered(d)
        BY <1>1, <1>4, <1>8, <1>11 DEF Quiet
    <2>2. CASE d # c
        <3>1. Viewers(d)' \subseteq Viewers(d) /\ p \notin Viewers(d)'
            BY <1>6, <2>2 DEF Viewers
        <3>2. \A q \in Viewers(d)' : shown'[q] = shown[q] BY <1>6, <3>1 DEF Viewers
        <3> QED BY <1>3, <1>8, <2>1, <2>2, <3>1, <3>2 DEF Covered
    <2>3. CASE d = c
        <3>1. conn'[c].queue = <<>> BY <1>1, <1>4, <1>8 DEF ConnsOK
        <3>2. States(<<>>) = {} BY DEF States
        <3>3. States(conn'[c].queue) = {} /\ conn'[c].pc # "serving" BY <1>8, <3>1, <3>2
        <3> QED BY <2>3, <3>3 DEF Covered
    <2> QED BY <2>2, <2>3
<1> QED BY <1>1, <1>3, <1>7, <1>9, <1>10, <1>11, Parts, PartsNext

\* A handler that raises before it serves keeps a place, and no page has it.
LEMMA RaisesKeeps == ASSUME IInv, NEW p \in Pages, AcceptRaises(p) PROVE IInv'
<1>1. version \in Nat /\ PagesOK /\ Bound /\ ConnsOK(conn, version)
      /\ (Quiet => \A d \in Conns : Covered(d))
    BY Parts
<1>2. PICK c \in Fresh : conn' = [conn EXCEPT ![c] = Ghost]
    BY DEF AcceptRaises
<1>3. /\ page[p].tab = "waiting" /\ Cardinality(Clients) < MaxClients
      /\ page' = [page EXCEPT ![p] = Retried(@)] /\ UNCHANGED <<version, pending, shown>>
    BY DEF AcceptRaises
<1>4. c \in Conns /\ conn[c].pc = "free" /\ Viewers(c) = {} /\ Retries \in Nat
    BY BrowserAssumption DEF Fresh
<1>5. page[p] \in PageState /\ page[p].ws = NoConn /\ shown[p] = Gone
    BY <1>1, <1>3 DEF PagesOK
<1>6. /\ page'[p] \in PageState /\ page'[p].ws = NoConn /\ page'[p].tab # "joined"
      /\ \A q \in Pages : q # p => page'[q] = page[q]
    <2>1. page'[p] = Retried(page[p]) BY <1>1, <1>3 DEF PagesOK
    <2>2. Retried(page[p]) =
            IF page[p].retries < Retries
            THEN [tab |-> "waiting", ws |-> NoConn, retries |-> page[p].retries + 1]
            ELSE [tab |-> "lost", ws |-> NoConn, retries |-> page[p].retries]
        BY DEF Retried, Moved
    <2> QED BY <1>1, <1>3, <1>4, <1>5, <2>1, <2>2 DEF PagesOK, PageState
<1>7. PagesOK'
    <2>1. page' \in [Pages -> PageState] BY <1>1, <1>3, <1>6 DEF PagesOK
    <2> QED BY <1>1, <1>3, <1>5, <1>6, <2>1 DEF PagesOK, OneEach
<1>8. /\ conn' \in [Conns -> ConnState]
      /\ conn'[c] = Ghost /\ \A d \in Conns : d # c => conn'[d] = conn[d]
    BY <1>1, <1>2, <1>4 DEF ConnsOK, ConnState, Ghost
<1>9. ConnsOK(conn', version')
    <2>1. QueueOK(<<>>, version) BY <1>1, BrowserAssumption DEF QueueOK
    <2> QED BY <1>1, <1>3, <1>8, <2>1 DEF ConnsOK, Ghost
<1>10. Bound'
    <2>1. Clients' = Clients \cup {c} /\ c \notin Clients BY <1>4, <1>8 DEF Clients, Ghost
    <2>2. IsFiniteSet(Clients) BY BrowserAssumption, FS_Subset DEF Clients
    <2>3. Cardinality(Clients') = Cardinality(Clients) + 1 /\ Cardinality(Clients) \in Nat
        BY <2>1, <2>2, FS_AddElement, FS_CardinalityType
    <2> QED BY <1>3, <2>3, BrowserAssumption DEF Bound
<1>11. ASSUME Quiet', NEW d \in Conns PROVE Covered(d)'
    <2>1. Covered(d) BY <1>1, <1>4, <1>8, <1>11 DEF Quiet
    <2>2. Viewers(d)' \subseteq Viewers(d)
        BY <1>4, <1>5, <1>6, BrowserAssumption DEF Viewers
    <2> QED BY <1>3, <1>8, <2>1, <2>2 DEF Covered, Ghost
<1> QED BY <1>1, <1>3, <1>7, <1>9, <1>10, <1>11, Parts, PartsNext

\* A handler's step that changes its own queue, and what its page shows.
LEMMA OneConnKeeps ==
    ASSUME IInv, NEW c \in Conns, conn[c].pc # "restricting", NEW r \in ConnState,
           conn' = [conn EXCEPT ![c] = r], QueueOK(r.queue, version),
           r.pc \in {"greeting", "serving"} \/ r.queue = <<>>,
           r.pc \in {"greeting", "serving", "ending", "ghost"} => c \in Clients,
           UNCHANGED <<version, pending, page>>,
           shown' = shown \/ (\E v \in Nat : Shows(c, v)),
           Quiet => Covered(c)'
    PROVE  IInv'
<1>1. version \in Nat /\ pending \in BOOLEAN /\ PagesOK /\ Bound /\ ConnsOK(conn, version)
      /\ (Quiet => \A d \in Conns : Covered(d))
    BY Parts
<1>2. conn'[c] = r /\ \A d \in Conns : d # c => conn'[d] = conn[d]
    BY <1>1 DEF ConnsOK
<1>3. ConnsOK(conn', version') BY <1>1, <1>2 DEF ConnsOK
<1>4. Clients' \subseteq Clients BY <1>2 DEF Clients
<1>5. \A p \in Pages : p \notin Viewers(c) => shown'[p] = shown[p]
    BY <1>1 DEF Shows, PagesOK
<1>6. PagesOK'
    <2>1. \A p \in Viewers(c) : page[p].tab = "joined"
        BY <1>1, BrowserAssumption DEF Viewers, PagesOK
    <2>2. shown' \in [Pages -> Nat \cup {Gone, Blank}]
          /\ \A p \in Pages : (shown'[p] # Gone) = (shown[p] # Gone)
        <3>1. CASE shown' = shown BY <1>1, <3>1 DEF PagesOK
        <3>2. CASE \E v \in Nat : Shows(c, v)
            <4>1. PICK v \in Nat : Shows(c, v) BY <3>2
            <4>2. \A p \in Viewers(c) : shown[p] # Gone BY <1>1, <2>1 DEF PagesOK, Viewers
            <4>3. v # Gone BY BrowserAssumption
            <4> QED BY <1>1, <4>1, <4>2, <4>3 DEF Shows, PagesOK
        <3> QED BY <3>1, <3>2
    <2> QED BY <1>1, <2>2 DEF PagesOK, OneEach
<1>7. ASSUME Quiet', NEW d \in Conns PROVE Covered(d)'
    <2>1. Quiet BY <1>2, <1>7 DEF Quiet
    <2>2. CASE d = c BY <2>1, <2>2
    <2>3. CASE d # c
        <3>1. \A p \in Viewers(d) : p \notin Viewers(c) BY <2>3 DEF Viewers
        <3>2. Viewers(d)' = Viewers(d) BY DEF Viewers
        <3>3. Covered(d) BY <1>1, <2>1
        <3>4. \A p \in Viewers(d) : shown'[p] = shown[p] BY <1>5, <3>1 DEF Viewers
        <3> QED BY <1>2, <2>3, <3>2, <3>3, <3>4 DEF Covered
    <2> QED BY <2>2, <2>3
<1> QED BY <1>1, <1>3, <1>4, <1>6, <1>7, FewerClients, PartsNext

LEMMA Queueless ==
    /\ Unused \in ConnState /\ Ending \in ConnState /\ States(<<>>) = {}
    /\ Unused.queue = <<>> /\ Ending.queue = <<>>
    /\ Unused.pc = "free" /\ Ending.pc = "ending"
    /\ \A v \in Nat : QueueOK(<<>>, v)
BY BrowserAssumption DEF Unused, Ending, ConnState, States, QueueOK

\* A handler that stops, or is about to.
LEMMA StopKeeps ==
    ASSUME IInv, NEW c \in Conns, conn[c].pc # "restricting", NEW r \in {Unused, Ending},
           r = Ending => c \in Clients, conn' = [conn EXCEPT ![c] = r],
           UNCHANGED <<version, pending, page, shown>>
    PROVE  IInv'
<1>1. version \in Nat /\ ConnsOK(conn, version) BY Parts
<1>2. r \in ConnState /\ r.queue = <<>> /\ QueueOK(r.queue, version)
      /\ r.pc \in {"free", "ending"} /\ (r.pc = "ending" => c \in Clients)
    BY <1>1, Queueless
<1>3. conn'[c] = r BY <1>1 DEF ConnsOK
<1>4. Covered(c)' BY <1>2, <1>3 DEF Covered
<1> QED BY <1>2, <1>4, OneConnKeeps

\* The first send: the state as it is, and what is queued is not older.
LEMMA GreetKeeps == ASSUME IInv, NEW c \in Conns, Greet(c) PROVE IInv'
<1>1. version \in Nat /\ PagesOK /\ ConnsOK(conn, version)
      /\ (Quiet => \A d \in Conns : Covered(d))
    BY Parts
<1> DEFINE r == [pc |-> "serving", queue |-> conn[c].queue]
<1>2. conn[c] \in ConnState /\ QueueOK(conn[c].queue, version) BY <1>1 DEF ConnsOK
<1>3. r \in ConnState /\ r.queue = conn[c].queue /\ r.pc = "serving" BY <1>2 DEF ConnState
<1>4. conn' = [conn EXCEPT ![c] = r]
    <2>1. [conn[c] EXCEPT !.pc = "serving"] = r BY <1>2 DEF ConnState
    <2> QED BY <1>1, <2>1 DEF Greet, ConnsOK
<1> HIDE DEF r
<1>5. conn'[c] = r BY <1>1, <1>4 DEF ConnsOK
<1>6. conn[c].pc = "greeting" /\ c \in Clients /\ Shows(c, version)
      /\ UNCHANGED <<version, pending, page>>
    BY DEF Greet, Clients
<1>7. ASSUME Quiet PROVE Covered(c)'
    <2>1. Covered(c) BY <1>1, <1>7
    <2>2. \A p \in Viewers(c)' : shown'[p] = version'
        BY <1>1, <1>6 DEF Shows, Viewers
    <2> QED BY <1>3, <1>5, <1>6, <2>1, <2>2 DEF Covered
<1> QED BY <1>1, <1>2, <1>3, <1>4, <1>6, <1>7, OneConnKeeps

\* Sending the event at the head of the queue.
LEMMA OutputKeeps == ASSUME IInv, NEW c \in Conns, Output(c) PROVE IInv'
<1>1. version \in Nat /\ PagesOK /\ ConnsOK(conn, version)
      /\ (Quiet => \A d \in Conns : Covered(d))
    BY Parts
<1> DEFINE q == conn[c].queue
           e == Head(q)
           r == [pc |-> "serving", queue |-> Tail(q)]
<1>2. conn[c] \in ConnState /\ QueueOK(q, version) BY <1>1 DEF ConnsOK
<1>3. /\ conn[c].pc = "serving" /\ q # <<>> /\ c \in Clients
      /\ (IF e.event = "state" THEN Shows(c, e.data) ELSE shown' = shown)
      /\ UNCHANGED <<version, pending, page>>
    BY DEF Output, Clients
<1>4. CASE e.event = "resync"
    <2>1. conn' = [conn EXCEPT ![c] = Ending] /\ shown' = shown
        BY <1>3, <1>4 DEF Output
    <2> QED BY <1>3, <2>1, StopKeeps
<1>5. CASE e.event # "resync"
    <2>1. /\ QueueOK(Tail(q), version) /\ e \in Event /\ e.data <= version
          /\ Ends(q, version) => \/ Ends(Tail(q), version)
                                 \/ /\ States(Tail(q)) = {}
                                    /\ e.event = "state" /\ e.data = version
          /\ States(q) = {} => States(Tail(q)) = {} /\ e.event # "state"
        BY <1>1, <1>2, <1>3, <1>5, SentKeeps
    <2>2. conn' = [conn EXCEPT ![c] = r]
        <3>1. [conn[c] EXCEPT !.queue = Tail(q)] = r BY <1>2, <1>3 DEF ConnState
        <3>2. conn' = [conn EXCEPT ![c] = IF e.event = "resync" THEN Ending
                                          ELSE [conn[c] EXCEPT !.queue = Tail(q)]]
            BY DEF Output
        <3> QED BY <1>5, <3>1, <3>2
    <2>3. r \in ConnState /\ r.queue = Tail(q) /\ r.pc = "serving"
        BY <2>1 DEF ConnState, QueueOK
    <2> HIDE DEF r, e, q
    <2>4. conn'[c] = r BY <1>1, <2>2 DEF ConnsOK
    <2>5. shown' = shown \/ \E v \in Nat : Shows(c, v)
        <3>1. e.data \in Nat BY <2>1 DEF Event
        <3> QED BY <1>3, <3>1
    <2>6. ASSUME Quiet PROVE Covered(c)'
        <3>1. Covered(c) BY <1>1, <2>6
        <3>2. Viewers(c)' = Viewers(c) BY <1>3 DEF Viewers
        <3>3. CASE Ends(Tail(q), version) BY <1>3, <2>3, <2>4, <3>3 DEF Covered
        <3>4. CASE States(Tail(q)) = {} /\ e.event = "state" /\ e.data = version
            <4>1. \A p \in Viewers(c) : shown'[p] = version
                BY <1>3, <3>4 DEF Shows, Viewers
            <4> QED BY <1>3, <2>3, <2>4, <3>2, <3>4, <4>1 DEF Covered
        <3>5. CASE States(q) = {} /\ \A p \in Viewers(c) : shown[p] = version
            <4>1. States(Tail(q)) = {} /\ shown' = shown BY <1>3, <2>1, <3>5
            <4> QED BY <1>3, <2>3, <2>4, <3>2, <3>5, <4>1 DEF Covered
        <3> QED BY <1>3, <2>1, <3>1, <3>3, <3>4, <3>5 DEF Covered, q
    <2> QED BY <1>2, <1>3, <2>1, <2>2, <2>3, <2>5, <2>6, OneConnKeeps
<1> QED BY <1>4, <1>5

\* A failed command is answered through the queue, or ends the connection.
LEMMA FailureKeeps == ASSUME IInv, NEW c \in Conns, CommandFails(c) PROVE IInv'
<1>1. version \in Nat /\ ConnsOK(conn, version) /\ (Quiet => \A d \in Conns : Covered(d))
    BY Parts
<1> DEFINE q == conn[c].queue
           r == [pc |-> "serving", queue |-> Append(q, Failed)]
<1>2. conn[c] \in ConnState /\ QueueOK(q, version) BY <1>1 DEF ConnsOK
<1>3. conn[c].pc = "serving" /\ c \in Clients /\ UNCHANGED <<version, pending, page, shown>>
    BY DEF CommandFails, Clients
<1>4. CASE Len(q) >= QueueBound
    <2>1. conn' = [conn EXCEPT ![c] = Ending] BY <1>1, <1>4 DEF CommandFails, ConnsOK
    <2> QED BY <1>3, <2>1, StopKeeps
<1>5. CASE ~ (Len(q) >= QueueBound)
    <2>1. Len(q) < QueueBound BY <1>2, <1>5, BrowserAssumption DEF QueueOK
    <2>2. /\ QueueOK(Append(q, Failed), version) /\ States(Append(q, Failed)) = States(q)
          /\ Ends(q, version) => Ends(Append(q, Failed), version)
        BY <1>1, <1>2, <2>1, ErrorKeeps
    <2>3. conn' = [conn EXCEPT ![c] = r]
        <3>1. [conn[c] EXCEPT !.queue = Append(q, Failed)] = r
            <4>1. conn[c] = [pc |-> "serving", queue |-> q] BY <1>2, <1>3 DEF ConnState
            <4> QED BY <4>1
        <3>2. conn' = [conn EXCEPT ![c] = IF Len(q) >= QueueBound THEN Ending
                                          ELSE [conn[c] EXCEPT !.queue = Append(q, Failed)]]
            BY DEF CommandFails
        <3> QED BY <1>5, <3>1, <3>2
    <2>4. r \in ConnState /\ r.queue = Append(q, Failed) /\ r.pc = "serving"
        BY <2>2 DEF ConnState, QueueOK
    <2> HIDE DEF r
    <2>5. conn'[c] = r BY <1>1, <2>3 DEF ConnsOK
    <2>6. ASSUME Quiet PROVE Covered(c)'
        <3>1. Covered(c) /\ Viewers(c)' = Viewers(c) BY <1>1, <1>3, <2>6 DEF Viewers
        <3> QED BY <1>3, <2>2, <2>4, <2>5, <3>1 DEF Covered
    <2> QED BY <1>2, <1>3, <2>2, <2>3, <2>4, <2>6, OneConnKeeps
<1> QED BY <1>4, <1>5

\* The end of a handler; the last one that leaves a comparison restricts.
LEMMA EndKeeps == ASSUME IInv, NEW c \in Conns, End(c) PROVE IInv'
<1>1. version \in Nat /\ PagesOK /\ Bound /\ ConnsOK(conn, version) BY Parts
<1>2. conn[c].pc = "ending" /\ UNCHANGED <<page, shown>> BY DEF End
<1>3. CASE ~ (Clients = {c} /\ pending)
    <2>1. conn' = [conn EXCEPT ![c] = Unused] /\ UNCHANGED <<version, pending>>
        BY <1>3 DEF End
    <2>2. Unused # Ending BY DEF Unused, Ending
    <2> QED BY <1>2, <2>1, <2>2, StopKeeps
<1>4. CASE Clients = {c} /\ pending
    <2> DEFINE r == [pc |-> "restricting", queue |-> <<>>]
    <2>1. conn' = [conn EXCEPT ![c] = r] /\ version' = version + 1 /\ pending' = FALSE
        BY <1>4 DEF End
    <2>2. r \in ConnState BY DEF ConnState
    <2>3. version + 1 \in Nat /\ version <= version + 1 BY <1>1
    <2>4. \A d \in Conns : QueueOK(conn[d].queue, version + 1) BY <2>3, PublishedOne
    <2>5. conn'[c] = r /\ \A d \in Conns : d # c => conn'[d] = conn[d]
        BY <1>1, <2>1 DEF ConnsOK
    <2>6. r.pc = "restricting" /\ r.queue = <<>> OBVIOUS
    <2> HIDE DEF r
    <2>7. ConnsOK(conn', version')
        <3>1. conn' \in [Conns -> ConnState] BY <1>1, <2>1, <2>2 DEF ConnsOK
        <3>2. \A d \in Conns : QueueOK(conn'[d].queue, version + 1)
            BY <2>3, <2>4, <2>5, <2>6, Queueless
        <3>3. \A d \in Conns : conn'[d].pc \in {"greeting", "serving"} \/ conn'[d].queue = <<>>
            BY <1>1, <2>5, <2>6 DEF ConnsOK
        <3> QED BY <2>1, <3>1, <3>2, <3>3 DEF ConnsOK
    <2>8. Clients' \subseteq Clients BY <2>5, <2>6 DEF Clients
    <2>9. ~ Quiet' BY <2>5, <2>6 DEF Quiet
    <2>10. PagesOK' BY <1>1, <1>2 DEF PagesOK, OneEach
    <2> QED BY <1>1, <2>1, <2>3, <2>7, <2>8, <2>9, <2>10, FewerClients, PartsNext
<1> QED BY <1>3, <1>4

\* The restriction publishes the state that it made.
LEMMA RestrictedKeeps == ASSUME IInv, NEW c \in Conns, Restricted(c) PROVE IInv'
<1>1. version \in Nat /\ pending \in BOOLEAN /\ PagesOK /\ Bound /\ ConnsOK(conn, version)
      /\ version <= version
    BY Parts
<1>2. /\ conn[c].pc = "restricting" /\ UNCHANGED <<version, pending, page, shown>>
      /\ conn' = [d \in Conns |-> IF d = c THEN Unused
                                 ELSE IF d \in Listening THEN Published(conn[d], version)
                                 ELSE conn[d]]
    BY DEF Restricted, Published
<1>3. \A d \in Conns : conn[d].pc \in {"greeting", "serving"} <=> d \in Listening
    BY DEF Listening, Clients
<1>4. ASSUME NEW d \in Conns
      PROVE  /\ conn'[d] \in ConnState /\ QueueOK(conn'[d].queue, version)
             /\ conn'[d].pc \in {"greeting", "serving"} =>
                    d \in Listening /\ Ends(conn'[d].queue, version)
             /\ conn'[d].pc \in {"greeting", "serving"} \/ conn'[d].queue = <<>>
             /\ conn'[d].pc \in {conn[d].pc, "free"}
    <2>1. CASE d = c BY <1>1, <1>2, <2>1, Queueless
    <2>2. CASE d # c /\ d \in Listening
        <3>1. conn'[d] = Published(conn[d], version) BY <1>2, <2>2
        <3>2. /\ Published(conn[d], version) \in ConnState
              /\ Published(conn[d], version).pc = conn[d].pc
              /\ QueueOK(Published(conn[d], version).queue, version)
              /\ Ends(Published(conn[d], version).queue, version)
            BY <1>1, PublishedOne
        <3> QED BY <1>3, <2>2, <3>1, <3>2
    <2>3. CASE d # c /\ d \notin Listening
        <3>1. conn'[d] = conn[d] BY <1>2, <2>3
        <3> QED BY <1>1, <1>3, <2>3, <3>1 DEF ConnsOK
    <2> QED BY <2>1, <2>2, <2>3
<1>5. ConnsOK(conn', version') BY <1>2, <1>4 DEF ConnsOK
<1>6. Clients' \subseteq Clients BY <1>4 DEF Clients
<1>7. \A d \in Conns : Covered(d)' BY <1>2, <1>4 DEF Covered
<1>8. PagesOK' BY <1>1, <1>2 DEF PagesOK, OneEach
<1> QED BY <1>1, <1>2, <1>5, <1>6, <1>7, <1>8, FewerClients, PartsNext

LEMMA NextIInv == IInv /\ [Next]_vars => IInv'
<1>1. SUFFICES ASSUME IInv, [Next]_vars PROVE IInv' OBVIOUS
<1>2. version \in Nat /\ pending \in BOOLEAN BY Parts, <1>1
<1>3. CASE UNCHANGED vars
    <2>1. IInv' = IInv
        BY <1>3 DEF vars, IInv, TypeOK, OneEach, Quiet, Covered, Viewers, Clients
    <2> QED BY <1>1, <2>1
<1>4. CASE Change \/ BeginComparison \/ EndComparison
    <2>1. Publish(version + 1) /\ version' = version + 1 /\ pending' \in BOOLEAN
          /\ UNCHANGED <<page, shown>>
        BY <1>2, <1>4 DEF Change, BeginComparison, EndComparison
    <2> QED BY <1>1, <2>1, PublishKeeps
<1>5. ASSUME NEW p \in Pages, Open(p) \/ Leave(p) \/ PageStep(p) \/ AcceptRaises(p)
      PROVE  IInv'
    BY <1>1, <1>5, PageKeeps, ConnectKeeps, RaisesKeeps DEF PageStep
<1>6. ASSUME NEW c \in Conns, HandlerStep(c) \/ CommandFails(c) PROVE IInv'
    <2>1. CASE Notice(c)
        <3>1. /\ conn[c].pc # "restricting" /\ c \in Clients
              /\ conn' = [conn EXCEPT ![c] = Ending]
              /\ UNCHANGED <<version, pending, page, shown>>
            BY <2>1 DEF Notice, Clients
        <3> QED BY <1>1, <3>1, StopKeeps
    <2> QED BY <1>1, <1>6, <2>1, GreetKeeps, OutputKeeps, FailureKeeps, EndKeeps,
               RestrictedKeeps DEF HandlerStep
<1> QED BY <1>1, <1>3, <1>4, <1>5, <1>6 DEF Next
--------------------------------------------------------------------------------
(* The theorems.                                                            *)

LEMMA SpecIInv == Spec => []IInv
BY InitIInv, NextIInv, PTL DEF Spec

\* Events keeps its two bounds, ChatConfig.queue_size and the number of
\* browsers, and every variable its type, whatever the pages and the chat do.
THEOREM TypeCorrect == Spec => []TypeOK
<1>1. IInv => TypeOK BY DEF IInv
<1> QED BY <1>1, SpecIInv, PTL

\* Events.publish: no state is lost on its way to a page that is served, however
\* slow the browser and however small the queue.
THEOREM NoneLost == Spec => []NothingLost
<1>1. IInv => NothingLost
    <2>1. SUFFICES ASSUME IInv, \A c \in Conns : conn[c].pc # "restricting",
                          NEW c \in Conns, conn[c].pc = "serving"
                   PROVE  Newest(c, version)
        BY DEF NothingLost
    <2>2. Covered(c) BY <2>1 DEF IInv, Quiet
    <2> QED BY <2>1, <2>2 DEF Covered, Ends, Newest
<1> QED BY <1>1, SpecIInv, PTL

\* Every step of the bridge is, to the person in front of the page, a step of
\* BrowserView: a change of the chat, a page that joins or leaves, or one page
\* that shows a state the chat really was in.
THEOREM StepsAreView == Spec => View!Init /\ [][View!Next]_<<version, shown>>
<1>1. Init => View!Init BY DEF Init, View!Init
<1>2. IInv /\ [Next]_vars => [View!Next]_<<version, shown>>
    <2>1. SUFFICES ASSUME IInv, [Next]_vars
                   PROVE  View!Next \/ UNCHANGED <<version, shown>>
        OBVIOUS
    <2>2. version \in Nat /\ PagesOK /\ ConnsOK(conn, version) BY <2>1, Parts
    <2>3. CASE UNCHANGED vars BY <2>3 DEF vars
    <2>4. CASE Change \/ BeginComparison \/ EndComparison
        BY <2>4 DEF Change, BeginComparison, EndComparison, View!Next, View!Change
    <2>5. ASSUME NEW p \in Pages, Leave(p) \/ OnClose(p)
          PROVE  View!Next
        <3>1. View!Leave(p) BY <2>5 DEF Leave, OnClose, View!Leave
        <3> QED BY <3>1 DEF View!Next
    <2>6. ASSUME NEW p \in Pages, Connect(p) PROVE View!Next
        <3>1. shown[p] = Gone BY <2>2, <2>6 DEF Connect, PagesOK
        <3>2. View!Join(p) BY <2>6, <3>1 DEF Connect, View!Join
        <3> QED BY <3>2 DEF View!Next
    <2>7. ASSUME NEW p \in Pages, Open(p) \/ Refused(p) \/ AcceptRaises(p)
          PROVE  UNCHANGED <<version, shown>>
        BY <2>7 DEF Open, Refused, AcceptRaises
    <2>8. ASSUME NEW c \in Conns, NEW s \in 0 .. version, Shows(c, s), version' = version,
                 Viewers(c) # {}
          PROVE  View!Next
        <3>1. PICK p \in Pages : p \in Viewers(c) BY <2>8 DEF Viewers
        <3>2. page[p].ws = c /\ c # NoConn BY <3>1, BrowserAssumption DEF Viewers
        <3>3. Viewers(c) = {p} BY <2>2, <3>1, <3>2 DEF PagesOK, OneEach, Viewers
        <3>4. shown[p] # Gone BY <2>2, <3>1, <3>2 DEF PagesOK
        <3>5. shown' = [shown EXCEPT ![p] = s] BY <2>2, <2>8, <3>3 DEF Shows, PagesOK
        <3>6. View!Show(p) BY <2>8, <3>4, <3>5 DEF View!Show
        <3> QED BY <3>6 DEF View!Next
    <2>9. ASSUME NEW c \in Conns, Greet(c) PROVE View!Next
        <3>1. version \in 0 .. version BY <2>2
        <3> QED BY <2>8, <2>9, <3>1 DEF Greet
    <2>10. ASSUME NEW c \in Conns, Output(c) PROVE View!Next \/ UNCHANGED <<version, shown>>
        <3> DEFINE e == Head(conn[c].queue)
        <3>1. /\ conn[c].queue # <<>> /\ Viewers(c) # {} /\ version' = version
              /\ (IF e.event = "state" THEN Shows(c, e.data) ELSE UNCHANGED shown)
            BY <2>10 DEF Output
        <3>2. CASE e.event = "state"
            <4>1. QueueOK(conn[c].queue, version) /\ e.event # "resync"
                BY <2>2, <3>2 DEF ConnsOK
            <4>2. e \in Event /\ e.data <= version BY <2>2, <3>1, <4>1, SentKeeps
            <4>3. e.data \in 0 .. version BY <2>2, <4>2 DEF Event
            <4> HIDE DEF e
            <4> QED BY <2>8, <3>1, <3>2, <4>3
        <3>3. CASE e.event # "state" BY <3>1, <3>3
        <3> QED BY <3>2, <3>3
    <2>11. ASSUME NEW c \in Conns,
                  Notice(c) \/ Restricted(c) \/ CommandFails(c) \/ End(c)
           PROVE  View!Next \/ UNCHANGED <<version, shown>>
        <3>1. shown' = shown /\ version' \in {version, version + 1}
            BY <2>11 DEF Notice, Restricted, CommandFails, End
        <3> QED BY <3>1 DEF View!Next, View!Change
    <2> QED BY <2>1, <2>3, <2>4, <2>5, <2>6, <2>7, <2>9, <2>10, <2>11
            DEF Next, PageStep, HandlerStep
<1> QED BY <1>1, <1>2, SpecIInv, PTL DEF Spec
================================================================================
