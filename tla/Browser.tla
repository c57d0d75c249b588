-------------------------------- MODULE Browser --------------------------------
(***************************************************************************)
(* The local web page of one endpoint: Events, the websocket handler of     *)
(* create_app, and the page's connectBrowser.  A change of the chat's state *)
(* is published to the bounded queue of every subscribed connection; a      *)
(* queue that is full is replaced by one resync event, on which the handler *)
(* closes the socket and the page connects again, at most Retries times in  *)
(* the life of a tab.  When the last connection goes while a comparison is  *)
(* pending, the session is restricted.                                      *)
(*                                                                          *)
(* A state is its number: version counts the changes.  Nothing here depends *)
(* on the order in which the handler's own tasks are woken.                 *)
(***************************************************************************)
EXTENDS Naturals, Sequences, FiniteSets

CONSTANTS Pages,       \* browser tabs
          Conns,       \* handlers that may be alive at once
          NoConn,      \* the page has no socket
          Gone, Blank, \* a page that shows no state: see BrowserView
          QueueBound,  \* ChatConfig.queue_size
          MaxClients,  \* connections Events accepts
          Retries,     \* reconnections a tab makes
          MaxVersion   \* model bound: after it only pending comparisons change

ASSUME BrowserAssumption ==
    /\ QueueBound \in Nat \ {0} /\ MaxClients \in Nat \ {0}
    /\ Retries \in Nat /\ MaxVersion \in Nat
    /\ IsFiniteSet(Conns) /\ NoConn \notin Conns
    /\ Gone \notin Nat /\ Blank \notin Nat /\ Gone # Blank

VARIABLES version,   \* changes of the runtime's state so far
          pending,   \* a comparison is pending
          conn,      \* per handler: [pc, queue]
          page,      \* per tab: [tab, ws, retries]
          shown      \* per tab: what it shows

vars == <<version, pending, conn, page, shown>>

State(v) == [event |-> "state", data |-> v]
Resync == [event |-> "resync", data |-> 0]
Failed == [event |-> "error", data |-> 0]
Event == [event : {"state", "resync", "error"}, data : Nat]

Unused == [pc |-> "free", queue |-> <<>>]

\* A queue whose handler raised before anything would discard it.
Ghost == [pc |-> "ghost", queue |-> <<>>]

\* Events.clients: subscribed before the socket is accepted, until discarded.
\* Nobody reads the queue of a ghost or of a handler that is ending: it is left out.
Clients == {c \in Conns : conn[c].pc \in {"greeting", "serving", "ending", "ghost"}}

Listening == {c \in Clients : conn[c].pc \in {"greeting", "serving"}}
Ending == [pc |-> "ending", queue |-> <<>>]

\* The tabs at the other end of a handler's socket.
Viewers(c) == {p \in Pages : page[p].ws = c}

Init == /\ version = 0 /\ pending = FALSE
        /\ conn = [c \in Conns |-> Unused]
        /\ page = [p \in Pages |-> [tab |-> "away", ws |-> NoConn, retries |-> 0]]
        /\ shown = [p \in Pages |-> Gone]
--------------------------------------------------------------------------------
\* Possible bugs: a full queue loses the event without a word; no bound at all.
PutDropped(queue, e)   == IF Len(queue) >= QueueBound THEN queue ELSE Append(queue, e)
PutUnbounded(queue, e) == Append(queue, e)

\* Events.publish, for one queue.
Put(queue, e) == IF Len(queue) >= QueueBound THEN <<Resync>> ELSE Append(queue, e)

Publish(v) == conn' = [c \in Conns |-> IF c \in Listening
                                       THEN [conn[c] EXCEPT !.queue = Put(@, State(v))]
                                       ELSE conn[c]]

\* Whatever else the runtime does and publishes.
Change == /\ version < MaxVersion
          /\ version' = version + 1
          /\ Publish(version + 1)
          /\ UNCHANGED <<pending, page, shown>>

BeginComparison == /\ ~pending /\ version < MaxVersion
                   /\ pending' = TRUE /\ version' = version + 1
                   /\ Publish(version + 1)
                   /\ UNCHANGED <<page, shown>>

\* Both people decided, the timer ran out or the session was restricted.
EndComparison == /\ pending
                 /\ pending' = FALSE /\ version' = version + 1
                 /\ Publish(version + 1)
                 /\ UNCHANGED <<page, shown>>
--------------------------------------------------------------------------------
(* The page.                                                                *)

Moved(pg, tab, ws) == [tab |-> tab, ws |-> ws, retries |-> pg.retries]

Open(p) == /\ page[p].tab = "away"
           /\ page' = [page EXCEPT ![p] = [tab |-> "waiting", ws |-> NoConn, retries |-> 0]]
           /\ UNCHANGED <<version, pending, conn, shown>>

\* The tab is closed, or loaded anew.
Leave(p) == /\ page[p].tab # "away"
            /\ page' = [page EXCEPT ![p] = Moved(@, "away", NoConn)]
            /\ shown' = [shown EXCEPT ![p] = Gone]
            /\ UNCHANGED <<version, pending, conn>>

\* ws.onclose: browserRetries only ever grows.
Retried(pg) == IF pg.retries < Retries
               THEN [tab |-> "waiting", ws |-> NoConn, retries |-> pg.retries + 1]
               ELSE Moved(pg, "lost", NoConn)

\* Handlers that are over and that no page still waits to hear closed.
Fresh == {c \in Conns : conn[c].pc = "free" /\ Viewers(c) = {}}

\* connectBrowser, and the handler up to its subscription and the socket's
\* acceptance.
Connect(p) ==
    /\ page[p].tab = "waiting"
    /\ Cardinality(Clients) < MaxClients
    /\ Fresh # {}
    /\ LET c == CHOOSE c \in Fresh : TRUE IN
         /\ conn' = [conn EXCEPT ![c].pc = "greeting"]
         /\ page' = [page EXCEPT ![p] = Moved(@, "joined", c)]
    /\ shown' = [shown EXCEPT ![p] = Blank]
    /\ UNCHANGED <<version, pending>>

\* ws.accept raises: it is awaited after the subscription and outside the try
\* that ends it.
AcceptRaises(p) ==
    /\ page[p].tab = "waiting"
    /\ Cardinality(Clients) < MaxClients
    /\ Fresh # {}
    /\ conn' = [conn EXCEPT ![CHOOSE c \in Fresh : TRUE] = Ghost]
    /\ page' = [page EXCEPT ![p] = Retried(@)]
    /\ UNCHANGED <<version, pending, shown>>

\* Too many local browser connections: closed before it is accepted.
Refused(p) == /\ page[p].tab = "waiting"
              /\ Cardinality(Clients) >= MaxClients
              /\ page' = [page EXCEPT ![p] = Retried(@)]
              /\ UNCHANGED <<version, pending, conn, shown>>

OnClose(p) == /\ page[p].tab = "joined"
              /\ conn[page[p].ws].pc \notin {"greeting", "serving"}
              /\ page' = [page EXCEPT ![p] = Retried(@)]
              /\ shown' = [shown EXCEPT ![p] = Gone]
              /\ UNCHANGED <<version, pending, conn>>
--------------------------------------------------------------------------------
(* The websocket handler.                                                   *)

Shows(c, v) == shown' = [p \in Pages |-> IF p \in Viewers(c) THEN v ELSE shown[p]]

\* A possible bug: the page is left to wait for the next change.
GreetSilently(c) == /\ conn[c].pc = "greeting" /\ Viewers(c) # {}
                    /\ conn' = [conn EXCEPT ![c].pc = "serving"]
                    /\ UNCHANGED <<version, pending, page, shown>>

\* output's first send: the state as it is now, whatever waits in the queue.
Greet(c) == /\ conn[c].pc = "greeting" /\ Viewers(c) # {}
            /\ conn' = [conn EXCEPT ![c].pc = "serving"]
            /\ Shows(c, version)
            /\ UNCHANGED <<version, pending, page>>

Output(c) ==
    LET e == Head(conn[c].queue) IN
    /\ conn[c].pc = "serving" /\ Viewers(c) # {} /\ conn[c].queue # <<>>
    /\ conn' = [conn EXCEPT ![c] = IF e.event = "resync" THEN Ending
                                   ELSE [conn[c] EXCEPT !.queue = Tail(@)]]
    /\ IF e.event = "state" THEN Shows(c, e.data) ELSE UNCHANGED shown
    /\ UNCHANGED <<version, pending, page>>

\* commands: a command that fails is answered through the same queue.
CommandFails(c) ==
    /\ conn[c].pc = "serving" /\ Viewers(c) # {}
    /\ conn' = [conn EXCEPT ![c] = IF Len(conn[c].queue) >= QueueBound
                                   THEN Ending
                                   ELSE [conn[c] EXCEPT !.queue = Append(@, Failed)]]
    /\ UNCHANGED <<version, pending, page, shown>>

\* The page is gone: receive_text raises, once the command it runs has ended.
Notice(c) == /\ conn[c].pc \in {"greeting", "serving"} /\ Viewers(c) = {}
             /\ conn' = [conn EXCEPT ![c] = Ending]
             /\ UNCHANGED <<version, pending, page, shown>>

\* A possible bug: clients is looked at before the queue is discarded.
EndEarly(c) == /\ conn[c].pc = "ending"
               /\ conn' = [conn EXCEPT ![c] = Unused]
               /\ UNCHANGED <<version, pending, page, shown>>

\* The handler's finally, and browser_closed with restrict as far as its await.
End(c) == /\ conn[c].pc = "ending"
          /\ IF Clients = {c} /\ pending
             THEN /\ pending' = FALSE /\ version' = version + 1
                  /\ conn' = [conn EXCEPT ![c] = [pc |-> "restricting", queue |-> <<>>]]
             ELSE /\ conn' = [conn EXCEPT ![c] = Unused]
                  /\ UNCHANGED <<version, pending>>
          /\ UNCHANGED <<page, shown>>

\* restrict after it closed the connection: the new state is published.
Restricted(c) == /\ conn[c].pc = "restricting"
                 /\ conn' = [d \in Conns |->
                               IF d = c THEN Unused
                               ELSE IF d \in Listening
                                    THEN [conn[d] EXCEPT !.queue = Put(@, State(version))]
                                    ELSE conn[d]]
                 /\ UNCHANGED <<version, pending, page, shown>>

PageStep(p) == Connect(p) \/ Refused(p) \/ OnClose(p)
HandlerStep(c) == Greet(c) \/ Output(c) \/ Notice(c) \/ End(c) \/ Restricted(c)

Next == \/ Change \/ BeginComparison \/ EndComparison
        \/ \E p \in Pages : Open(p) \/ Leave(p) \/ PageStep(p) \/ AcceptRaises(p)
        \/ \E c \in Conns : HandlerStep(c) \/ CommandFails(c)

\* The event loop runs what is ready, a page's socket drains and its timers
\* fire.  Nobody has to open or close a tab or to end a comparison.
Spec == /\ Init /\ [][Next]_vars
        /\ \A p \in Pages : WF_vars(PageStep(p))
        /\ \A c \in Conns : WF_vars(HandlerStep(c))
--------------------------------------------------------------------------------
(* Properties.                                                              *)

\* No more than the bounded number of browsers and of events waiting for one,
\* and no page without a socket shows a state.
TypeOK ==
    /\ version \in Nat /\ pending \in BOOLEAN
    /\ conn \in [Conns -> [pc : {"free", "greeting", "serving", "ending", "restricting", "ghost"},
                           queue : Seq(Event)]]
    /\ \A c \in Conns : Len(conn[c].queue) <= QueueBound
    /\ Cardinality(Clients) <= MaxClients
    /\ page \in [Pages -> [tab : {"away", "waiting", "joined", "lost"},
                           ws : Conns \cup {NoConn}, retries : 0..Retries]]
    /\ shown \in [Pages -> Nat \cup {Gone, Blank}]
    /\ \A p \in Pages : (page[p].tab = "joined") = (page[p].ws # NoConn)
    /\ \A p \in Pages : (page[p].tab = "joined") = (shown[p] # Gone)

States(queue) == {i \in 1..Len(queue) : queue[i].event = "state"}
Resyncs(queue) == {i \in 1..Len(queue) : queue[i].event = "resync"}

\* What the page of connection c will have shown once its queue is sent.
Newest(c, v) ==
    LET queue == conn[c].queue IN
    \/ Resyncs(queue) # {}
    \/ \E i \in States(queue) : queue[i].data = v /\ \A j \in States(queue) : j <= i
    \/ States(queue) = {} /\ \A p \in Viewers(c) : shown[p] = v

\* No state is lost on the way to a page, however slow the browser: outside the
\* await of a restriction, what a served page shows and what waits for it end in
\* the runtime's state, or in the resync that makes it connect again.
NothingLost ==
    (\A c \in Conns : conn[c].pc # "restricting") =>
        \A c \in Conns : conn[c].pc = "serving" => Newest(c, version)

\* The queues, the resync and the reconnections together keep the promise made
\* to the person in front of the page: see BrowserView.
View == INSTANCE BrowserView WITH state <- version, view <- shown
KeepsViewFresh == View!Spec

\* A comparison does not outlive its surface: when every tab is gone (closed, or
\* told to restart after its last retry) while one of their connections is still
\* subscribed, the comparison ends or somebody comes back to it.  It does outlive
\* it when a handler's ws.accept raised before: that queue is subscribed for ever,
\* and browser_closed takes it for a browser (bridge.py:134-138,170).
LostSurfaceEndsComparison ==
    (/\ pending /\ Clients # {} /\ \A c \in Conns : conn[c].pc # "ghost"
     /\ \A p \in Pages : page[p].tab \in {"away", "lost"})
        ~> (~pending \/ \E p \in Pages : page[p].tab \in {"waiting", "joined"})
================================================================================
