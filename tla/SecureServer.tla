------------------------------ MODULE SecureServer ------------------------------
(***************************************************************************)
(* network/secure.py's SecureServer: the accept loop, one task for every    *)
(* accepted socket from before its TLS handshake until it is closed, and    *)
(* close(), which may run twice at once and may itself be cancelled (it is  *)
(* called from the command of a browser page, and dies with that page).     *)
(*                                                                          *)
(* A slot is an accepted socket and its task.  The handler is the owner's:  *)
(* it may return, fail, wait for ever, or have its connection closed by     *)
(* somebody else, whose close_writer is then the one that is waited for.    *)
(***************************************************************************)
EXTENDS Naturals, FiniteSets

CONSTANTS Slots,           \* sockets alive at once in the model
          MaxConnections,  \* max_connections
          Backlog,         \* model bound: connections that wait for accept
          Closers          \* callers of close()

ASSUME ServerAssumption ==
    MaxConnections \in Nat \ {0} /\ Backlog \in Nat /\ IsFiniteSet(Slots)

VARIABLES acceptor,   \* the accept task: running, dead (sock_accept raised),
                      \* cancelling, stopped
          listening,  \* the listener is open
          waiting,    \* connections in its backlog
          pc,         \* per slot: where its task is
          cancelled,  \* per slot: task.cancel() was called and is not delivered
          sock,       \* per slot: open, closing, closed
          sockets,    \* SecureServer._sockets
          closer,     \* per caller of close(): where it is
          awaited     \* per caller: the tasks it gathers

taskVars == <<pc, cancelled, sock, sockets>>
closeVars == <<closer, awaited>>
vars == <<acceptor, listening, waiting, taskVars, closeVars>>

\* SecureServer._tasks: a task leaves it by the callback that follows its end.
Tasks == {k \in Slots : pc[k] # "none"}
Live == {k \in Tasks : pc[k] # "over"}

Init == /\ acceptor = "running" /\ listening = TRUE /\ waiting = 0
        /\ pc = [k \in Slots |-> "none"]
        /\ cancelled = [k \in Slots |-> FALSE]
        /\ sock = [k \in Slots |-> "closed"]
        /\ sockets = {}
        /\ closer = [x \in Closers |-> "idle"]
        /\ awaited = [x \in Closers |-> {}]
--------------------------------------------------------------------------------
(* The accept loop.                                                         *)

Arrive == /\ listening /\ waiting < Backlog
          /\ waiting' = waiting + 1
          /\ UNCHANGED <<acceptor, listening, taskVars, closeVars>>

\* Refused at the bound, by closing it; or given a task that owns it.
Accepting(held) ==
    /\ acceptor = "running" /\ waiting > 0
    /\ waiting' = waiting - 1
    /\ IF held >= MaxConnections
       THEN UNCHANGED taskVars
       ELSE \E k \in Slots :
              /\ pc[k] = "none" /\ sock[k] = "closed"
              /\ pc' = [pc EXCEPT ![k] = "new"]
              /\ sock' = [sock EXCEPT ![k] = "open"]
              /\ sockets' = sockets \cup {k}
              /\ UNCHANGED cancelled
    /\ UNCHANGED <<acceptor, listening, closeVars>>

\* A possible bug: the bound counts established connections only.
AcceptUncounted == Accepting(Cardinality({k \in Slots : pc[k] = "handler"}))

Accept == Accepting(Cardinality(Tasks))

\* sock_accept raises (no descriptors, say): nothing restarts the loop.
AcceptFails == /\ acceptor = "running"
               /\ acceptor' = "dead"
               /\ UNCHANGED <<listening, waiting, taskVars, closeVars>>

AcceptorStops == /\ acceptor = "cancelling"
                 /\ acceptor' = "stopped"
                 /\ UNCHANGED <<listening, waiting, taskVars, closeVars>>
--------------------------------------------------------------------------------
(* The task of one connection: _establish and _handle.                      *)

Moves(k, to) == /\ pc' = [pc EXCEPT ![k] = to]
                /\ cancelled' = [cancelled EXCEPT ![k] = FALSE]
                /\ UNCHANGED <<acceptor, listening, waiting, closeVars>>

Begin(k) == /\ pc[k] = "new" /\ ~cancelled[k]
            /\ Moves(k, "handshake") /\ UNCHANGED <<sock, sockets>>

\* Cancelled before its first instruction: no finally block closes the socket.
NeverRuns(k) == /\ pc[k] = "new" /\ cancelled[k]
                /\ Moves(k, "over") /\ UNCHANGED <<sock, sockets>>

HandshakeDone(k) == /\ pc[k] = "handshake" /\ ~cancelled[k]
                    /\ Moves(k, "greet") /\ UNCHANGED <<sock, sockets>>

\* A possible bug: a handshake has no time-out of its own.
HandshakeCancelled(k) == /\ pc[k] = "handshake" /\ cancelled[k]
                         /\ Moves(k, "over")
                         /\ sock' = [sock EXCEPT ![k] = "closed"]
                         /\ sockets' = sockets \ {k}

\* Refused, timed out or cancelled: there is no writer, the socket is closed.
HandshakeEnds(k) == /\ pc[k] = "handshake"
                    /\ Moves(k, "over")
                    /\ sock' = [sock EXCEPT ![k] = "closed"]
                    /\ sockets' = sockets \ {k}

\* The peer is the pinned one and has been sent the session identifier.
Greeted(k) == /\ pc[k] = "greet" /\ ~cancelled[k]
              /\ Moves(k, "handler") /\ UNCHANGED <<sock, sockets>>

\* _handle's finally: close the connection, unless somebody else is at it.
Closing(k) == IF sock[k] = "open"
              THEN /\ Moves(k, "close")
                   /\ sock' = [sock EXCEPT ![k] = "closing"]
                   /\ UNCHANGED sockets
              ELSE /\ Moves(k, "over")
                   /\ sockets' = sockets \ {k}
                   /\ UNCHANGED sock

GreetFails(k) == pc[k] = "greet" /\ Closing(k)
HandlerEnds(k) == pc[k] = "handler" /\ Closing(k)

\* restrict, disconnect or a failed send closes the connection from another task.
ClosedOutside(k) == /\ pc[k] = "handler" /\ sock[k] = "open"
                    /\ sock' = [sock EXCEPT ![k] = "closing"]
                    /\ UNCHANGED <<acceptor, listening, waiting, pc, cancelled,
                                   sockets, closeVars>>

\* close_writer: the transport is closed, or aborted on time-out or cancellation.
OutsideCloseEnds(k) == /\ sock[k] = "closing" /\ pc[k] # "close"
                       /\ sock' = [sock EXCEPT ![k] = "closed"]
                       /\ UNCHANGED <<acceptor, listening, waiting, pc, cancelled,
                                      sockets, closeVars>>

CloseEnds(k) == /\ pc[k] = "close"
                /\ Moves(k, "over")
                /\ sock' = [sock EXCEPT ![k] = "closed"]
                /\ sockets' = sockets \ {k}

\* The done callback.
Discard(k) == /\ pc[k] = "over"
              /\ Moves(k, "none") /\ UNCHANGED <<sock, sockets>>

\* What the peer and the handler do, and nobody makes them do.
FreeStep(k) == \/ HandshakeDone(k) \/ Greeted(k) \/ HandlerEnds(k) \/ ClosedOutside(k)

\* What the event loop and the time-outs bring about.  A handler ends when it was
\* cancelled or lost its connection.
TaskStep(k) == \/ Begin(k) \/ NeverRuns(k) \/ HandshakeEnds(k) \/ GreetFails(k)
               \/ CloseEnds(k) \/ Discard(k) \/ OutsideCloseEnds(k)
               \/ (cancelled[k] \/ sock[k] # "open") /\ HandlerEnds(k)
--------------------------------------------------------------------------------
(* close().                                                                 *)

At(x, to) == closer' = [closer EXCEPT ![x] = to]

CloseBegin(x) == /\ closer[x] \in {"idle", "abandoned"}
                 /\ At(x, "stopping")
                 /\ acceptor' = IF acceptor = "running" THEN "cancelling" ELSE acceptor
                 /\ UNCHANGED <<listening, waiting, taskVars, awaited>>

ClosingDown(x, victims) ==
    /\ closer[x] = "stopping" /\ acceptor \in {"dead", "stopped"}
    /\ listening' = FALSE /\ waiting' = 0
    /\ cancelled' = [k \in Slots |-> cancelled[k] \/ k \in victims]
    /\ awaited' = [awaited EXCEPT ![x] = Tasks]
    /\ At(x, "gathering")
    /\ UNCHANGED <<acceptor, pc, sock, sockets>>

\* A possible bug: close waits for the connections to end by themselves.
CloseWaits(x) == ClosingDown(x, {})

\* The listener goes with its backlog; every task is cancelled and gathered.
CloseListener(x) == ClosingDown(x, Live)

Gathered(x, left) ==
    /\ closer[x] = "gathering" /\ awaited[x] \cap Live = {}
    /\ sock' = [k \in Slots |-> IF k \in left THEN "closed" ELSE sock[k]]
    /\ sockets' = sockets \ left
    /\ awaited' = [awaited EXCEPT ![x] = {}]
    /\ At(x, "closed")
    /\ UNCHANGED <<acceptor, listening, waiting, pc, cancelled>>

\* A possible bug: the sockets of tasks that never ran are left as they are.
CloseForgets(x) == Gathered(x, {})

CloseSockets(x) == Gathered(x, sockets)

\* The task that called close() is cancelled, and with it what it gathers.
Abandon(x) ==
    /\ closer[x] \in {"stopping", "gathering"}
    /\ cancelled' = [k \in Slots |-> cancelled[k] \/ k \in awaited[x] \cap Live]
    /\ awaited' = [awaited EXCEPT ![x] = {}]
    /\ At(x, "abandoned")
    /\ UNCHANGED <<acceptor, listening, waiting, pc, sock, sockets>>

CloseStep(x) == CloseListener(x) \/ CloseSockets(x)

Next == \/ Arrive \/ Accept \/ AcceptFails \/ AcceptorStops
        \/ \E k \in Slots : TaskStep(k) \/ FreeStep(k)
        \/ \E x \in Closers : CloseBegin(x) \/ CloseStep(x) \/ Abandon(x)

\* Connections are accepted and shutdowns go on; nobody has to connect, to call
\* close() or to give it up.
Spec == /\ Init /\ [][Next]_vars
        /\ WF_vars(Accept) /\ WF_vars(AcceptorStops)
        /\ \A k \in Slots : WF_vars(TaskStep(k))
        /\ \A x \in Closers : WF_vars(CloseStep(x))
--------------------------------------------------------------------------------
(* Properties.                                                              *)

\* No more than the bounded number of connections has a task, at any stage, and
\* no more sockets are open (secure.py:98).  A task that has not handed its
\* connection over still has its socket, open and remembered; an open socket is
\* always remembered, and has a task unless the listener is closed, when close()
\* sees to those whose task never ran (secure.py:176-179).  A socket that another
\* task's close_writer is closing is not counted: its own task may be over before.
TypeOK ==
    /\ acceptor \in {"running", "dead", "cancelling", "stopped"}
    /\ listening \in BOOLEAN /\ waiting \in 0..Backlog
    /\ pc \in [Slots -> {"none", "new", "handshake", "greet", "handler", "close", "over"}]
    /\ cancelled \in [Slots -> BOOLEAN]
    /\ sock \in [Slots -> {"open", "closing", "closed"}]
    /\ sockets \subseteq Slots
    /\ closer \in [Closers -> {"idle", "stopping", "gathering", "closed", "abandoned"}]
    /\ awaited \in [Closers -> SUBSET Slots]
    /\ Cardinality(Tasks) <= MaxConnections
    /\ Cardinality({k \in Slots : sock[k] = "open"}) <= MaxConnections
    /\ \A k \in Slots : /\ pc[k] \in {"new", "handshake", "greet"} => sock[k] = "open"
                        /\ sock[k] = "open" => k \in sockets /\ (k \in Live \/ ~listening)

\* Once a call of close() has returned, nothing of the server runs any more: no
\* listener, no task, no accepted socket open, whatever stage the connections were
\* at and whether or not another call is under way or was given up half-way.  A
\* socket that another task is closing may be, for up to close_timeout: its own
\* task does not wait for that close_writer, and so neither does close()
\* (secure.py:154-179, connection.py's close).
ClosedLeavesNothing ==
    (\E x \in Closers : closer[x] = "closed") =>
        /\ ~listening /\ acceptor \in {"dead", "stopped"}
        /\ \A k \in Slots : k \notin Live /\ sock[k] # "open"

\* A shutdown ends, whatever the peers and the handlers do.
ShutdownEnds ==
    \A x \in Closers : closer[x] \in {"stopping", "gathering"}
                           ~> closer[x] \in {"closed", "abandoned"}

\* A peer that connects and stays silent gives its place up: its task reaches
\* the handler or ends.
SilentPeerLeaves ==
    \A k \in Slots : pc[k] \in {"new", "handshake", "greet", "close"}
                         ~> pc[k] \in {"handler", "none"}
================================================================================
