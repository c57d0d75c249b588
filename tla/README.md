# TrustWeave in TLA+

TrustWeave is a two-person chat in which two laptops, Alice's and Bob's, hold a
mutually authenticated TLS connection, and in which nobody can chat before both
people have compared a safety code and both have pressed MATCH.  Alice's side
watches the connection; when its behaviour looks wrong it pauses the chat, asks
both people to compare again and, if they agree, replaces the TLS connection.
This directory specifies that behaviour, checks it with TLC on small instances
and proves part of it with TLAPS for instances of every size.

## 1. The system

Each of the two processes is one asyncio event loop.  Code between two awaits is
atomic, so a step of every module here is the code between two awaits.

| Component (source) | State | Operations |
|---|---|---|
| Coordinator (`chat/coordinator.py`) | gate state, connection, generation, outbox, seen ids | transition, attach, queue_chat, flush_one, control, receive |
| Endpoint (`chat/runtime.py`) | messages, deliveries, dual, resume, timers, two locks | command, send_chat, confirm, handle, read_loop, restrict, disconnect, reserve_recovery |
| BobRuntime (`chat/runtime.py`) | listener, occupied, latency queue, mode | start_server, accept, handle, delay_loop, disconnect |
| AliceRuntime (`chat/alice.py`) | guard, measure and burst tasks, ping, approved_recovery, recovery_ready | connect, measure_loop, assess, respond, recover, reconnect_burst, handle, disconnect, restrict |
| DualVerification (`chat/verification.py`) | the two decisions, the ready future | decide, fail |
| FramedConnection (`network/connection.py`) | closed flag, send lock, receiving flag | send, receive, close |
| SecureServer, connect (`network/secure.py`) | listener, accept task, tasks, sockets | start, accept loop, establish, handle, close; client handshake |
| SessionGuard (`verification/session_guard.py`) | verified, restricted, context, key age, lock | assess, restrict, close |
| RelationshipStore (`storage/`) | relationships, sessions, events | start/finish_session, verification, assessment, restrict |
| Trust scoring (`trust/`, `network/metrics.py`, `network/snapshot.py`) | score, baselines, bounded records, windows of round trips and establishments | record, snapshot, normalise, assess, decide |
| Experiments (`experiments/`) | a guard and a trace | run_trace, evaluate, summarize |
| Browser bridge (`chat/bridge.py`, `chat/chat.js`) | one event queue per socket, one command task per socket; in the page, its socket and retries | subscribe, publish, websocket, browser_closed; connectBrowser |
| Dashboard (`dashboard/`) | one guard, one task | begin, resolve, stop |

How they interact.  Bob's `SecureServer` hands every authenticated connection to
`accept`, which attaches it or turns it away.  Alice's `_connect` builds a
`SessionGuard` around the gate.  Her `measure_loop` sends a heartbeat, feeds the
measurements to `SessionGuard.assess`, and that calls back: `respond` to have
both people compare, `recover` to replace the connection.  Controls travel
through the gate's connection whatever the chat gate says; chats only while the
gate is ACTIVE.  Both processes end a session by `restrict`, on any error.  A
browser socket is the task of its commands: when it is lost, the command is
cancelled at the await where it stands.

What is hard here: (1) two people decide at any moment, in messages that cross;
(2) on Alice two tasks, the reader, timers and browser commands move one gate
between each other's awaits; (3) chats wait for a lock while the gate moves;
(4) the connection is replaced in mid-protocol, with retries, while a timer runs
and while Bob may not have noticed that the old one is gone; (5) every send can
fail, be cancelled, or fail after its bytes are gone; (6) state survives a
session on Alice (database, `approved_recovery`, the collector's records) and
must not speak for the next one; (7) queues, tables and the set of connections
are bounded, and what happens at the bound must lose nothing that matters; (8)
close() may run twice at once and may be cancelled half-way; (9) a decision is
taken from averages, ramps and thresholds, whose edges matter.  `PROJECT.json` lists the hazards line by line with the properties
that watch them.

## 2. Modules

| Module | Models |
|---|---|
| `ChatStates` | the seven gate states, the transition table, the generation counter |
| `ChatGate` | one endpoint's chat: coordinator, send lock, send_chat and its deliveries, acknowledgements, reader; what moves the gate is any legal move |
| `MCChatGate` | `ChatGate` with numbers |
| `ChatGateProofs` | two inductive invariants of `ChatGate` and seven theorems, for all its safety properties |
| `ChatEndpoint` | what both processes share: connections, messages, restrict, confirm, read_loop, disconnect |
| `ChatBob` | listener, admission of connections, reservation, Bob's handlers |
| `ChatAlice` | measure_loop and guard.assess, respond, recover, reconnect_burst, Alice's handlers |
| `ChatSession` | the two processes, the network handshake between them, the two people; properties |
| `MCChatSession` | `ChatSession` with numbers |
| `SessionProofs` | the type invariant of `ChatSession`, inductive with what the wires carry, and the one for `BothPeopleMatched`; two theorems |
| `SessionFresh` | the inductive invariants for `RecoveredOnFreshTLS` and `PendingComparisonPauses`; two theorems |
| `SessionTalk` | the inductive invariant for `HonestPeerNotRefused`; one theorem |
| `ChatCalm` | `ChatSession` restricted to schedules in which nothing goes wrong |
| `RelationshipStore` | the transactions of the database: the verified flag and the session rows |
| `TrustGuard` | `SessionGuard`: assess, verify, reestablish, restrict, with transactions that raise |
| `Dashboard` | the dashboard's runtime around it: begin, communicate, resolve, stop, close, a crash; properties |
| `MCDashboard` | `Dashboard` with numbers |
| `DashboardProofs` | two inductive invariants of `Dashboard` and seven theorems |
| `TrustScore` | the arithmetic of a decision: ramps, weights, moving average, reset, thresholds |
| `TrustMonitor` | what makes Alice's guard ask: measurements, their bounded record, snapshots, decisions, over several sessions; properties |
| `MCTrustMonitor` | `TrustMonitor` with numbers |
| `TrustProofs` | three inductive invariants of `TrustMonitor` and five theorems |
| `Experiments` | every trace of `experiments/` under every policy, replayed through `TrustScore`; properties |
| `BrowserView` | abstract: what a person in front of the page is promised |
| `Browser` | bounded event queues, the websocket handler, the page's reconnections; properties; implements `BrowserView` |
| `BrowserProofs` | the inductive invariant of `Browser` and three theorems, one of them the refinement's safety |
| `SecureServer` | accept loop, bound, a task per socket, overlapping and cancelled close(); properties |
| `ServerProofs` | the inductive invariant of `SecureServer` and two theorems |

Operators that no specification uses and whose comment begins with "Mutant" (or
that stand directly before the definition they are a variant of) are plausible
mistakes in the code; `PROJECT.json` names the property each of them breaks.

### ChatGate

`state`, `generation` and `connection` are the Coordinator; `session` counts
Coordinators, since `start_server` and `_connect` make a new one.  `writer`,
`wconn` and `ahead` are the coroutines inside `FramedConnection.send`, with the
asyncio lock as an order between them (asyncio.Lock is first come, first
served); `ticket` is what `flush_one` captured for `permitted`.  `deliveries`
and `slotGen` are `Endpoint.deliveries`.  At most one chat is being sent,
because `_command_lock` serialises commands; the outbox never holds more than
that chat, because `queue_chat` and `flush_one` have no await between them.
`approval`, `born`, `written` and `badAck` are history, read by properties only.

### ChatEndpoint, ChatBob, ChatAlice, ChatSession

`gate`, `conn`, `dual`, `resume`, `closing` are the fields of the same name of
each Endpoint (`resume` is Bob's; `gate` and `conn` are the Coordinator's state
and connection).  `link[c]` is a TLS connection: which ends are open and the
frames under way to each end.  `reader[r]` is `read_loop` with the message it is
handling; `cmd[r]` is the command that holds `_command_lock`.  `verification_lock`
is not a variable: it is held exactly while `confirm` or the proof's handler
awaits a send (`LockFree`).  On Alice `task` says where `measure_loop` and
`reconnect_burst` are, by the await they stand at; `asked`, `approved`, `ping`
and `recovered` are respond's local request, `approved_recovery`, the
heartbeat's future and `recovery_ready`.  On Bob `server` is the listener and
`cand[c]` the connections in `accept`, with the reservation each of them read.
An await is a pair of actions: one up to it, one after it, and the second has a
disjunct for the exception.  A frame goes on the wire when its send begins; a
frame that would still have been waiting when the connection closes is lost like
one in flight, which `Shut` allows.

A verification request's and a burst's identifier are numbers below `MaxIds`.
There is one relationship, so relationship checks never fail and are left out;
MISMATCH and CANCEL are one decision.  An assessment's result is any of: nothing,
verify, rotate.

### RelationshipStore, TrustGuard, Dashboard

`SessionGuard` has two users.  `ChatAlice` models what Alice's chat sees of it,
without a store, since she drops the verified flag when she connects
(`alice.py:82`).  `Dashboard` is the other user: it starts from that flag, and
there the store and its failures decide what may open.

`db` is the database: the relationship's verified flag and a row for each
session.  `conn[s]` is a connection with its verification gate: gated is open
with `_verification_pending`, open carries application data.  `guard[g]` is the
SessionGuard of the g-th begin, `current` is `Runtime.guard`, `latest` is
`Runtime.task`, and `answer` says whose `respond` waits for `Runtime.answer`.
`task[g]` says at which await `communicate` stands: for the guard's lock, in
`respond`, in the connector, in `send` and `receive`, in `sleep`, or in a close.
`first` distinguishes the assessment before the loop from the later ones.

A step is the code between two awaits, and each of its transactions may raise.
A disjunct of the action then leaves the store with the transactions committed
before, followed by what the guard's own restriction commits, which may raise as
well (`RestrictionTried`).  The trust score is not modelled here: assess of a
verified relationship demands a comparison, finds the key old or does neither.
`Crash` may come between any two steps; the store survives it.
Two kinds of request are in the model because nothing in the code excludes them:
a second begin while the first connects, and a stop before the task's first step
or during its close.  `RaceKinds` bounds which of the two may occur.

### TrustScore, TrustMonitor, Experiments

The code computes in floating point.  `TrustScore` computes in hundred-thousandths
of a point, rounded down at every division, and a measurement is in thirtieths of
its baseline; the ramps, the weights, the moving average, the reset on a new
relationship and the comparisons with the thresholds are those of the code, on
the same side of each edge.  A measurement that is missing scores half.

`TrustMonitor` is the path of one number: a connection records its handshake,
its address and the establishments of the last minute (`Starts`), a heartbeat
its round trip and the variation over a window (`Pong`), into one bounded record
that outlives sessions; the snapshot filters it by session and age (`raw`), the
engine scores the snapshot, `decide` turns score and drop into a reason, and the
guard opens, asks or rotates (`Assess`, `Ask`).  A unit of time is the 30 seconds
after which a record is stale.

The cadence of the heartbeat (`beating`, `interval`) is the runtime's and not a
session's.  `recover` forgets it (`Recovers`), a connection the user makes does
not (`Connect`): its assessment scores the cadence of the session before, and its
first heartbeat the gap since that session's last one (`Gaps`).

A reconnect burst stands at one of its awaits: `wait` for an assessment under
way, `announce` the next connection, `closing` the old one and opening the new
(gate `replacing`, which is RECONNECTING), `next` after it.  `measure_loop` looks
for a burst before it sleeps, so one heartbeat may still come at any of these
(`late`), and its assessment may ask.  `asked` says for which comparison the
guard waits: `yes`, one that can be answered; `refused`, the gate is RECONNECTING
and `begin_verification` raises, which restricts; `lost`, it was asked for on the
connection that the burst had announced to replace: the answer cannot come, and
the burst opens the chat over it.

A comparison, which is many steps in `ChatSession`, is one here; `ChatSession`
has the converse abstraction, where any assessment may ask.  The two are not
composed.  `startAt`, `lastRtt` and `odd` are history.

`Experiments` replays the traces of `experiments/` through the same operators.
A behaviour is one trace under one policy, a step one observation.  What the
documents say the traces yield is stated to the fourth decimal
(`DocumentedOutcomes`), which also ties the integer arithmetic to the code's.

### Browser, BrowserView

`version` numbers the states of the chat.  `conn[c]` is a websocket handler and
its queue: `greeting` before the snapshot of `output`, `serving`, `ending` after
one of its tasks ended, `restricting` in `browser_closed`, and `ghost` when
`ws.accept` raised, which is awaited outside the try: its queue stays subscribed.  `page[p]` is a tab
with its socket and `browserRetries`; a tab is told once and for all that the
service is unavailable (`lost`) when its retries are used up.  `shown` is what
the tab displays.  The abstract `BrowserView` has no queues: pages join, leave,
and show states the chat really was in, and a page that is connected catches up
with the newest, or is told that it cannot.

### SecureServer

A slot is an accepted socket with its task: `new` (created, not yet run),
handshake, greeting, handler, closing its own or waiting for another's close.
`cancelled` is a `task.cancel()` that has not been delivered, `closer[x]` one
call of close() with the tasks it gathers (`awaited`).  The handler is the
owner's and may do anything: return, fail, wait for ever, or find its connection
closed by somebody else.  In that case the socket is `closing` until the other's
`close_writer` ends (at most `close_timeout`), and its own task does not wait for
it: the bound counts tasks, and with them open sockets, but not a socket that is
closing so (`TypeOK`), and close() may return before it is closed
(`ClosedLeavesNothing`).  A caller of close() may be cancelled at each of its
awaits, because close() runs in the command of a browser page.

## 3. Runs

| Run | Question | Bounds |
|---|---|---|
| `gate_safety` | is a chat ever written, or reported delivered, under another approval than the one it was sent under? | 2 chats, a delivery table of 1, 2 connections, 2 sessions, 2 approvals, 1 lost socket |
| `gate_settles` | does a chat stay "sending"? is it still safe when the peer chats too? | 2 chats, a table of 2, 1 connection, 1 session, 2 approvals, 1 peer chat |
| `session_safety` | do the gates open only for two people, pause while a comparison is pending, recover only on fresh TLS, do honest peers understand each other, and does one session leak into the next? | 2 sessions each, 3 connections, 2 requests, 2 attempts, sockets may be lost |
| `session_fair` | does every comparison and every recovery end, and is a reconnect burst safe? | 2 connections, 2 ids, 1 burst |
| `session_calm` | do both gates open, and open again after each verification? | 4 connections, 4 requests, so that three recoveries follow the first comparison |
| `dash_safety` | is everything that carries data verified and ACTIVE on record; does a comparison that is owed or has failed shut everything; is anything left open; is a compared connection ever used again, also when begins overlap and stops are hasty? | 2 begins, 4 connections, 2 steps that raise, 1 crash |
| `trust` | is only the current session's connection scored, does an open gate mean a score that is not low and no comparison pending, whatever a burst does, and does a mild condition alone ever ask? | 3 sessions, 3 heartbeats, a record of 12, a window of 2 round trips, bursts of 2, 2 changes of condition, rotation after 2 units |
| `experiments` | do the traces yield what the documents say, is every anomaly caught within its episode, is a normal trace never asked about? | all traces, all policies of the sweep and of the pilot |
| `browser` | do the bounded queues implement the view a person is promised, and does a comparison end with its surface? | 2 tabs, 3 handlers of which 2 may subscribe, queues of 2, 1 retry, 2 changes |
| `server` | is every place a task with its socket, does close() leave nothing behind and end, and does a silent peer lose its place? | 3 slots, 2 places, 1 waiting connection, 2 callers of close() |
| `session_stale`, `dash_overlap` | two statements of the documents and of the code's own text that it does not keep (section 5) | as above; `dash_overlap`: 2 begins, 3 connections |

Why these bounds are enough.  Two chats and a table of one make a chat wait for
another's slot; two approvals and two connections make a chat's approval, its
connection and its session all go stale independently.  In the session, three
connections are a first one, one lost attempt and a successful recovery (or two
recoveries); two identifiers are the first comparison and a second one that ends
in a recovery; the violation run and `session_calm` use three and four.  Two
sessions are enough for anything to survive a session.  A session counts once it has a
connection: a listener that is stopped, or an attempt to connect that fails,
before that uses nothing up.  When a bound is reached
the action it guards (`Established`, `AssessVerifies`, `BurstNext`) is disabled,
which the safety properties do not notice; in `session_fair` it can only stop a
gate that is ACTIVE, or an attempt to reconnect, which may always fail instead.

On the dashboard two begins are a session and one that finds what it left (or
that races it); four connections let a session replace its connection after a
comparison and again after a rotation.  A second step that raises is needed for a
restriction that fails after a transaction that failed.  The properties that hold
only while the store does not raise, nothing crashed or no request raced say so
in their antecedent; the run has executions of every kind.

In `trust` a record of twelve holds two sessions' rows with their first heartbeat
and loses the oldest to the next; three sessions are a first one and two that replace it,
by a burst, a recovery or the user, and put two establishments inside the
window and one outside; three heartbeats with a window of two make the variation
forget a slow one; two changes of condition are a simulated address and a burst,
in either order; the clock's two units are past the age of a record and a
rotation.  The stored score is a perfect one of a known relationship, from which
one bad snapshot is the deepest drop; comparisons and slow heartbeats take it down
to the lower threshold.  The run has three million states; it reaches a sudden
drop, low trust and a rotation, a comparison lost to a burst with the gate open
again, one refused, one asked for between two connections of a burst, and a sudden
drop from an inherited gap and a simulated address.  That a score may be low under
such an open gate takes a lower score at first; the theorem has any.  `experiments` has
no bounds: the traces and policies are the code's own.

In `browser` a queue of two overflows at the third event, of which two changes,
an error and a comparison's states give enough; a third handler is one that is
still ending while the page has connected again, and finds both places taken, or the ghost of one
that failed, and two ghosts shut every page out; a
retry of one makes the second resync the last.  In `server` two places of three
slots let a closed socket's task overlap its successor's, and the bound refuse
one; two callers of close() overlap and give up independently.

Deadlock is not checked (`CHECK_DEADLOCK FALSE`) except in `browser`: people may
stop, and the sessions, chats, begins and connections of a run are bounded, so a
run does end.  In `browser` a tab can always be opened again.

### Fairness

`gate_settles` and `session_fair` assume that the event loop runs every
coroutine that can run, that every send ends (the `io_timeout` of
`FramedConnection.send`), that a connection attempt ends (`connect_timeout`) and
that timers fire (`begin_verification`, `reserve_recovery`, `verify`'s
wait_for).  Nothing is assumed about people, about the network delivering
anything, or about new sessions.  `gate_settles` excludes cancelled commands
(`MaxCancels = 0`): `send_chat` catches `Exception` only, so a chat whose socket
is lost during its send does stay "sending" until the session ends.
`session_fair` excludes lost sockets (`TabsClose = FALSE`) for the same reason:
a disconnect cancelled half-way leaves the gate where it was.

`browser` assumes that a handler's tasks run, that a socket that is open drains
and that a page's timer and close event come; nobody has to open or close a tab,
to change the chat or to end a comparison.  `server` assumes that the accept loop
and every task that can run does, and that timeouts fire, so a handshake, a
greeting and a close end.  Nothing makes a handshake or a greeting succeed, a
handler return, or anybody call close() or give it up.

`session_calm` is a statement about `CalmSpec`, not about every schedule: no
connection fails, no timer fires, nobody disconnects, both people answer MATCH
once per request, and the frames on a connection are read before its replacement
is accepted.  Without the last assumption Bob may still hold the slot for the
old connection and turn the new one away (`runtime.py:409`), and Alice does not
try again.

### Refinement

`Browser` implements `BrowserView`: `View == INSTANCE BrowserView WITH state <-
version, view <- shown`, and `KeepsViewFresh == View!Spec` is checked by TLC with
its liveness.  The bounded queue, the resync and the snapshot on connecting are
what makes a page behind catch up (`Settle`); a page whose retries are used up is
told so, which is the other way `Settle` allows.

## 4. What is proved

### The gate

`ChatGateProofs` proves, for any number of chats, connections, sessions,
approvals and any queue size, from `BoundsAssumption` (all are natural numbers)
alone:

* `TypeCorrect`: `Spec => []TypeOK`;
* `WrittenSafe`: a chat is written only under the approval it was submitted under;
* `SlotsSafe`: the delivery table is empty outside ACTIVE and VERIFYING;
* `DeliveredSafe`: "delivered" is announced only while that approval holds;
* `DeliveredShown`: what is reported as delivered was displayed by the peer;
* `AcksKnown`: an acknowledgement of an honest peer never is the "unknown
  acknowledgement" that ends a session;
* `FinalStays`: no step takes back a status that is final.

The argument.  None of the three in the middle is inductive.  The invariant `IInv` adds
that the generation never decreases within a Coordinator and grows whenever the
gate leaves ACTIVE, so that (a) a chat holding a ticket with the current session
and generation was submitted in the present opening of the gate, and (b) every
slot of the delivery table has a generation of the current Coordinator, and the
current one exactly if it was made in the present opening.  From (a)
`permitted` implies that `born` is the current approval; from (b) the comparison
in the handler of `chat_ack` does.  `FailDeliveries` on every way out of ACTIVE
and VERIFYING but the two into each other is what keeps (b) when a new
Coordinator starts counting from zero.

The last three are about where a chat is.  The second invariant, `FInv`, says
that a chat is in one place: behind a ticket for the lock, or in one direction of
one connection, never twice (`WiresOK`, `ChatOK`); that the acknowledgements on
their way are of chats the peer displayed; that the reader reads the gate's
connection (`ReaderOK`); that every chat on the wires of a usable connection,
either way, has a slot in the delivery table (`AckOK`); and that a chat with a
final status is on no wire to the peer and behind no ticket, and was displayed if
that status says so (`StatusOK`).  So when the reader takes an acknowledgement it
finds a slot, and `flush_one`, which writes "sent" after an await, does so for a
chat whose status is not final.  An action that leaves some of these variables
alone keeps the parts about the others by one lemma each (`QuietOK` and its
parts); the steps that move a chat have their own.

### The session

`SessionProofs`, `SessionFresh` and `SessionTalk` prove about `ChatSession`, for
any number of connections, comparisons, sessions and bursts, from
`EndpointAssumption` and `SessionAssumption`:

* `SessionProofs!TypeCorrect`: `Spec => []TypeOK`;
* `BothMatched`: `Spec => []BothPeopleMatched`, no gate opens on one person's word;
* `RecoveredFresh`: `MaxBursts = 0 => (Spec => []RecoveredOnFreshTLS)`, what a
  comparison was to open on fresh TLS never opens on the connection it was made on;
* `PendingPauses`: `MaxBursts = 0 => (Spec => []PendingComparisonPauses)`, no gate
  is open while a comparison is pending at its endpoint;
* `HonestNotRefused`: `MaxBursts = 0 => (Spec => []HonestPeerNotRefused)`, in the
  first session of each, neither runtime refuses a frame of the other.

The argument for the types.  The handlers take frames apart, and each has a case
only for the frames its peer ever sends; so the invariant `IType` says what is on
the wires and what a reader holds while it waits for `verification_lock` (`Wires`
and `Held`, over the set `Spoken` of each direction).  It says that Bob's reader
sits on the connection of his only chat slot (`SeatOK`), which is what makes the
connection in every frame he handles one of the model's, and that a session that
is being dialled has room (`RoomOK`).  The steps are sorted by whose they are
(`AliceStep`, `BobStep`, `OwnStep`), and for each sort a lemma says what it leaves
alone, what it writes to the wires and where it moves the readers.

The argument for the approvals follows an answer from the human to the gate.
`AnswersOK` says that a MATCH in a command under way, on a wire, at a reader or
counted in a dual was given by the human it is said to come from, for the
comparison it is counted for.  `AInv` says that what Alice's respond waits for is
her local request, that past "ready" both people matched it (`RespondOK`), and
that her open gate, her verified guard, a running burst and every task between
the approval and the reopened gate rest on a comparison that both matched
(`AliceBased`); for this her tasks must be off between sessions (`IdleOK`), or
one of an earlier session could open the gate of the next.  `BInv` says so for
Bob's open gate, his wait for the redial and the approval he keeps for it
(`BobBased`), and that a server that waits for its first peer keeps none
(`BobFree`).

The argument for the fresh connection compares numbers: connections are numbered
as they are established and requests as they are made, by Alice for both
(`NumbersOK`).  Alice's side follows her task: from the moment she records a
comparison for fresh TLS her gate is not open until she has redialled, and the
connection she then has is a new one (`AliceFresh`).  Bob has no such task.  He
opens on whichever connection brings the proof of the recovery he reserved, and
his server may hold several, older ones included.  `InOrder` says why an older one
cannot bring it: there are marks, one per connection, that no result on that
connection exceeds, and a request was made only where every earlier connection's
mark lies below it.  Alice makes a request on the connection she has, and what she
sent on earlier ones was about earlier requests.  So the proof of Bob's
reservation is on no connection before that of the comparison, and not on that
one either, which is his already and no candidate.  `BobFresh` draws the
conclusion for each way in which he moves his gate (`NextBob`).  The theorem has
`MaxBursts = 0` for a hypothesis, as its run has: a burst that runs beside a
comparison lets Alice's gate and Bob's pending comparison move in orders these
invariants exclude, and the theorem claims nothing about it.

The argument for the pause follows the frames on one wire.  At Alice one task
does everything, so a comparison is pending only while that task asks for it,
with her gate closed (`AsksOK`).  Bob's danger is the time between the proof of a
recovery and the "ready" that opens him (`Owed`): a request taken then begins a
comparison, and the "ready" behind it would open the gate with that comparison
pending.  `Precedes` says that no request gets in front.  Call a connection
`Proven` when Bob can still read it and it has brought, or carries as its first
frame to an admitted candidate, the proof of a recovery.  On each of them a
"ready" travels ahead of every request (`ReadyAhead`), and if it is Alice's
present connection, the "ready" is on the wire or she has not reached the point
where she could ask again (`AliceSays`, by `Quiet`: her gate is closed, or her
task is between the proof and the "ready").  It needs `AskedFirst`, that what
Alice sends while she asks is not the first frame of a candidate, so that no
result of a request passes for the proof of a recovery, and `FreshWires`, that a
connection not yet established carries nothing.  At Bob, `WaitsAlone` and
`NotAskedYet` say that a reservation leaves no comparison pending and no request
at his lock; with the first frame of what he reads from `ReadyAhead`, no handler
can begin one before he is open.  The invariant is `IPend`, these with `IFresh`.
TLC found it to hold on the instance of `session_safety` before it was proved;
the theorem says more than the run, whose two comparisons are both used up
before a request could follow a recovery on the same connection.

The argument that nobody refuses an honest frame has to know, for every frame on
a wire, where the other end stands when it arrives.  On one connection Alice
follows a script of four frames (`Frame`): the request, her answer and the
result, or, after the proof of a recovery, the "ready"; then a ping or, when the
comparison was to be followed by fresh TLS, the announcement that she redials.  A
ping, once answered, ends the script and the next one begins.  Four numbers place
a connection: Bob has taken n of her frames, she has sent t, and what is between
is on his wire in this order, followed at most by the notice that she leaves
(`Said`); i is the request and f whether it is one of an open session.

* `BobAt` says what each n means for Bob: his gate, his reservation, the
  comparison he has pending and how far it is, and which frame his reader may
  hold when his human's click has `verification_lock`.  `AliceAt` says what each t
  means for her task, and `AliceStands` what her gate and her guard are meanwhile.
* `Sound` adds what the frames promise: a result that Bob has still to judge is
  sent only when both answered MATCH, and her answer, counted, on the wire or in
  his reader's hand, is one.  `Hears` is the same for the other wire: nothing but
  what she waits for, at the places where she waits for it.
* `BobHears` is this on the connection that has the slot, whether or not Alice
  still has hers open.  `Talk` says that when both ends are up the two agree on
  one line (`Line`).  `CandHears` speaks of the connections that wait for the
  slot: each begins a script, or has the proof of a recovery in front.
* The rest is about single runtimes: a decision under way is about the pending
  comparison and a result that confirms has two MATCHes (`Firm`), a heartbeat is
  under way only at certain places (`Paced`), nothing of a session is left before
  the first (`Once`), and a frame that waits for Bob's lock leaves him no
  reservation (`Holds`).

Each step of Alice goes on with the script (`StepOn`), unless she dials, and then
a new line begins (`DialledTalks`, `RedialledTalks`); each step of Bob takes his
place to one of the same script or of the next (`SlotOn`, `BobSeats`).  A frame
that fits his place is one he has a case for, and the refusals are never taken
(`BobRight`, `AliceRight`).  `ITalk` is the conjunction, in the first session of
each.  The limit to first sessions is the property's: in a second one Bob does
refuse a frame, through the `approved` that a failed recovery left (section 5,
`session_stale`), and `Once` is the part of the invariant that excludes it.

### The dashboard

`DashboardProofs` proves, for any number of begins, connections, steps that
raise and crashes, with or without overlapping begins and hasty stops, from
`GuardAssumption` and `DashboardAssumption` (the bounds are natural numbers, the
switches Booleans):

* `DashboardTypeCorrect`: `Spec => []TypeOK`;
* `FreshSafe`: a connection on which a comparison was demanded never carries
  data again;
* `OpenRecorded`, `OwedShuts`, `FailedShuts`, `NothingLeft`: the other invariants
  of `Dashboard`, each while no request has raced (as they are stated);
* `OneAtATime`: without races, two sessions never run at once.

The argument.  `FreshAfterComparison` alone is not inductive: another task that
assesses the same guard would open the connection.  `IInv` adds that a compared
connection that is still up is gated and that one task waits for its comparison
inside its guard's assess (`ComparedOK`), that no two guards have the same
session and that every number in use was given out (`NumbersOK`), that a guard's
lock has one holder (`LockOK`), and that the guard a task works on has a session
(`OwnersOK`).  So the only guard that could open the connection is locked
(`FreeOK`), and the task that holds the lock closes the connection on every way
out.  Most actions open nothing, demand nothing and make no session; they
preserve the invariant by one lemma (`QuietOK`).  The three that make a session
share another (`FreshOK`), and `Keeps`, `Triggers` and `Crash` have their own.

The other theorems need that nothing has raced, and the second invariant is
`JInv == IInv /\ (races = {} => Lone)`.  `Lone` says that one task is alive, that
it works on its own guard and that it is the one `begin` made last (`AloneOK`);
that an open connection is the running session's, and that a guard's flags and
the store's row agree (`RecordOK`); what a task has done when it stands at the
awaits between a demanded comparison and the new connection (`PlaceOK`); and, as
long as the store did not raise and the process did not crash, that nothing is
left of an earlier session and that a comparison that is owed or failed took the
stored verification away (`HistoryOK`).  The last holds because the guard stores
the restriction before the task gives up, and because only a comparison that
succeeds stores the verification again.

### The trust monitor

`TrustProofs` proves, for every capacity, window, rotation age, set of
handshakes, history of scores and length of run, from `MonitorAssumption`:

* `TypeCorrect`: `Spec => []TypeOK`, where the type of `score` is 0 to 100
  points, what `decide` and `TrustEngine.assess` raise outside of;
* `OpenIsTrusted`: the gate is open only under a verified guard that waits for no
  comparison and whose score is not below the lower threshold, at every step of a
  reconnect burst too; the one exception is the comparison that a heartbeat asks
  for while a burst announces a connection;
* `ScoredIsCurrent`: a round trip that was scored is the current session's last;
* `CountsEstablishments`: the establishments that were scored are those of the
  minute before their session began;
* `MildNeverAsk`: if the collector has room for five measurements (it has 1024), a
  simulated address, a burst of reconnects, missing readings or the gap since an
  earlier session never make a verified guard ask by themselves; two of them at
  once may.

The argument.  That a score stays in its range is arithmetic: a weighted mean of
values in the range, rounded down, is in it; the lemmas state it once for a ramp,
a weighted sum and the moving average (`RampScore`, `CurrentScore`,
`AssessedScore`) and keep the scale opaque afterwards, since the provers lose
themselves in the constants.  `ScoredRttIsCurrent` needs that every
record carries the number of a session that has begun (`Numbered`): then no
record of a session yet to come exists, and the filter of the snapshot can find
only what this session recorded.  That the last record of a kind exists is a
fact about a finite, nonempty set of positions (`LastExists`).

`OpenIsTrusted` needs to know where the burst stands (`PhaseOK`): while it runs the
guard is verified; it announces only from an open gate, or with the comparison
lost that was asked for meanwhile; while it closes and opens a connection the gate
is `replacing`, unless an assessment was refused, and then the burst is over; and
an open or replaced gate for which nothing was asked has a score that is not low,
since every heartbeat that lowers it asks.

`CountsEstablishments` needs `CInv`: every record of an establishment that is
held says how many sessions began in the minute before its own (`CountsOK`), and
the establishments that are kept are those the last session counted; then those
that are dropped at the next are too old for it as well, whatever the times
between.

`MildNeverAsk` needs `MInv`, for which the scale is unfolded.  A mild snapshot is
worth seventy points (`MildCurrent`: of five signals of twenty points one may be
nothing, an address or a gap, or several half).  One such snapshot moves a score down by nine points at
most, less than the ten of a sudden drop, and not below seventy if it was there
(`MildAssessed`); a comparison leaves seventy-five.  So the score is at least
seventy since the last comparison, unless something was not mild (`AskOK`).  The
worst mild snapshot is the first one, when there is no cadence yet; it is worth
seventy only because the handshake's record is still there, and that is where the
room in the collector comes in: the records of a session's start and of its first
pong push it five places back (`ShakesOK`).  With room for fewer that
snapshot can be worth sixty, which is a sudden drop from a hundred.

### The browser bridge

`BrowserProofs` proves, for any finite number of handlers, any tabs, queue
bound, number of clients and retries, from `BrowserAssumption`:

* `TypeCorrect`: `Spec => []TypeOK`, which includes both bounds of `Events`;
* `NoneLost`: a page that is served shows the newest state, or has it or a
  resync last in its queue;
* `StepsAreView`: `Spec => View!Init /\ [][View!Next]_<<version, shown>>`, the
  safety half of the refinement.

The argument.  The invariant says that a queue holds states up to `version` only
and in a form that ends well (`QueueOK`), that a handler is viewed by at most one
tab (`OneEach`), and that each served page is covered (`Covered`): its queue ends
with the newest state or a resync, or holds no state and the page shows the
newest.  `Put` preserves it because a full queue is replaced by a resync, and
`Greet` because the snapshot is the newest state.  Refinement follows, for a page
only ever shows a number taken from its queue or the snapshot.

### The secure server

`ServerProofs` proves, for any finite set of slots, any callers, bound and
backlog, from `ServerAssumption`:

* `TypeCorrect`: `Spec => []TypeOK`, which includes that at most
  `max_connections` connections have a task and no more sockets are open, that a
  task which has not reached its handler has its socket, and that an open socket is
  remembered and has a task, or the listener is closed;
* `NothingLeft`: a call of close() that has returned left no listener, no live
  task and no open socket (a socket that another task is closing may still be).

The argument.  The invariant says that an open socket is in `_sockets`
(`Tracked`), that nobody closes the socket of a task before its handler has it
(`Owned`), and that while a call gathers, every live task is among those it
awaits and the accept loop is over, so none is added (`Gathering`).  When the
awaited tasks have ended no live task exists, and the last loop of close()
closes what `_sockets` still holds.  The bound needs that a task is cancelled
only after the accept loop ended and the listener is closed (`Cancelled`): before, every open socket
has a task, and tasks are what the bound counts (`Counted`).

### Only model-checked

Liveness (`ChatSettles`, `TransientStatesEnd`, `BothGatesOpenAgain`,
`ShutdownEnds`, `SilentPeerLeaves`, `LostSurfaceEndsComparison` and the liveness
of `KeepsViewFresh`), since the prover has no rules for fairness here.  And
`Experiments`, whose behaviours are finitely many: TLC visits them all.  Every
other safety property of a passing run is a theorem.

## 5. Where the code and its documents disagree

With a run whose counterexample shows it:

* `session_stale`: after a recovery that failed, Alice's `approved_recovery`
  stays set.  The next session's first comparison, approved by both, makes her
  send a "ready" that Bob refuses; both gates close.
  `docs/two-device-operation.md:67` promises that a reconnect and a comparison
  are enough.
* `dash_overlap`: `begin` tests `self.task`, awaits the connection, and only then
  sets it; two requests that overlap start two sessions, against
  `dashboard/runtime.py:56`: "a session is already running".

Met while modelling, without a run of their own:

* a verification triggered while a burst awaits the send of an announcement does
  not pause the chat: the burst opens the gate with the comparison pending
  (`alice.py:176` against `README.md:17`; `PendingComparisonPauses` is checked and
  proved without bursts, and `OpenMeansTrusted` says that this is the only such
  case);
* the cadence of the heartbeat is forgotten on a recovery only (`alice.py:262-263`):
  after a disconnect and a new connection the first heartbeat scores the pause
  between the two.  With a simulated address selected before it comes the score
  drops by more than ten points, and the address alone seems to ask for a
  comparison (against `docs/two-device-presentation.md:57`;
  `MildConditionsNeverAsk` counts the gap as a condition of its own);
* a `ws.accept` that raises leaves its queue subscribed (`bridge.py:134-138`): it
  takes one of the places for browsers for good, and a comparison then outlives
  its last tab (`LostSurfaceEndsComparison` speaks of runs without one);
* when the store raises while a failed comparison is recorded, and again in the
  restrictions that follow, the relationship stays verified and the next session
  opens without a comparison (`session_guard.py:119` against
  `docs/algorithms.md:50-51`; `FailedComparisonShuts` assumes that the store does
  not raise);
* a store that raises in `SessionGuard.__init__` leaves a gated connection that
  nobody closes; a pending comparison of the dashboard is in memory only, so a
  crash forgets it; a stop before the task's first step, or a second one during
  `guard.close`, skips the clean-up;
* `reconnect_burst` waits for a pending heartbeat before its first replacement
  only (`alice.py:169`); `pending` is written after an await in which a
  restriction may have cleared it (`runtime.py:148`);
* the accept loop is dead for good when `sock_accept` raises, and the server is
  still shown as listening (`secure.py:97`);
* `browserRetries` is never reset: the fourth resync in the life of a tab is not
  followed by a reconnection, whatever `bridge.py:70` says (`chat.js:46`);
* sustained latency converges to a score of exactly 50, which the strict
  comparison of `trigger_engine.py:40` does not find low; the variation over 32
  round trips keeps its score low after the latency has gone; Alice's mode
  outlives a disconnect (`alice.py:145`).

## 6. Plan

Done: `ChatGate`, `ChatSession`, `Dashboard`, `TrustMonitor`, `Browser` and
`SecureServer` with proofs; `Experiments` model-checked.  Next, in this order:

1. An abstract "dual approval" that `ChatSession` implements: a gate opens for a
   pair of decisions and each pair is used once.
2. Alice's `restrict` from outside the guard (`alice.py:317-324`), whose await
   may span a reconnect.
3. Bob's latency queue (`runtime.py:355-390`), as part of `ChatBob`.

## 7. Not modelled

Cryptography, certificates, key files and provisioning bundles: a connection that
exists is authenticated, and creating a bundle is file I/O without concurrent
readers.  HTTP routing and headers, HTML, the drawing of the page.  Command-line
clients, which are sequential scripts.  The validation of JSON envelopes, a pure
function of bytes, and the duplicate cache: TLS neither repeats nor reorders
frames, so only a peer that repeats itself after 2048 others could meet its
bound.  The trust history, counters and audit trail of the database; of the
baselines, only whether the peer's address has one varies.  Floating
point: `TrustScore` is exact to a hundred-thousandth of a point, and a decision
that depends on less is outside the model.

Some steps are coarser than the code.  In `ChatGate` and `ChatSession` the peer is
honest, so `Coordinator.receive` never raises: with a malformed or repeated frame
it sets RESTRICTED and awaits the connection's close before `restrict` empties the
delivery table (`coordinator.py:95-98`), and for that await slots are held in
RESTRICTED, against `SlotsAreOfThisGate`.  In `ChatSession` a dial fails for both
ends or for neither (`DialFails`); and when Alice's task raises (`Raises`) her gate
may stay ACTIVE until `restrict` where the guard has gated it already, which only
permits more.  In `SecureServer` a candidate that goes silent inside the handler
is the owner's matter: `SilentPeerLeaves` ends where the handler begins, and the
timeout of `Bob.accept` is in `ChatBob`.
