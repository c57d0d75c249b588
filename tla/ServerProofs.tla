------------------------------ MODULE ServerProofs ------------------------------
(***************************************************************************)
(* The secure server keeps its promises for any number of slots, of         *)
(* permitted connections and of overlapping calls of close().               *)
(*                                                                          *)
(* Neither of its invariants is inductive.  That close() leaves nothing     *)
(* rests on two facts: a socket that is open is in the set of sockets       *)
(* (Tracked), and a call that gathers has every live task before it and     *)
(* finds the accept loop over (Gathering).  The bound on open sockets rests *)
(* on a third: a task is cancelled only after the accept loop ended         *)
(* (Cancelled), so that while connections are accepted every open socket    *)
(* has a task, and tasks are what the bound counts (Counted).  That a task  *)
(* has its socket until it has handed it over holds because nobody else     *)
(* closes it before (Owned).                                                *)
(***************************************************************************)
EXTENDS SecureServer, FiniteSetTheorems, TLAPS

Over == acceptor \in {"dead", "stopped"}
OpenSlots == {k \in Slots : sock[k] = "open"}

\* Each variable has its type.
Typed ==
    /\ acceptor \in {"running", "dead", "cancelling", "stopped"}
    /\ listening \in BOOLEAN /\ waiting \in 0..Backlog
    /\ pc \in [Slots -> {"none", "new", "handshake", "greet", "handler", "close", "over"}]
    /\ cancelled \in [Slots -> BOOLEAN]
    /\ sock \in [Slots -> {"open", "closing", "closed"}]
    /\ sockets \subseteq Slots
    /\ closer \in [Closers -> {"idle", "stopping", "gathering", "closed", "abandoned"}]
    /\ awaited \in [Closers -> SUBSET Slots]

\* The server remembers every open socket.
Tracked == \A k \in Slots : sock[k] = "open" => k \in sockets

\* A task is cancelled only after the accept loop ended and the listener was
\* closed; a socket without a live task is open only then.
Cancelled == \A k \in Slots :
    cancelled[k] \/ (sock[k] = "open" /\ k \notin Live) => Over /\ ~listening

\* A task that has not reached its handler has its socket, open.
Early == {"new", "handshake", "greet"}
Owned == \A k \in Slots : pc[k] \in Early => sock[k] = "open"

\* A call that gathers has every live task before it and nothing new can come.
Gathering == \A x \in Closers :
    /\ closer[x] = "gathering" => ~listening /\ Over /\ Live \subseteq awaited[x]
    /\ closer[x] # "gathering" => awaited[x] = {}

\* The tasks are within the bound, and the open sockets.
Counted == /\ Cardinality(OpenSlots) <= MaxConnections
           /\ Cardinality(Tasks) <= MaxConnections

IInv == /\ Typed /\ Tracked /\ Cancelled /\ Owned /\ Gathering /\ ClosedLeavesNothing

\* The members of a smaller set of slots are not more.
LEMMA Fewer ==
    ASSUME NEW A, NEW B \in SUBSET Slots, A \subseteq B
    PROVE  /\ IsFiniteSet(A) /\ IsFiniteSet(B)
           /\ Cardinality(A) \in Nat /\ Cardinality(B) \in Nat
           /\ Cardinality(A) <= Cardinality(B)
<1>1. IsFiniteSet(Slots) /\ B \subseteq Slots BY ServerAssumption
<1>2. IsFiniteSet(B) BY <1>1, FS_Subset
<1>3. IsFiniteSet(A) BY <1>2, FS_Subset
<1>4. Cardinality(A) <= Cardinality(B) BY <1>2, FS_Subset
<1> QED BY <1>2, <1>3, <1>4, FS_CardinalityType

\* The initial states satisfy the invariant.
LEMMA InitIInv == Init => IInv
<1>1. SUFFICES ASSUME Init PROVE IInv OBVIOUS
<1>2. Typed BY <1>1, ServerAssumption DEF Init, Typed
<1>3. Tracked /\ Cancelled /\ Owned
    BY <1>1 DEF Init, Tracked, Cancelled, Owned, Early
<1>4. Gathering /\ ClosedLeavesNothing
    BY <1>1 DEF Init, Gathering, ClosedLeavesNothing
<1> QED BY <1>2, <1>3, <1>4 DEF IInv

\* Steps of the accept loop.
LEMMA AcceptorIInv ==
    ASSUME IInv, Arrive \/ Accept \/ AcceptFails \/ AcceptorStops
    PROVE  IInv'
<1> USE DEF taskVars, closeVars, IInv, Over
<1>1. CASE Arrive
    <2>1. Typed' BY <1>1, ServerAssumption DEF Arrive, Typed
    <2> QED BY <1>1, <2>1 DEF Arrive, Tracked, Cancelled, Owned, Gathering,
                              ClosedLeavesNothing, Live, Tasks
<1>2. CASE Accept
    <2>1. acceptor = "running" /\ waiting > 0 /\ waiting' = waiting - 1
          /\ UNCHANGED <<acceptor, listening, closeVars>>
        BY <1>2 DEF Accept, Accepting
    <2>2. CASE UNCHANGED taskVars
        <3>1. Typed' BY <2>1, <2>2, ServerAssumption DEF Typed
        <3> QED BY <2>1, <2>2, <3>1 DEF Tracked, Cancelled, Owned, Gathering,
                              ClosedLeavesNothing, Live, Tasks
    <2>3. CASE ~ UNCHANGED taskVars
        <3>1. PICK k \in Slots :
                 /\ pc[k] = "none" /\ sock[k] = "closed"
                 /\ pc' = [pc EXCEPT ![k] = "new"]
                 /\ sock' = [sock EXCEPT ![k] = "open"]
                 /\ sockets' = sockets \cup {k}
                 /\ UNCHANGED cancelled
            BY <1>2, <2>3 DEF Accept, Accepting
        <3>2. Typed' BY <2>1, <3>1, ServerAssumption DEF Typed
        <3>3. Tracked' BY <3>1 DEF Tracked, Typed, Live, Tasks
        <3>4. Cancelled' BY <2>1, <3>1 DEF Cancelled, Typed, Live, Tasks
        <3>5. Owned' BY <3>1 DEF Owned, Typed
        <3>6. Gathering' BY <2>1 DEF Gathering
        <3>7. ClosedLeavesNothing' BY <2>1 DEF ClosedLeavesNothing
        <3> QED BY <3>2, <3>3, <3>4, <3>5, <3>6, <3>7
    <2> QED BY <2>2, <2>3
<1>3. CASE AcceptFails \/ AcceptorStops
    <2>1. /\ acceptor \in {"running", "cancelling"} /\ acceptor' \in {"dead", "stopped"}
          /\ UNCHANGED <<listening, waiting, taskVars, closeVars>>
        BY <1>3 DEF AcceptFails, AcceptorStops
    <2>2. Typed' BY <2>1 DEF Typed
    <2> QED BY <2>1, <2>2 DEF Tracked, Cancelled, Owned, Gathering,
                              ClosedLeavesNothing, Live, Tasks
<1> QED BY <1>1, <1>2, <1>3

\* What every step of the task in slot k, or of its connection, amounts to.
Step(k, to, s) ==
    /\ UNCHANGED <<acceptor, listening, waiting, closeVars>>
    /\ pc' = [pc EXCEPT ![k] = to]
    /\ to \in {"handshake", "greet", "handler", "close", "over", "none", pc[k]}
    /\ cancelled' \in {cancelled, [cancelled EXCEPT ![k] = FALSE]}
    /\ sock' = [sock EXCEPT ![k] = s] /\ s \in {sock[k], "closing", "closed"}
    /\ sockets' \in {sockets, sockets \ {k}}
    /\ to \notin {"none", "over"} => pc[k] \notin {"none", "over"}
    /\ pc[k] = "none" => to = "none"
    /\ s = "open" => sockets' = sockets
    /\ to \in Early => pc[k] \in Early /\ s = sock[k]
    /\ s = "open" /\ to \in {"none", "over"} => cancelled[k] \/ pc[k] \in {"none", "over"}

LEMMA EveryTaskStep ==
    ASSUME Typed, Owned, NEW k \in Slots, TaskStep(k) \/ FreeStep(k)
    PROVE  \E to, s : Step(k, to, s)
<1> USE DEF Typed, Moves, taskVars, closeVars, Early
<1>1. CASE Begin(k)
    <2>1. Step(k, "handshake", sock[k]) BY <1>1 DEF Begin, Step
    <2> QED BY <2>1
<1>2. CASE NeverRuns(k)
    <2>1. Step(k, "over", sock[k]) BY <1>2 DEF NeverRuns, Step
    <2> QED BY <2>1
<1>3. CASE HandshakeDone(k)
    <2>1. Step(k, "greet", sock[k]) BY <1>3 DEF HandshakeDone, Step
    <2> QED BY <2>1
<1>4. CASE HandshakeEnds(k)
    <2>1. Step(k, "over", "closed") BY <1>4 DEF HandshakeEnds, Step
    <2> QED BY <2>1
<1>5. CASE Greeted(k)
    <2>1. Step(k, "handler", sock[k]) BY <1>5 DEF Greeted, Step
    <2> QED BY <2>1
<1>6. CASE GreetFails(k) \/ HandlerEnds(k)
    <2>1. pc[k] \in {"greet", "handler"} /\ Closing(k)
        BY <1>6 DEF GreetFails, HandlerEnds
    <2>2. CASE sock[k] = "open"
        <3>1. Step(k, "close", "closing") BY <2>1, <2>2 DEF Closing, Step
        <3> QED BY <3>1
    <2>3. CASE sock[k] # "open"
        <3>1. Step(k, "over", sock[k]) BY <2>1, <2>3 DEF Closing, Step
        <3> QED BY <3>1
    <2> QED BY <2>2, <2>3
<1>7. CASE ClosedOutside(k)
    <2>1. Step(k, pc[k], "closing") BY <1>7 DEF ClosedOutside, Step
    <2> QED BY <2>1
<1>8. CASE OutsideCloseEnds(k)
    <2>1. Step(k, pc[k], "closed") BY <1>8 DEF OutsideCloseEnds, Step, Owned
    <2> QED BY <2>1
<1>9. CASE CloseEnds(k)
    <2>1. Step(k, "over", "closed") BY <1>9 DEF CloseEnds, Step
    <2> QED BY <2>1
<1>10. CASE Discard(k)
    <2>1. Step(k, "none", sock[k]) BY <1>10 DEF Discard, Step
    <2> QED BY <2>1
<1> QED BY <1>1, <1>2, <1>3, <1>4, <1>5, <1>6, <1>7, <1>8, <1>9, <1>10
        DEF TaskStep, FreeStep

\* Steps of one task or of its connection.
LEMMA TaskIInv ==
    ASSUME IInv, NEW k \in Slots, TaskStep(k) \/ FreeStep(k)
    PROVE  IInv'
<1>1. PICK to, s : Step(k, to, s) BY EveryTaskStep DEF IInv
<1> USE <1>1 DEF Step, closeVars, IInv, Over
<1>2. Typed' BY DEF Typed
<1>3. Live' \subseteq Live BY DEF Typed, Live, Tasks
<1>4. \A j \in Slots : sock'[j] = "open" => sock[j] = "open" BY DEF Typed
<1>5. Tracked' BY <1>4 DEF Typed, Tracked
<1>6. Cancelled'
    <2>1. SUFFICES ASSUME NEW j \in Slots,
                          cancelled'[j] \/ (sock'[j] = "open" /\ j \notin Live')
                   PROVE  Over /\ ~listening
        BY DEF Cancelled
    <2>2. CASE cancelled'[j] BY <2>2 DEF Typed, Cancelled
    <2>3. CASE sock'[j] = "open" /\ j \notin Live'
        <3>1. sock[j] = "open" BY <1>4, <2>3
        <3>2. CASE j # k
            <4>1. pc'[j] = pc[j] BY <3>2 DEF Typed
            <4>2. j \notin Live BY <2>3, <4>1 DEF Live, Tasks
            <4> QED BY <3>1, <4>2 DEF Cancelled
        <3>3. CASE j = k
            <4>1. to \in {"none", "over"} BY <2>3, <3>3 DEF Typed, Live, Tasks
            <4>2. s = "open" BY <2>3, <3>3 DEF Typed
            <4>3. cancelled[k] \/ pc[k] \in {"none", "over"} BY <4>1, <4>2
            <4>4. cancelled[k] \/ k \notin Live BY <4>3 DEF Live, Tasks
            <4> QED BY <3>1, <3>3, <4>4 DEF Cancelled
        <3> QED BY <3>2, <3>3
    <2> QED BY <2>1, <2>2, <2>3
<1>7. Owned' BY DEF Typed, Owned
<1>8. Gathering' BY <1>3 DEF Gathering
<1>9. ClosedLeavesNothing' BY <1>3, <1>4 DEF ClosedLeavesNothing
<1> QED BY <1>2, <1>5, <1>6, <1>7, <1>8, <1>9

\* Steps of the calls of close().
LEMMA CloserIInv ==
    ASSUME IInv, NEW x \in Closers, CloseBegin(x) \/ CloseStep(x) \/ Abandon(x)
    PROVE  IInv'
<1> USE DEF taskVars, closeVars, IInv, Over, At
<1>1. CASE CloseBegin(x)
    <2>1. Typed' BY <1>1 DEF CloseBegin, Typed
    <2>2. Over => acceptor' = acceptor BY <1>1 DEF CloseBegin
    <2>3. Tracked' /\ Cancelled' /\ Owned'
        BY <1>1, <2>2 DEF CloseBegin, Tracked, Cancelled, Owned, Live, Tasks
    <2>4. Gathering'
        BY <1>1, <2>2 DEF CloseBegin, Gathering, Live, Tasks, Typed
    <2>5. ClosedLeavesNothing'
        BY <1>1, <2>2 DEF CloseBegin, ClosedLeavesNothing, Live, Tasks, Typed
    <2> QED BY <2>1, <2>3, <2>4, <2>5
<1>2. CASE CloseListener(x)
    <2> USE <1>2 DEF CloseListener, ClosingDown
    <2>1. Typed'
        <3>1. Tasks \in SUBSET Slots BY DEF Tasks
        <3>2. closer' \in [Closers -> {"idle", "stopping", "gathering", "closed", "abandoned"}]
            BY DEF Typed
        <3>3. awaited' \in [Closers -> SUBSET Slots] BY <3>1 DEF Typed
        <3>4. cancelled' \in [Slots -> BOOLEAN] BY DEF Typed
        <3>5. 0 \in 0..Backlog BY ONLY ServerAssumption
        <3>6. listening' = FALSE /\ waiting' = 0 OBVIOUS
        <3> QED BY <3>2, <3>3, <3>4, <3>5, <3>6 DEF Typed
    <2>2. Tracked' /\ Cancelled' /\ Owned' BY DEF Tracked, Cancelled, Owned, Live, Tasks
    <2>3. Live' = Live /\ Live \subseteq Tasks BY DEF Live, Tasks
    <2>4. Gathering'
        <3>1. SUFFICES ASSUME NEW y \in Closers
                       PROVE  /\ closer'[y] = "gathering" =>
                                    ~listening' /\ Over' /\ Live' \subseteq awaited'[y]
                              /\ closer'[y] # "gathering" => awaited'[y] = {}
            BY DEF Gathering
        <3>2. CASE y = x BY <2>3, <3>2 DEF Typed
        <3>3. CASE y # x
            <4>1. closer'[y] = closer[y] /\ awaited'[y] = awaited[y]
                BY <3>3 DEF Typed
            <4> QED BY <2>3, <4>1 DEF Gathering
        <3> QED BY <3>2, <3>3
    <2>5. ClosedLeavesNothing' BY <2>3 DEF ClosedLeavesNothing, Typed
    <2> QED BY <2>1, <2>2, <2>4, <2>5
<1>3. CASE CloseSockets(x)
    <2> USE <1>3 DEF CloseSockets, Gathered
    <2>1. Typed' BY DEF Typed
    <2>2. Live' = Live /\ Live = {} /\ Over /\ ~listening
        BY DEF Live, Tasks, Gathering
    <2>3. \A j \in Slots : sock'[j] # "open" BY DEF Tracked, Typed
    <2>4. Tracked' /\ Cancelled' /\ Owned'
        BY <2>2, <2>3 DEF Tracked, Cancelled, Owned, Early, Live, Tasks
    <2>5. Gathering' BY <2>2 DEF Gathering, Typed
    <2>6. ClosedLeavesNothing' BY <2>2, <2>3 DEF ClosedLeavesNothing
    <2> QED BY <2>1, <2>4, <2>5, <2>6
<1>4. CASE Abandon(x)
    <2> USE <1>4 DEF Abandon
    <2>1. Typed' BY DEF Typed
    <2>2. awaited[x] # {} => Over /\ ~listening BY DEF Gathering
    <2>3. Tracked' /\ Cancelled' /\ Owned'
        BY <2>2 DEF Tracked, Cancelled, Owned, Live, Tasks, Typed
    <2>4. Live' = Live BY DEF Live, Tasks
    <2>5. Gathering' BY <2>4 DEF Gathering, Typed
    <2>6. ClosedLeavesNothing' BY <2>4 DEF ClosedLeavesNothing, Typed
    <2> QED BY <2>1, <2>3, <2>5, <2>6
<1> QED BY <1>1, <1>2, <1>3, <1>4 DEF CloseStep

\* Every step keeps the invariant.
LEMMA NextIInv == IInv /\ [Next]_vars => IInv'
<1>1. SUFFICES ASSUME IInv, [Next]_vars PROVE IInv' OBVIOUS
<1>2. CASE UNCHANGED vars
    BY <1>1, <1>2 DEF vars, taskVars, closeVars, IInv, Typed, Tracked, Cancelled, Owned, Over,
                      Gathering, ClosedLeavesNothing, Live, Tasks
<1>3. CASE Next
    BY <1>1, <1>3, AcceptorIInv, TaskIInv, CloserIInv DEF Next
<1> QED BY <1>1, <1>2, <1>3

\* Once a call of SecureServer.close has returned, no listener and no task is left
\* and no accepted socket is open, for any number of slots and of overlapping
\* calls; one that another task's close_writer is closing may not be closed yet.
THEOREM NothingLeft == Spec => []ClosedLeavesNothing
<1>1. IInv => ClosedLeavesNothing BY DEF IInv
<1> QED BY <1>1, InitIInv, NextIInv, PTL DEF Spec
--------------------------------------------------------------------------------
(* The bound on the sockets.                                                *)

LEMMA InitCounted == Init => Counted
<1>1. SUFFICES ASSUME Init PROVE Counted OBVIOUS
<1>2. OpenSlots = {} /\ Tasks = {} BY <1>1 DEF Init, OpenSlots, Tasks
<1>3. Cardinality({}) = 0 BY FS_EmptySet
<1> QED BY <1>2, <1>3, ServerAssumption DEF Counted

\* Nothing but Accept opens a socket or makes a task, and only in a counted place.
LEMMA NextCounted == IInv /\ Counted /\ [Next]_vars => Counted'
<1>1. SUFFICES ASSUME IInv, Counted, [Next]_vars PROVE Counted' OBVIOUS
<1> USE DEF IInv
<1>2. ASSUME OpenSlots' \subseteq OpenSlots, Tasks' \subseteq Tasks PROVE Counted'
    <2>1. OpenSlots \in SUBSET Slots /\ Tasks \in SUBSET Slots BY DEF OpenSlots, Tasks
    <2>2. Cardinality(OpenSlots') \in Nat /\ Cardinality(OpenSlots) \in Nat
          /\ Cardinality(OpenSlots') <= Cardinality(OpenSlots)
        BY <1>2, <2>1, Fewer
    <2>3. Cardinality(Tasks') \in Nat /\ Cardinality(Tasks) \in Nat
          /\ Cardinality(Tasks') <= Cardinality(Tasks)
        BY <1>2, <2>1, Fewer
    <2> QED BY <1>1, <1>2, <2>2, <2>3, ServerAssumption DEF Counted
<1>3. CASE UNCHANGED vars
    <2>1. OpenSlots' = OpenSlots /\ Tasks' = Tasks
        BY <1>3 DEF vars, taskVars, OpenSlots, Tasks
    <2> QED BY <1>2, <2>1
<1>4. CASE Arrive \/ AcceptFails \/ AcceptorStops
    <2>1. OpenSlots' = OpenSlots /\ Tasks' = Tasks
        BY <1>4 DEF Arrive, AcceptFails, AcceptorStops, taskVars, OpenSlots, Tasks
    <2> QED BY <1>2, <2>1
<1>5. CASE Accept
    <2>1. acceptor = "running" /\ acceptor' = acceptor BY <1>5 DEF Accept, Accepting
    <2>2. CASE UNCHANGED taskVars
        <3>1. OpenSlots' = OpenSlots /\ Tasks' = Tasks
            BY <2>2 DEF taskVars, OpenSlots, Tasks
        <3> QED BY <1>2, <3>1
    <2>3. CASE ~ UNCHANGED taskVars
        <3>1. ~ (Cardinality(Tasks) >= MaxConnections)
            BY <1>5, <2>3 DEF Accept, Accepting
        <3>2. PICK k \in Slots : /\ pc[k] = "none"
                                 /\ pc' = [pc EXCEPT ![k] = "new"]
                                 /\ sock' = [sock EXCEPT ![k] = "open"]
            BY <1>5, <2>3 DEF Accept, Accepting
        <3>3. Tasks' = Tasks \cup {k} /\ k \notin Tasks BY <1>1, <3>2 DEF Tasks, Typed
        <3>4. OpenSlots \subseteq Tasks
            BY <1>1, <2>1 DEF OpenSlots, Live, Tasks, Cancelled, Over
        <3>5. OpenSlots' \subseteq Tasks' BY <1>1, <3>2, <3>3, <3>4 DEF OpenSlots, Typed
        <3>6. Tasks \in SUBSET Slots /\ Tasks' \in SUBSET Slots BY <3>3 DEF Tasks
        <3>7. IsFiniteSet(Tasks) /\ Cardinality(Tasks) \in Nat BY <3>6, Fewer
        <3>8. Cardinality(Tasks') = Cardinality(Tasks) + 1
            BY <3>3, <3>7, FS_AddElement
        <3>9. Cardinality(OpenSlots') \in Nat
              /\ Cardinality(OpenSlots') <= Cardinality(Tasks')
            BY <3>5, <3>6, Fewer
        <3> QED BY <3>1, <3>7, <3>8, <3>9, ServerAssumption DEF Counted
    <2> QED BY <2>2, <2>3
<1>6. ASSUME NEW k \in Slots, TaskStep(k) \/ FreeStep(k) PROVE Counted'
    <2>1. PICK to, s : Step(k, to, s) BY <1>1, <1>6, EveryTaskStep
    <2>2. OpenSlots' \subseteq OpenSlots BY <1>1, <2>1 DEF Step, OpenSlots, Typed
    <2>3. Tasks' \subseteq Tasks BY <1>1, <2>1 DEF Step, Tasks, Typed
    <2> QED BY <1>2, <2>2, <2>3
<1>7. ASSUME NEW x \in Closers, CloseBegin(x) \/ CloseStep(x) \/ Abandon(x)
      PROVE  Counted'
    <2>1. UNCHANGED pc /\ (UNCHANGED sock \/ sock' = [k \in Slots |->
                               IF k \in sockets THEN "closed" ELSE sock[k]])
        BY <1>7 DEF CloseBegin, CloseStep, CloseListener, ClosingDown, CloseSockets,
                    Gathered, Abandon, taskVars
    <2>2. OpenSlots' \subseteq OpenSlots /\ Tasks' = Tasks BY <2>1 DEF OpenSlots, Tasks
    <2> QED BY <1>2, <2>2
<1> QED BY <1>1, <1>3, <1>4, <1>5, <1>6, <1>7 DEF Next

\* However many peers connect and stall, SecureServer has at most max_connections
\* tasks and open sockets, no task has lost its socket, and none is forgotten.
THEOREM TypeCorrect == Spec => []TypeOK
<1>1. IInv /\ Counted => TypeOK
    BY DEF IInv, Counted, Typed, TypeOK, OpenSlots, Tracked, Cancelled, Owned, Early
<1>2. Init => IInv /\ Counted BY InitIInv, InitCounted
<1>3. IInv /\ Counted /\ [Next]_vars => IInv' /\ Counted' BY NextIInv, NextCounted
<1> QED BY <1>1, <1>2, <1>3, PTL DEF Spec
================================================================================
