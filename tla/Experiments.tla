----------------------------- MODULE Experiments -----------------------------
(***************************************************************************)
(* The experiments (experiments/): a guard is fed a fixed trace of made-up *)
(* measurements under a policy, and what it asked for is summed up.  A     *)
(* behaviour is one trace under one policy, a step is one observation of   *)
(* run_trace, the TLS exchange and the automatic answer included.  The     *)
(* traces of the measured pilot have the shape of what it measures on one  *)
(* machine, and are replayed without a connection.                         *)
(***************************************************************************)
EXTENDS TrustScore, Sequences, FiniteSets

-------------------------------------------------------------------------------
(* Traces                                                                     *)

Broad == {"gradual", "sudden_drop"}

(* sample: the severity is in thirtieths.                                     *)
Sample(kind, severity) ==
    LET scaled(kinds) == IF kind \in kinds THEN Part + 4 * severity ELSE Part IN
    [handshake |-> scaled({"latency"} \cup Broad),
     rtt |-> scaled({"latency"} \cup Broad),
     variation |-> scaled({"variance"} \cup Broad),
     timing |-> scaled({"timing"} \cup Broad),
     address |-> IF kind \in {"continuity", "sudden_drop"} /\ severity > 0
                 THEN "other" ELSE "home",
     establishments |-> Part + (IF kind \in {"renegotiation"} \cup Broad
                                THEN 7 * severity ELSE 0)]

Peers == {"bob", "charlie"}

Usual(new, peer) ==
    [raw |-> Sample("normal", 0), anomaly |-> FALSE, new |-> new, peer |-> peer,
     match |-> TRUE]

Odd(kind, severity, new) ==
    [raw |-> Sample(kind, severity), anomaly |-> TRUE, new |-> new, peer |-> "bob",
     match |-> TRUE]

Warmup == [i \in 1 .. 12 |-> Usual(i > 1, "bob")]

(* One session of the pilot: no interval and no variation at first, a real    *)
(* delay of five baselines in the last five echoes if induced.                *)
Pilot(induced) ==
    [i \in 1 .. 20 |->
        LET slow == induced /\ i > 15 IN
        [raw |-> [handshake |-> Part, rtt |-> IF slow THEN 6 * Part ELSE Part,
                  variation |-> IF i = 1 THEN Missing ELSE IF slow THEN 6 * Part ELSE 0,
                  timing |-> IF i = 1 THEN Missing ELSE IF slow THEN 6 * Part ELSE Part,
                  address |-> "home", establishments |-> Part],
         anomaly |-> slow, new |-> FALSE, peer |-> "bob", match |-> TRUE]]

Gradual == Warmup \o [i \in 1 .. 30 |-> Odd("gradual", i, TRUE)]

Sudden == Warmup \o <<Odd("sudden_drop", 30, FALSE)>>
                 \o [i \in 1 .. 6 |-> Usual(FALSE, "bob")]

NewRelationship == Warmup \o [i \in 1 .. 8 |-> Usual(TRUE, "charlie")]

Established == Warmup \o [i \in 1 .. 8 |-> Usual(TRUE, "bob")]
                      \o <<Odd("sudden_drop", 30, FALSE)>>

Failure == Warmup \o <<[Odd("sudden_drop", 30, FALSE) EXCEPT !.match = FALSE],
                       Usual(TRUE, "bob")>>

Traces ==
    [normal |-> Warmup, gradual |-> Gradual, sudden |-> Sudden,
     new_relationship |-> NewRelationship, established |-> Established,
     failure |-> Failure, pilot_calm |-> Pilot(FALSE), pilot_induced |-> Pilot(TRUE)]

Pilots == {"pilot_calm", "pilot_induced"}
Swept == {"normal", "gradual", "sudden"}

-------------------------------------------------------------------------------
(* Policies: the defaults and, one factor at a time, the variants             *)

Default == [alpha |-> 30, weights |-> EqualWeights, trigger |-> DefaultTrigger]

AlphaVariants == {[Default EXCEPT !.alpha = a] : a \in {15, 50}}
HighVariants == {[Default EXCEPT !.trigger.high = h * Point] : h \in {70, 90}}

Weighed(handshake, rtt, continuity, timing, renegotiation) ==
    [s \in Signals |-> CASE s = "handshake" -> handshake [] s = "rtt" -> rtt
                         [] s = "continuity" -> continuity [] s = "timing" -> timing
                         [] s = "renegotiation" -> renegotiation]

Variants ==
    {Default} \cup AlphaVariants \cup HighVariants
    \cup {[Default EXCEPT !.trigger.low = l * Point] : l \in {40, 60}}
    \cup {[Default EXCEPT !.trigger.drop = d * Point] : d \in {5, 20}}
    \cup {[Default EXCEPT !.weights = w] :
            w \in {Weighed(15, 15, 40, 15, 15), Weighed(30, 30, 10, 15, 15)}}

Planned(name, policy) ==
    \/ policy = Default
    \/ name \in Swept /\ policy \in Variants
    \/ name \in Pilots /\ policy \in AlphaVariants

-------------------------------------------------------------------------------
VARIABLES
    scenario, policy,   \* the trace and the policy of this run
    store,              \* of each peer: trust, verified, the address is known
    guard,              \* the SessionGuard: peer, session, restricted
    sessions,           \* sessions started so far
    rows                \* what run_trace recorded

vars == <<scenario, policy, store, guard, sessions, rows>>

Unknown == [trust |-> Initial, verified |-> FALSE, known |-> FALSE]

Init ==
    /\ scenario \in DOMAIN Traces /\ policy \in Variants /\ Planned(scenario, policy)
    /\ store = [p \in Peers |-> IF scenario \in Pilots
                                THEN [trust |-> VerifiedFloor, verified |-> TRUE, known |-> TRUE]
                                ELSE Unknown]
    /\ guard = [peer |-> "bob", session |-> 1, restricted |-> FALSE]
    /\ sessions = 1
    /\ rows = <<>>

(* The observations that asked for a comparison                               *)
Requests == {i \in DOMAIN rows : rows[i].reason \in Asking}

(* A trace entry may ask for a new session, or for another peer.              *)
Renewed(entry) == entry.new \/ entry.peer # guard.peer

(* assess of a snapshot by the guard of peer p                                *)
Assessment(entry, p) ==
    LET known == IF store[p].known THEN "home" ELSE "unknown"
        current == Current(policy.weights, Normalized(entry.raw, known))
        score == Assessed(policy.alpha, store[p].trust, current)
    IN [score |-> score,
        reason |-> Decide(policy.trigger, score, score - store[p].trust, store[p].verified)]

(* Mutant: the verified flag survives a mismatch.                             *)
AfterForgiving(asked, match, score, p) ==
    IF asked /\ match THEN [trust |-> Floored(score), verified |-> TRUE, known |-> TRUE]
    ELSE [store[p] EXCEPT !.trust = score]

(* What assess leaves in the store                                            *)
After(asked, match, score, p) ==
    IF asked /\ match THEN [trust |-> Floored(score), verified |-> TRUE, known |-> TRUE]
    ELSE IF asked THEN [store[p] EXCEPT !.trust = score, !.verified = FALSE]
    ELSE [store[p] EXCEPT !.trust = score]

(* One turn of run_trace: a verified comparison replaces the connection, a    *)
(* mismatch closes it, and what is still open exchanges a message.            *)
Observe ==
    /\ scenario \notin Pilots
    /\ Len(rows) < Len(Traces[scenario])
    /\ LET entry == Traces[scenario][Len(rows) + 1]
           p == entry.peer
           start == IF Renewed(entry) THEN sessions + 1 ELSE sessions
           a == Assessment(entry, p)
           asked == a.reason \in Asking
           result == IF asked /\ entry.match THEN start + 1 ELSE start
           next == After(asked, entry.match, a.score, p)
       IN /\ ~guard.restricted \/ Renewed(entry)
          /\ store' = [store EXCEPT ![p] = next]
          /\ guard' = [peer |-> p, session |-> result, restricted |-> asked /\ ~entry.match]
          /\ sessions' = result
          /\ rows' = Append(rows,
                [anomaly |-> entry.anomaly, peer |-> p, session |-> start, resulting |-> result,
                 before |-> store[p].trust, score |-> a.score, after |-> next.trust,
                 reason |-> a.reason, key |-> KeyAction(a.reason, entry.match, FALSE),
                 delivered |-> ~asked \/ entry.match])
    /\ UNCHANGED <<scenario, policy>>

(* evaluate of the pilot: the replay stops at its first prompt.               *)
Replay ==
    /\ scenario \in Pilots
    /\ Len(rows) < Len(Traces[scenario])
    /\ Requests = {}
    /\ LET entry == Traces[scenario][Len(rows) + 1]
           a == Assessment(entry, "bob")
       IN /\ store' = [store EXCEPT !["bob"].trust = a.score]
          /\ rows' = Append(rows,
                [anomaly |-> entry.anomaly, peer |-> "bob", session |-> 1, resulting |-> 1,
                 before |-> store["bob"].trust, score |-> a.score, after |-> a.score,
                 reason |-> a.reason, key |-> "KEEP_CURRENT_KEY", delivered |-> TRUE])
    /\ UNCHANGED <<scenario, policy, guard, sessions>>

Next == Observe \/ Replay
Spec == Init /\ [][Next]_vars

-------------------------------------------------------------------------------
(* summarize, over the rows so far                                            *)

(* Sessions with an anomalous observation are not normal ones.                *)
NormalSessions ==
    {rows[i].session : i \in DOMAIN rows}
    \ {rows[i].session : i \in {j \in DOMAIN rows : rows[j].anomaly}}

Unnecessary ==
    {i \in Requests : rows[i].session \in NormalSessions /\ rows[i].reason # "new_relationship"}

(* An episode is a longest run of anomalous observations.                     *)
Episodes ==
    {e \in (DOMAIN rows) \X (DOMAIN rows) :
        /\ e[1] <= e[2]
        /\ \A i \in e[1] .. e[2] : rows[i].anomaly
        /\ e[1] = 1 \/ ~rows[e[1] - 1].anomaly
        /\ e[2] = Len(rows) \/ ~rows[e[2] + 1].anomaly}

(* Observations from the start of an episode to its first request, which is   *)
(* the first time this set has a member                                       *)
Delays(e) == {i - e[1] : i \in Requests \cap (e[1] .. e[2])}

FirstDelay(e) == CHOOSE d \in Delays(e) : \A o \in Delays(e) : d <= o

-------------------------------------------------------------------------------
TypeOK ==
    /\ scenario \in DOMAIN Traces /\ policy \in Variants
    /\ store \in [Peers -> [trust : Score, verified : BOOLEAN, known : BOOLEAN]]
    /\ guard \in [peer : Peers, session : 1 .. sessions, restricted : BOOLEAN]
    /\ rows \in Seq([anomaly : BOOLEAN, peer : Peers, session : 1 .. sessions,
                     resulting : 1 .. sessions, before : Score, score : Score, after : Score,
                     reason : Asking \cup {"trusted", "normal"},
                     key : {"REESTABLISH_KEY", "RESTRICT_SESSION", "KEEP_CURRENT_KEY"},
                     delivered : BOOLEAN])

Finished(name) == scenario = name /\ Len(rows) = Len(Traces[name])

(* Equal to four decimals of a point, in hundred-thousandths                  *)
Near(score, decimals) ==
    score - 10 * decimals \in -10 .. 10

(* docs/experiments.md: the scores and requests of the six scenarios under    *)
(* the default policy, to the fourth decimal.                                 *)
DocumentedOutcomes ==
    policy = Default =>
        LET last == rows[Len(rows)] IN
        /\ Finished("normal") => Near(last.after, 995057) /\ Cardinality(Requests) = 1
        /\ Finished("gradual") =>
             /\ Cardinality(Requests) = 13
             /\ rows[31].reason = "low_trust" /\ Near(rows[31].score, 475204)
             /\ Near(rows[31].score - rows[31].before, -38516)
        /\ Finished("sudden") =>
             /\ Near(rows[13].score, 696540) /\ Near(rows[13].score - rows[13].before, -298517)
             /\ Near(last.after, 970588)
        /\ Finished("new_relationship") =>
             /\ rows[13].before = Initial /\ rows[13].reason = "new_relationship"
             /\ Near(last.after, 979411) /\ Near(store["bob"].trust, 995057)
        /\ Finished("established") =>
             /\ Cardinality(Requests \cap 1 .. 8) = 1 /\ Requests \cap 13 .. 20 = {}
             /\ last.reason = "sudden_drop" /\ last.score > Half
        /\ Finished("failure") => Near(last.after, 787578)

(* docs/experiments.md and experiments/normal.py: no policy of the sweep, and *)
(* no alpha of the pilot, asks for a comparison on a session in which every   *)
(* observation was normal, the first comparison of a relationship excepted.   *)
NoUnnecessaryRequest == Unnecessary = {}

(* docs/experiments.md:30-33: over the eleven policies every sudden episode   *)
(* is caught at its first observation, a gradual one after 15 to 22, with 3   *)
(* to 15 requests in all, and the high threshold changes none of them.        *)
(* docs/measured-calibration.md: the pilot asks on an induced delay under the *)
(* default and the faster average, and not under the slower one.              *)
EveryEpisodeCaught ==
    /\ scenario \in {"sudden", "established", "failure"} =>
         \A e \in Episodes : 0 \in Delays(e)
    /\ Finished("gradual") =>
         \A e \in Episodes :
            /\ Delays(e) # {} /\ FirstDelay(e) \in 15 .. 22
            /\ Cardinality(Requests) \in 3 .. 15
            /\ policy \in HighVariants => FirstDelay(e) = 18 /\ Cardinality(Requests) = 13
    /\ scenario = "pilot_induced" /\ (Requests # {} \/ Finished(scenario)) =>
         (Requests # {} <=> policy.alpha >= 30)

(* experiments/failure.py: after a mismatch nothing is delivered until, on a  *)
(* fresh session, a comparison of that relationship has matched.              *)
MismatchBlocks ==
    \A i \in DOMAIN rows :
        rows[i].key = "RESTRICT_SESSION" =>
            \A j \in i .. Len(rows) :
                rows[j].delivered /\ rows[j].peer = rows[i].peer =>
                    \E k \in i + 1 .. j : /\ rows[k].key = "REESTABLISH_KEY"
                                          /\ rows[k].session > rows[i].resulting
===============================================================================
