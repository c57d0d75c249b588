----------------------------- MODULE TrustMonitor -----------------------------
(***************************************************************************)
(* What makes Alice's guard ask: the measurements of her connections, the  *)
(* bounded record of them, the snapshot that is scored after every         *)
(* heartbeat, and the decision (network/metrics.py,                        *)
(* trust/signal_collector.py, network/snapshot.py, chat/alice.py,          *)
(* verification/session_guard.py).  How a comparison and a replacement     *)
(* come about is ChatSession's matter; here each is one step, but the      *)
(* steps of a reconnect burst at which a heartbeat may fall are apart.     *)
(*                                                                         *)
(* A unit of time is 30 seconds, METADATA_MAX_AGE_SECONDS.  A heartbeat is *)
(* usual or slow; the induced latency is one way to make it slow.  Of the  *)
(* frames only the heartbeat's own are recorded.                           *)
(***************************************************************************)
EXTENDS TrustScore, Sequences, FiniteSets

Slow == 4 * Part + 6       \* a pong 3.2 seconds late
Ratios == {Part, Slow}

CONSTANTS Capacity,      \* measurements the collector keeps, 1024 in the code
          RttWindow,     \* round trips the variation is taken over, 32 in the code
          RotationAge,   \* units of time, 10 in the code
          Attempts,      \* connections of a reconnect burst
          Handshakes,    \* how long a handshake may take, of Ratios
          Stored,        \* trust scores the database may hold at first
          MaxSessions, MaxBeats, MaxTime, MaxSwitches

ASSUME MonitorAssumption ==
    /\ Capacity \in Nat \ {0} /\ RttWindow \in Nat \ {0} /\ RotationAge \in Nat
    /\ Handshakes \subseteq Ratios /\ Attempts \in Nat \ {0} /\ Stored \subseteq Score
    /\ MaxSessions \in Nat /\ MaxBeats \in Nat /\ MaxTime \in Nat /\ MaxSwitches \in Nat

MaxAge == 1     \* units, of a record that is still scored
Window == 2     \* units in which establishments are counted

VARIABLES
    records,          \* ContextSignalCollector._records
    establishments,   \* ContextSignalCollector._establishments
    rtts,             \* SessionMetrics._rtts
    beating, interval,  \* last_heartbeat is not None; heartbeat_interval_ms
    mode,             \* the condition Alice selected
    phase, burst,     \* where reconnect_burst stands, its connections to come
    late,             \* measure_loop still sleeps for a heartbeat it began before
    score, known,     \* TrustEngine.score; the peer's address has a baseline
    verified, gate,   \* SessionGuard.verified, and what the chat may do
    asked,            \* whether assess waits for a comparison, and which
    reason, raw,      \* the last decision and the snapshot it was made from
    clock, keyStart,
    beats, switches,
    startAt, lastRtt, odd   \* history, read by properties only

collector == <<records, establishments, rtts>>
pulse == <<beating, interval>>
task == <<phase, burst, late>>
engine == <<score, known, verified, gate, asked, reason, raw>>
history == <<startAt, lastRtt, odd>>
bounds == <<beats, switches>>
vars == <<collector, pulse, mode, task, engine, clock, keyStart, bounds, history>>

session == Len(startAt)     \* the current session; they are numbered

Raw ==
    [session : Nat, handshake : Int, rtt : Int, variation : Int,
     address : {"home", "other", "unknown"}, timing : Int, establishments : Int]

NoRaw ==
    [session |-> 0, handshake |-> Missing, rtt |-> Missing, variation |-> Missing,
     address |-> "unknown", timing |-> Missing, establishments |-> Missing]

Record == [session : Nat, signal : {"handshake", "rtt", "continuity", "frame", "establishments"},
           at : Nat, value : Int, variation : Int]

Init ==
    /\ records = <<>> /\ establishments = {} /\ rtts = <<>>
    /\ beating = FALSE /\ interval = Missing
    /\ mode = "normal" /\ phase = "off" /\ burst = 0 /\ late = FALSE
    /\ score \in Stored /\ known = (score # Initial)
    /\ verified = FALSE /\ gate = "closed" /\ asked = "no"
    /\ reason = "normal" /\ raw = NoRaw
    /\ clock = 0 /\ keyStart = 0
    /\ beats = 0 /\ switches = 0
    /\ startAt = <<>> /\ lastRtt = [session |-> 0, value |-> Missing] /\ odd = {}

-------------------------------------------------------------------------------
(* Measurements                                                               *)

Measured(s, signal, value, variation) ==
    [session |-> s, signal |-> signal, at |-> clock, value |-> value, variation |-> variation]

(* Mutant: the deque has no limit.                                            *)
KeptAll(seq) == seq

(* The deque keeps the last Capacity records.                                 *)
Kept(seq) == IF Len(seq) > Capacity THEN SubSeq(seq, Len(seq) - Capacity + 1, Len(seq)) ELSE seq

(* Mutant: establishments are never forgotten.                                *)
RecentAll(times) == times

(* Those of the last minute                                                   *)
Recent(times) == {e \in times : e.at > clock - Window}

(* session_started and SessionMetrics.__init__, of the next session           *)
Starts(handshake) ==
    LET s == session + 1
        counted == Recent(establishments) \cup {[session |-> s, at |-> clock]}
    IN /\ s <= MaxSessions
       /\ establishments' = counted
       /\ records' = Kept(records \o
              <<Measured(s, "establishments", Part * Cardinality(counted), Missing),
                Measured(s, "continuity", Part, Missing),
                Measured(s, "handshake", handshake, Missing),
                Measured(s, "rtt", Missing, Missing)>>)
       /\ startAt' = Append(startAt, clock)
       /\ rtts' = <<>> /\ keyStart' = clock

(* recover: only a connection that replaces another forgets the cadence.      *)
Recovers(handshake) == Starts(handshake) /\ beating' = FALSE /\ interval' = Missing

(* The deviation of a window that holds both is beyond any limit.             *)
Variation(window) ==
    IF Len(window) < 2 THEN Missing
    ELSE IF \A i \in DOMAIN window : window[i] = window[1] THEN 0 ELSE Slow

(* A cadence is of one session, unless the user made the connection anew: its *)
(* first gap is then counted from the last pong of the session before.        *)
Gaps(value) == IF ~beating THEN {Missing} ELSE IF rtts = <<>> THEN Ratios ELSE {value}

(* The pong: two frames, a round trip, and the heartbeat's cadence            *)
Pong(value) ==
    LET longer == Append(rtts, value)
        window == IF Len(longer) > RttWindow THEN Tail(longer) ELSE longer
    IN /\ rtts' = window
       /\ interval' \in Gaps(value) /\ beating' = TRUE
       /\ records' = Kept(records \o
              <<Measured(session, "frame", Missing, Missing),
                Measured(session, "frame", Missing, Missing),
                Measured(session, "rtt", value, Variation(window))>>)
       /\ lastRtt' = [session |-> session, value |-> value]
       /\ UNCHANGED establishments

-------------------------------------------------------------------------------
(* The snapshot                                                               *)

(* Mutant: the latest record, of whichever session.                           *)
HeldByAny(seq, s, signal) ==
    {i \in DOMAIN seq : /\ seq[i].signal = signal /\ seq[i].value # Missing
                        /\ signal \in {"rtt", "establishments"} => clock - seq[i].at <= MaxAge}

(* Records of session s that raw_snapshot does not pass over                  *)
Held(seq, s, signal) ==
    {i \in DOMAIN seq : /\ seq[i].session = s
                        /\ seq[i].signal = signal /\ seq[i].value # Missing
                        /\ signal \in {"rtt", "establishments"} => clock - seq[i].at <= MaxAge}

(* The latest of them, or one that says that nothing is known                 *)
Latest(seq, s, signal) ==
    LET held == Held(seq, s, signal) IN
    IF held = {} THEN [value |-> Missing, variation |-> Missing]
    ELSE LET i == CHOOSE i \in held : \A j \in held : j <= i IN
         [value |-> seq[i].value, variation |-> seq[i].variation]

(* trust_input: the heartbeat's cadence takes the place of the frames', and a *)
(* simulated address that of the measured one.                                *)
Snapshot(seq, s, cadence) ==
    [session |-> s,
     handshake |-> Latest(seq, s, "handshake").value,
     rtt |-> Latest(seq, s, "rtt").value,
     variation |-> Latest(seq, s, "rtt").variation,
     address |-> IF mode = "ip_change" THEN "other"
                 ELSE IF Latest(seq, s, "continuity").value = Missing THEN "unknown"
                 ELSE "home",
     timing |-> cadence,
     establishments |-> Latest(seq, s, "establishments").value]

-------------------------------------------------------------------------------
(* SessionGuard.assess, up to the comparison it asks for                      *)

(* What is out of the ordinary in a snapshot; a cadence that is no slow round *)
(* trip's is the gap since an earlier session.                                *)
Oddities(snapshot) ==
    (IF Slow \in {snapshot.rtt, snapshot.handshake, snapshot.variation}
     THEN {"slow"} ELSE {})
    \cup (IF snapshot.timing = Slow THEN {"gap"} ELSE {})
    \cup (IF snapshot.address = "other" THEN {"address"} ELSE {})
    \cup (IF snapshot.establishments > Part THEN {"reconnects"} ELSE {})
    \cup (IF Missing \in {snapshot.handshake, snapshot.rtt, snapshot.timing,
                          snapshot.establishments} \/ snapshot.address = "unknown"
          THEN {"missing"} ELSE {})

(* The score and the decision; the caller says what becomes of the chat.      *)
Assess(snapshot, trusted) ==
    LET scores == Normalized(raw', IF known THEN "home" ELSE "unknown")
        decided == Decide(DefaultTrigger, score', score' - score, trusted)
    IN /\ raw' = snapshot
       /\ score' = Assessed(30, score, Current(EqualWeights, scores))
       /\ reason' = IF decided \notin Asking /\ clock - keyStart' >= RotationAge
                    THEN "rotation" ELSE decided
       /\ odd' = odd \cup Oddities(raw')
       /\ UNCHANGED known

(* _connect and the assessment before the loop: every connection the user     *)
(* makes starts unverified, and with the cadence of the session before.       *)
Connect(handshake) ==
    /\ gate \in {"closed", "restricted"}
    /\ Starts(handshake)
    /\ verified' = FALSE /\ gate' = "comparing" /\ asked' = "yes"
    /\ Assess(Snapshot(records', session + 1, interval), FALSE)
    /\ UNCHANGED <<pulse, mode, task, clock, bounds, lastRtt>>

(* The gate while begin_verification waits for an answer.  One that is asked  *)
(* for while the burst announces a connection is lost with the connection.    *)
(* One that is asked for when that connection is already closed is refused.   *)
Ask ==
    IF phase = "closing"
    THEN /\ asked' = "refused" /\ phase' = "off" /\ burst' = 0
         /\ UNCHANGED gate
    ELSE /\ asked' = IF phase = "announce" THEN "lost" ELSE "yes"
         /\ gate' = "comparing"
         /\ UNCHANGED <<phase, burst>>

(* A heartbeat of measure_loop and the assessment after it.  measure_loop     *)
(* looks for a burst before it sleeps: the heartbeat it then slept for comes, *)
(* wherever the burst has got to.                                             *)
Heartbeat(value) ==
    /\ asked = "no" /\ (gate = "open" \/ phase = "closing")
    /\ phase # "off" => late
    /\ beats < MaxBeats /\ beats' = beats + 1
    /\ Pong(value) /\ late' = FALSE
    /\ keyStart' = keyStart
    /\ Assess(Snapshot(records', session, interval'), verified)
    /\ IF reason' \in Asking THEN Ask ELSE UNCHANGED <<gate, asked, phase, burst>>
    /\ UNCHANGED <<verified, mode, clock, switches, startAt>>

(* Both people answer MATCH.  The first time the connection is kept, later it *)
(* is replaced.                                                               *)
Match(handshake) ==
    /\ gate = "comparing" /\ asked = "yes"
    /\ gate' = "open" /\ asked' = "no"
    /\ verified' = TRUE /\ known' = TRUE
    /\ score' = Floored(score)
    /\ odd' = {}
    /\ IF verified THEN Recovers(handshake)
                   ELSE UNCHANGED <<collector, pulse, keyStart, startAt>>
    /\ UNCHANGED <<mode, task, clock, bounds, reason, raw, lastRtt>>

(* A mismatch, a timeout, or the end of the connection; the burst stops.      *)
Restricts ==
    /\ gate \in {"comparing", "open", "replacing"}
    /\ gate' = "restricted" /\ asked' = "no" /\ verified' = FALSE
    /\ phase' = "off" /\ burst' = 0 /\ late' = FALSE
    /\ UNCHANGED <<collector, pulse, mode, score, known, reason, raw, clock, keyStart, bounds, history>>

SelectMode(m) ==
    /\ gate = "open" \/ (gate = "comparing" /\ m = "normal")
    /\ phase = "off"
    /\ switches < MaxSwitches /\ switches' = switches + 1
    /\ mode' = m
    /\ IF m = "reconnect_burst"
       THEN phase' = "wait" /\ burst' = Attempts /\ late' = TRUE
       ELSE UNCHANGED task
    /\ UNCHANGED <<collector, pulse, engine, clock, keyStart, beats, history>>

(* Mutant: a burst goes on whatever the gate's state.                         *)
BurstAnnouncesBlind ==
    /\ (phase = "wait" /\ asked = "no") \/ phase = "next"
    /\ burst > 0
    /\ phase' = "announce"
    /\ UNCHANGED <<collector, pulse, mode, burst, late, engine, clock, keyStart, bounds, history>>

(* reconnect_burst waits for an assessment under way only before the first of *)
(* its connections.                                                           *)
BurstAnnounces ==
    /\ (phase = "wait" /\ asked = "no") \/ phase = "next"
    /\ burst > 0 /\ gate = "open"
    /\ phase' = "announce"
    /\ UNCHANGED <<collector, pulse, mode, burst, late, engine, clock, keyStart, bounds, history>>

(* The peer knows: the old connection is closed, whatever the gate is now.    *)
BurstCloses ==
    /\ phase = "announce" /\ phase' = "closing"
    /\ gate' = "replacing"
    /\ UNCHANGED <<collector, pulse, mode, burst, late, score, known, verified, asked,
                   reason, raw, clock, keyStart, bounds, history>>

(* The new one is ready, and the chat opens.                                  *)
BurstOpens(handshake) ==
    /\ phase = "closing" /\ phase' = "next"
    /\ burst' = burst - 1
    /\ Recovers(handshake)
    /\ gate' = "open"
    /\ UNCHANGED <<mode, late, score, known, verified, asked, reason, raw, clock, bounds,
                   lastRtt, odd>>

BurstEnds ==
    /\ phase = "next" /\ burst = 0
    /\ phase' = "off" /\ late' = FALSE
    /\ UNCHANGED <<collector, pulse, mode, burst, engine, clock, keyStart, bounds, history>>

(* While the chat is open a heartbeat comes every second.                     *)
Tick ==
    /\ clock < MaxTime /\ clock' = clock + 1
    /\ gate = "open" /\ phase # "announce" /\ asked = "no" => rtts # <<>>
    /\ UNCHANGED <<collector, pulse, mode, task, engine, keyStart, bounds, history>>

Next ==
    \/ \E h \in Handshakes : Connect(h) \/ Match(h) \/ BurstOpens(h)
    \/ \E v \in Ratios : Heartbeat(v)
    \/ \E m \in {"normal", "reconnect_burst", "ip_change"} : SelectMode(m)
    \/ BurstAnnounces \/ BurstCloses \/ BurstEnds
    \/ Restricts
    \/ Tick

Spec == Init /\ [][Next]_vars

-------------------------------------------------------------------------------
TypeOK ==
    /\ records \in Seq(Record) /\ Len(records) <= Capacity
    /\ establishments \subseteq [session : 1 .. session, at : 0 .. clock]
    /\ rtts \in Seq(Ratios) /\ Len(rtts) <= RttWindow
    /\ beating \in BOOLEAN /\ interval \in Ratios \cup {Missing}
    /\ mode \in {"normal", "reconnect_burst", "ip_change"}
    /\ phase \in {"off", "wait", "announce", "closing", "next"}
    /\ burst \in 0 .. Attempts /\ late \in BOOLEAN
    /\ score \in Score /\ known \in BOOLEAN /\ verified \in BOOLEAN
    /\ gate \in {"closed", "open", "comparing", "replacing", "restricted"}
    /\ asked \in {"no", "yes", "lost", "refused"}
    /\ reason \in Asking \cup {"trusted", "normal"} /\ raw \in Raw
    /\ clock \in 0 .. MaxTime /\ keyStart \in 0 .. clock
    /\ beats \in 0 .. MaxBeats /\ switches \in 0 .. MaxSwitches
    /\ startAt \in Seq(0 .. clock)
    /\ lastRtt \in [session : 0 .. session, value : Ratios \cup {Missing}]
    /\ odd \subseteq {"slow", "gap", "address", "reconnects", "missing"}

(* docs/two-device-presentation.md:57: a simulated address or a burst of      *)
(* reconnects does not cross a verification threshold by itself, and neither  *)
(* do readings that are not there yet, are stale or have left the bounded     *)
(* collector, nor the gap that a connection the user made anew inherits.  A   *)
(* sudden drop takes a slow network or two of them at once, low trust a slow  *)
(* network or two of them since the last comparison (alice.py:61-94,138-145). *)
MildConditionsNeverAsk ==
    asked # "no" /\ verified =>
        /\ reason = "sudden_drop" =>
             "slow" \in Oddities(raw) \/ Cardinality(Oddities(raw)) >= 2
        /\ reason = "low_trust" => "slow" \in odd \/ Cardinality(odd) >= 2

(* A comparison pauses the chat until it is answered: messages flow only      *)
(* under a verified guard whose score is not low, through heartbeats, matches *)
(* and reconnect bursts.  The one exception is the comparison a heartbeat     *)
(* asks for while a burst's announcement is under way, which the burst's next *)
(* connection opens over (session_guard.py:67-74, alice.py:99-106,171-190).   *)
OpenMeansTrusted ==
    gate = "open" =>
        /\ verified
        /\ asked = "lost" \/ (asked = "no" /\ score >= DefaultTrigger.low)

(* A scored round trip is the last one of the session it is scored for: none  *)
(* of an earlier session whose records are still held (snapshot.py:9).        *)
ScoredRttIsCurrent ==
    raw.rtt # Missing => lastRtt = [session |-> raw.session, value |-> raw.rtt]

(* The establishments scored are those of the minute before the session they  *)
(* are scored for began (signal_collector.py:82-86).                          *)
EstablishmentsCounted ==
    raw.establishments # Missing =>
        raw.establishments = Part *
            Cardinality({s \in 1 .. raw.session : startAt[s] > startAt[raw.session] - Window})
===============================================================================
