------------------------------ MODULE TrustProofs ------------------------------
(***************************************************************************)
(* Alice's guard, for every capacity of the collector, every window, every *)
(* rotation age and any number of sessions and heartbeats, by three        *)
(* inductive invariants.                                                   *)
(*                                                                         *)
(* Inv: every record that is held belongs to a session that was started,   *)
(* so that a new session finds none of its own; the scores stay between    *)
(* nothing and a hundred points; wherever a burst of reconnects stands, an *)
(* open chat has a trusted guard and waits for no comparison but one that  *)
(* the burst runs over; the round trip scored is the last of its session.  *)
(*                                                                         *)
(* CInv: every record of an establishment, and the establishments that are *)
(* kept, count the sessions of the minute before their session began.      *)
(*                                                                         *)
(* MInv: since the last comparison a verified guard's score is at least    *)
(* seventy points unless something that is not mild came up; one mild      *)
(* snapshot is worth as much, so it can neither take the score below a     *)
(* threshold nor make it drop by ten points.                               *)
(***************************************************************************)
EXTENDS TrustMonitor, FiniteSetTheorems, SequenceTheorems, WellFoundedInduction, TLAPS

(* Numbers the proofs do not look into.                                      *)
LEMMA Scale ==
    /\ Full \in Nat /\ Half \in Score /\ Full \in Score /\ 0 \in Score
    /\ VerifiedFloor \in Score /\ Score \subseteq Int
    /\ DefaultTrigger.low \in Int /\ DefaultTrigger.low <= VerifiedFloor
    /\ DefaultTrigger.high \in Int /\ DefaultTrigger.drop \in Int
<1>1. Point \in Nat BY DEF Point
<1>2. DefaultTrigger.low = 50 * Point /\ DefaultTrigger.high = 80 * Point
      /\ DefaultTrigger.drop = 10 * Point
    BY DEF DefaultTrigger
<1>3. Full \in Nat /\ VerifiedFloor = 75 * Point /\ Half = 50 * Point /\ Full = 100 * Point
    BY <1>1 DEF Full, VerifiedFloor, Half
<1>4. Score = 0 .. Full BY DEF Score
<1> QED BY <1>1, <1>2, <1>3, <1>4

(* A part of a whole, rounded down.                                          *)
LEMMA Portion ==
    ASSUME NEW whole \in Nat, NEW part \in Nat, NEW n \in Nat, n <= part, part > 0
    PROVE  (whole * n) \div part \in 0 .. whole
<1>1. whole * n \in Nat /\ whole * n <= whole * part OBVIOUS
<1>2. ASSUME NEW w \in Nat, w <= whole * part PROVE w \div part \in 0 .. whole
    BY <1>2
<1> QED BY <1>1, <1>2

(* Each normalised reading is a score.                                        *)
LEMMA RampScore ==
    ASSUME NEW v \in Int, NEW normal \in Nat, NEW severe \in Nat, normal < severe
    PROVE  Ramp(v, normal, severe) \in Score
<1>1. CASE v = Missing \/ v <= normal \/ v >= severe BY <1>1, Scale DEF Ramp
<1>2. CASE v # Missing /\ v > normal /\ v < severe
    <2>1. severe - v \in Nat /\ severe - normal \in Nat /\ severe - normal > 0
          /\ severe - v <= severe - normal
        BY <1>2
    <2>2. (Full * (severe - v)) \div (severe - normal) \in 0 .. Full
        BY <2>1, Scale, Portion
    <2>3. Ramp(v, normal, severe) = (Full * (severe - v)) \div (severe - normal)
        BY <1>2 DEF Ramp
    <2> QED BY <2>2, <2>3 DEF Score
<1> QED BY <1>1, <1>2

LEMMA RelativeScore == ASSUME NEW v \in Int PROVE Relative(v) \in Score
BY RampScore DEF Relative, NormalRatio, SevereRatio

LEMMA IntervalScore ==
    ASSUME NEW v \in {Missing} \cup Ratios PROVE TimingScore(v) \in Score
<1>1. CASE v = Missing BY <1>1, Scale DEF TimingScore, Missing
<1>2. CASE v \in Ratios
    <2>1. v \in {30, 126} BY <1>2 DEF Ratios, Part, Slow
    <2>2. Larger(v, 900 \div v) \in Int BY <2>1 DEF Larger
    <2>3. TimingScore(v) = Relative(Larger(v, 900 \div v))
        BY <2>1 DEF TimingScore, Missing, Part
    <2> QED BY <2>2, <2>3, RelativeScore
<1> QED BY <1>1, <1>2

(* The mean of five scores                                                    *)
Mean(a, b, c, d, e) == (20 * a + 20 * b + 20 * c + 20 * d + 20 * e) \div 100

(* normalize_snapshot and one engine's weights give a score.                  *)
LEMMA CurrentScore ==
    ASSUME NEW snapshot \in Raw, NEW expected \in {"home", "unknown"},
           snapshot.timing \in {Missing} \cup Ratios
    PROVE  Current(EqualWeights, Normalized(snapshot, expected)) \in Score
<1> DEFINE n == Normalized(snapshot, expected)
<1>1. n.handshake \in Score BY RelativeScore DEF Normalized, Raw
<1>2. n.rtt \in Score
    <2>1. Relative(snapshot.rtt) \in Score /\ Relative(snapshot.variation) \in Score
        BY RelativeScore DEF Raw
    <2> QED BY <2>1 DEF Normalized, RttScore, Smaller
<1>3. n.continuity \in Score
    <2>1. \A a, b : ContinuityScore(a, b) \in {0, Half, Full} BY Zenon DEF ContinuityScore
    <2>2. n.continuity = ContinuityScore(snapshot.address, expected) BY DEF Normalized
    <2>3. {0, Half, Full} \subseteq Score BY Scale
    <2> QED BY <2>1, <2>2, <2>3, Zenon
<1>4. n.timing \in Score BY IntervalScore DEF Normalized
<1>5. n.renegotiation \in Score
    BY RampScore DEF Normalized, Raw, EstablishmentScore, Part
<1> HIDE DEF n
<1>6. Current(EqualWeights, n) =
          Mean(n.handshake, n.rtt, n.continuity, n.timing, n.renegotiation)
    BY DEF Current, EqualWeights, Signals, Mean
<1>7. ASSUME NEW a \in Score, NEW b \in Score, NEW c \in Score, NEW d \in Score,
             NEW e \in Score
      PROVE  Mean(a, b, c, d, e) \in Score
    <2>1. PICK w \in Nat : w = 20 * a + 20 * b + 20 * c + 20 * d + 20 * e /\ w <= 100 * Full
        BY Scale DEF Score
    <2>2. w \div 100 \in 0 .. Full BY Scale, <2>1
    <2> QED BY <2>1, <2>2 DEF Score, Mean
<1>8. Mean(n.handshake, n.rtt, n.continuity, n.timing, n.renegotiation) \in Score
    BY <1>1, <1>2, <1>3, <1>4, <1>5, <1>7, Zenon
<1>9. Current(EqualWeights, n) \in Score BY <1>6, <1>8, Zenon
<1> QED BY <1>9 DEF n

(* So is a mean of two scores, and a score that was raised to the floor.      *)
LEMMA AssessedScore ==
    ASSUME NEW s \in Score, NEW c \in Score
    PROVE  Assessed(30, s, c) \in Score
<1>1. (30 * c + 70 * s) \div 100 \in Score BY Scale DEF Score
<1> QED BY <1>1 DEF Assessed

LEMMA FlooredScore ==
    ASSUME NEW s \in Score
    PROVE  Floored(s) \in Score /\ Floored(s) >= DefaultTrigger.low
BY Scale DEF Floored, Larger

(* A decision that asks for nothing was made of a verified guard whose new    *)
(* score is not low.                                                          *)
LEMMA QuietDecision ==
    ASSUME NEW s \in Score, NEW d \in Int, NEW t \in BOOLEAN,
           Decide(DefaultTrigger, s, d, t) \notin Asking
    PROVE  t /\ s >= DefaultTrigger.low
BY Scale DEF Decide, Asking

(* A decision is one of the reasons, and asks unless the guard is verified.   *)
LEMMA Decisions ==
    ASSUME NEW s, NEW d, NEW t
    PROVE  /\ Decide(DefaultTrigger, s, d, t) \in Asking \cup {"trusted", "normal"}
           /\ ~t => Decide(DefaultTrigger, s, d, t) \in Asking
BY DEF Decide, Asking
-------------------------------------------------------------------------------
(* The collector                                                              *)

(* A set of positions that is not empty has a last one.                       *)
LEMMA LastExists ==
    ASSUME NEW n \in Nat, NEW S, S \subseteq 1 .. n, S # {}
    PROVE  \E i \in S : \A j \in S : j <= i
<1> DEFINE R == OpToRel(<, Nat)
           T == {k \in Nat : n - k \in S}
<1>1. IsWellFoundedOn(R, Nat) BY NatLessThanWellFounded
<1>2. T \subseteq Nat /\ T # {}
    <2>1. PICK i \in S : TRUE OBVIOUS
    <2>2. n - i \in Nat /\ n - (n - i) = i BY <2>1
    <2> QED BY <2>1, <2>2
<1>3. \A x, y \in Nat : y < x => <<y, x>> \in R BY DEF OpToRel
<1> HIDE DEF R
<1>4. PICK k \in T : \A y \in T : ~ (<<y, k>> \in R) BY <1>1, <1>2, WFMin
<1>5. ASSUME NEW j \in S PROVE j <= n - k
    <2>1. n - j \in T /\ j = n - (n - j) BY <1>5
    <2>2. ~ (n - j < k) BY <1>3, <1>4, <2>1
    <2> QED BY <2>1, <2>2, <1>4
<1> QED BY <1>4, <1>5

(* The deque keeps a suffix, and what was appended last.                      *)
LEMMA KeptSuffix ==
    ASSUME NEW seq \in Seq(Record)
    PROVE  /\ Kept(seq) \in Seq(Record) /\ Len(Kept(seq)) <= Capacity
           /\ \A i \in 1 .. Len(Kept(seq)) :
                  \E j \in 1 .. Len(seq) : Kept(seq)[i] = seq[j]
           /\ seq # <<>> => /\ Len(Kept(seq)) \in 1 .. Capacity
                            /\ Kept(seq)[Len(Kept(seq))] = seq[Len(seq)]
<1>1. Len(seq) \in Nat /\ (seq # <<>> => Len(seq) > 0) BY EmptySeq
<1>2. Capacity \in Nat \ {0} BY MonitorAssumption
<1>3. CASE Len(seq) <= Capacity BY <1>1, <1>2, <1>3 DEF Kept
<1>4. CASE Len(seq) > Capacity
    <2>1. PICK a \in Nat, b \in Nat : /\ a = Len(seq) - Capacity + 1 /\ b = Len(seq)
                                      /\ 1 <= a /\ a <= b /\ b - a + 1 = Capacity
        <3>1. Len(seq) - Capacity + 1 \in Nat /\ Len(seq) \in Nat BY <1>1, <1>2, <1>4
        <3>2. \E a \in Nat, b \in Nat : a = Len(seq) - Capacity + 1 /\ b = Len(seq)
            BY <3>1, Zenon
        <3> QED BY <1>1, <1>2, <1>4, <3>2
    <2>2. \A i \in a .. b : seq[i] \in Record
        BY <2>1, ElementOfSeq
    <2>3. Kept(seq) = SubSeq(seq, a, b) BY <1>1, <1>2, <1>4, <2>1 DEF Kept
    <2>4. /\ SubSeq(seq, a, b) \in Seq(Record)
          /\ Len(SubSeq(seq, a, b)) = IF a <= b THEN b - a + 1 ELSE 0
          /\ \A i \in 1 .. b - a + 1 : SubSeq(seq, a, b)[i] = seq[a + i - 1]
        <3>1. a \in Int /\ b \in Int OBVIOUS
        <3> HIDE DEF Record
        <3> QED BY <2>2, <3>1, SubSeqProperties
    <2>5. \A i \in 1 .. Capacity : a + i - 1 \in 1 .. b BY <1>2, <2>1
    <2>6. a + Capacity - 1 = b BY <1>2, <2>1
    <2>7. Len(SubSeq(seq, a, b)) = Capacity BY <2>1, <2>4
    <2>8. \A i \in 1 .. Capacity : SubSeq(seq, a, b)[i] = seq[a + i - 1] BY <2>1, <2>4
    <2> QED BY <1>2, <2>1, <2>3, <2>4, <2>5, <2>6, <2>7, <2>8
<1> QED BY <1>1, <1>2, <1>3, <1>4

(* What is scored is a number, or is missing.                                 *)
LEMMA LatestIsInt ==
    ASSUME NEW seq \in Seq(Record), NEW s, NEW signal
    PROVE  Latest(seq, s, signal).value \in Int /\ Latest(seq, s, signal).variation \in Int
<1> DEFINE held == Held(seq, s, signal)
<1>1. Len(seq) \in Nat /\ held \subseteq 1 .. Len(seq) BY DEF Held
<1>2. CASE held = {} BY <1>2 DEF Latest, Missing
<1>3. CASE held # {}
    <2>1. \E i \in held : \A j \in held : j <= i BY <1>1, <1>3, LastExists
    <2>2. PICK i \in held : i = CHOOSE k \in held : \A j \in held : j <= k BY <2>1
    <2>3. Latest(seq, s, signal) = [value |-> seq[i].value, variation |-> seq[i].variation]
        BY <1>3, <2>2 DEF Latest
    <2>4. seq[i] \in Record BY <1>1, <2>2, ElementOfSeq
    <2>5. seq[i].value \in Int /\ seq[i].variation \in Int BY <2>4 DEF Record
    <2> QED BY <2>3, <2>5
<1> QED BY <1>2, <1>3

(* A record that has just been appended and is not passed over is the latest. *)
LEMMA LatestIsLast ==
    ASSUME NEW seq \in Seq(Record), NEW s, NEW signal, Len(seq) \in Held(seq, s, signal)
    PROVE  /\ Latest(seq, s, signal).value = seq[Len(seq)].value
           /\ Latest(seq, s, signal).variation = seq[Len(seq)].variation
<1> DEFINE held == Held(seq, s, signal)
<1>1. Len(seq) \in Nat /\ held \subseteq 1 .. Len(seq) /\ held # {} BY DEF Held
<1>2. \A i \in held : (\A j \in held : j <= i) <=> i = Len(seq) BY <1>1
<1>3. (CHOOSE i \in held : \A j \in held : j <= i) = Len(seq) BY <1>2
<1> QED BY <1>1, <1>3 DEF Latest

(* trust_input gives a snapshot.                                              *)
LEMMA SnapshotIsRaw ==
    ASSUME NEW seq \in Seq(Record), NEW s \in Nat, NEW cadence \in {Missing} \cup Ratios
    PROVE  Snapshot(seq, s, cadence) \in Raw
<1>1. cadence \in Int BY DEF Missing, Ratios, Part, Slow
<1>2. \A signal : Latest(seq, s, signal).value \in Int BY LatestIsInt
<1>3. Latest(seq, s, "rtt").variation \in Int BY LatestIsInt
<1> QED BY <1>1, <1>2, <1>3 DEF Snapshot, Raw
-------------------------------------------------------------------------------
(* The invariant                                                              *)

(* Every record that is held belongs to a session that was started.           *)
Numbered(seq, last) == \A i \in 1 .. Len(seq) : seq[i].session <= last

Reasons == Asking \cup {"trusted", "normal"}
OddityNames == {"slow", "gap", "address", "reconnects", "missing"}

(* The collector's part of the state, when n sessions were started by time t. *)
CollectorOK(seq, opened, times, trips, n, t) ==
    /\ seq \in Seq(Record) /\ Len(seq) <= Capacity /\ Numbered(seq, n)
    /\ opened \subseteq [session : 1 .. n, at : 0 .. t] /\ IsFiniteSet(opened)
    /\ times \in Seq(0 .. t) /\ Len(times) = n
    /\ trips \in Seq(Ratios) /\ Len(trips) <= RttWindow

(* Where the gate, the comparison and the burst can stand together: a burst   *)
(* waits, or has the gate, or goes on over a comparison it did not wait for;  *)
(* no other comparison is pending while the chat is open or being replaced,   *)
(* and then the score is not low.                                             *)
PhaseOK ==
    /\ gate = "replacing" <=> phase = "closing" \/ asked = "refused"
    /\ phase # "off" => verified = TRUE /\ gate \in {"open", "comparing", "replacing"}
    /\ phase \in {"announce", "closing"} => burst > 0
    /\ phase = "announce" => gate = "open" \/ asked = "lost"
    /\ gate = "comparing" => asked = "yes" \/ (asked = "lost" /\ phase = "announce")
    /\ asked = "yes" => gate = "comparing"
    /\ asked = "refused" => phase = "off"
    /\ gate \in {"closed", "restricted"} => asked = "no"
    /\ gate = "open" => verified = TRUE
    /\ gate \in {"open", "replacing"} /\ asked = "no" => score >= DefaultTrigger.low

Inv == TypeOK /\ IsFiniteSet(establishments) /\ Numbered(records, session)
       /\ PhaseOK /\ ScoredRttIsCurrent

(* The collector's part of the invariant                                      *)
LEMMA InvCollector ==
    ASSUME Inv
    PROVE  /\ CollectorOK(records, establishments, startAt, rtts, session, clock)
           /\ session \in Nat /\ clock \in Nat
<1>1. clock \in Nat BY MonitorAssumption DEF Inv, TypeOK
<1>2. session \in Nat BY DEF Inv, TypeOK, session
<1> QED BY <1>1, <1>2 DEF Inv, TypeOK, CollectorOK, session

(* A new session: its four records, one more establishment, an empty window.  *)
LEMMA StartsKeeps ==
    ASSUME Inv, NEW h \in Handshakes, Starts(h)
    PROVE  /\ CollectorOK(records', establishments', startAt', rtts', session + 1, clock)
           /\ keyStart' = clock /\ session' = session + 1
           /\ Held(records', session + 1, "rtt") = {}
<1> DEFINE s == session + 1
           counted == Recent(establishments) \cup {[session |-> s, at |-> clock]}
           new == <<Measured(s, "establishments", Part * Cardinality(counted), Missing),
                    Measured(s, "continuity", Part, Missing),
                    Measured(s, "handshake", h, Missing),
                    Measured(s, "rtt", Missing, Missing)>>
<1>1. CollectorOK(records, establishments, startAt, rtts, session, clock)
      /\ session \in Nat /\ clock \in Nat
    BY InvCollector
<1>2. /\ establishments' = counted /\ records' = Kept(records \o new)
      /\ startAt' = Append(startAt, clock) /\ rtts' = <<>>
      /\ keyStart' = clock
    BY DEF Starts
<1>3. counted \subseteq [session : 1 .. s, at : 0 .. clock] BY <1>1 DEF Recent, CollectorOK
<1>4. IsFiniteSet(counted)
    <2>1. Recent(establishments) \subseteq establishments BY DEF Recent
    <2>2. IsFiniteSet(Recent(establishments)) BY <1>1, <2>1, FS_Subset DEF CollectorOK
    <2> QED BY <2>2, FS_AddElement
<1>5. Cardinality(counted) \in Nat BY <1>4, FS_CardinalityType
<1> HIDE DEF counted
<1>6. \A v \in Int : \A signal \in {"handshake", "rtt", "continuity", "establishments"} :
          LET r == Measured(s, signal, v, Missing) IN
          r \in Record /\ r.session = s /\ r.signal = signal /\ r.value = v
    BY <1>1 DEF Measured, Record, Missing
<1>7. Part * Cardinality(counted) \in Int /\ Part \in Int /\ h \in Int /\ Missing \in Int
    BY <1>5, MonitorAssumption DEF Part, Ratios, Slow, Missing
<1>8. /\ new \in Seq(Record) /\ Len(new) = 4
      /\ \A i \in 1 .. 4 : /\ new[i].session = s
                           /\ new[i].signal = "rtt" => new[i].value = Missing
    BY <1>6, <1>7
<1> HIDE DEF new, s
<1>9. records \in Seq(Record) /\ \A i \in 1 .. Len(records) : records[i].session <= session
    BY <1>1 DEF CollectorOK, Numbered
<1>10. /\ records \o new \in Seq(Record) /\ Len(records \o new) = Len(records) + 4
       /\ \A i \in 1 .. Len(records) + 4 :
              (records \o new)[i] = IF i <= Len(records) THEN records[i]
                                    ELSE new[i - Len(records)]
    <2>1. records \in Seq(Record) /\ new \in Seq(Record) BY <1>8, <1>9
    <2>2. /\ records \o new \in Seq(Record) /\ Len(records \o new) = Len(records) + Len(new)
          /\ \A i \in 1 .. Len(records) + Len(new) :
                 (records \o new)[i] = IF i <= Len(records) THEN records[i]
                                       ELSE new[i - Len(records)]
        BY <2>1, ConcatProperties, Zenon
    <2> QED BY <1>8, <2>2
<1>11. \A i \in 1 .. Len(records \o new) : (records \o new)[i].session <= s
    <2>1. SUFFICES ASSUME NEW i \in 1 .. Len(records \o new)
                   PROVE  (records \o new)[i].session <= s
        OBVIOUS
    <2>2. Len(records) \in Nat BY <1>9
    <2>3. s = session + 1 BY DEF s
    <2>4. CASE i <= Len(records)
        <3>1. records[i].session <= session /\ records[i] \in Record
            BY <1>9, <1>10, <2>1, <2>2, <2>4, ElementOfSeq
        <3>2. records[i].session \in Nat BY <3>1 DEF Record
        <3> QED BY <1>1, <1>10, <2>1, <2>3, <2>4, <3>1, <3>2
    <2>5. CASE i > Len(records)
        <3>1. i - Len(records) \in 1 .. 4 BY <1>10, <2>1, <2>2, <2>5
        <3>2. (records \o new)[i].session = s BY <1>8, <1>10, <2>1, <2>2, <2>5, <3>1
        <3> QED BY <1>1, <2>3, <3>2
    <2> QED BY <2>1, <2>2, <2>4, <2>5
<1>12. records' \in Seq(Record) /\ Len(records') <= Capacity /\ Numbered(records', s)
    <2>1. /\ Kept(records \o new) \in Seq(Record) /\ Len(Kept(records \o new)) <= Capacity
          /\ \A i \in 1 .. Len(Kept(records \o new)) :
                 \E j \in 1 .. Len(records \o new) : Kept(records \o new)[i] = (records \o new)[j]
        BY <1>10, KeptSuffix
    <2> QED BY <1>2, <1>11, <2>1 DEF Numbered
<1>13. startAt' \in Seq(0 .. clock) /\ Len(startAt') = s
    <2>1. startAt \in Seq(0 .. clock) /\ Len(startAt) = session /\ clock \in 0 .. clock
        BY <1>1 DEF CollectorOK
    <2> QED BY <1>2, <2>1, AppendProperties DEF s
<1>14. rtts' \in Seq(Ratios) /\ Len(rtts') <= RttWindow BY <1>2, MonitorAssumption
<1>15. \A i \in 1 .. Len(records \o new) :
           (records \o new)[i].session = s /\ (records \o new)[i].signal = "rtt"
               => (records \o new)[i].value = Missing
    <2>1. SUFFICES ASSUME NEW i \in 1 .. Len(records \o new),
                          (records \o new)[i].session = s,
                          (records \o new)[i].signal = "rtt"
                   PROVE  (records \o new)[i].value = Missing
        OBVIOUS
    <2>2. Len(records) \in Nat /\ s = session + 1 BY <1>9 DEF s
    <2>3. CASE i <= Len(records)
        <3>1. (records \o new)[i] = records[i] /\ i \in 1 .. Len(records)
            BY <1>10, <2>1, <2>2, <2>3
        <3>2. records[i].session <= session BY <1>9, <3>1
        <3> QED BY <1>1, <2>1, <2>2, <3>1, <3>2
    <2>4. CASE i > Len(records)
        <3>1. i - Len(records) \in 1 .. 4 BY <1>10, <2>1, <2>2, <2>4
        <3>2. (records \o new)[i] = new[i - Len(records)] BY <1>10, <2>1, <2>2, <2>4
        <3> QED BY <1>8, <2>1, <3>1, <3>2
    <2> QED BY <2>1, <2>2, <2>3, <2>4
<1>16. Held(records', s, "rtt") = {}
    <2>1. DOMAIN records' = 1 .. Len(records') BY <1>12, LenProperties
    <2>2. \A i \in 1 .. Len(records') :
              \E j \in 1 .. Len(records \o new) : records'[i] = (records \o new)[j]
        BY <1>2, <1>10, KeptSuffix
    <2> QED BY <1>15, <2>1, <2>2 DEF Held
<1> QED BY <1>2, <1>3, <1>4, <1>12, <1>13, <1>14, <1>16 DEF CollectorOK, session, s

(* A pong: three records, the last of which is the round trip.                *)
LEMMA PongKeeps ==
    ASSUME Inv, NEW v \in Ratios, Pong(v), UNCHANGED startAt
    PROVE  /\ CollectorOK(records', establishments', startAt', rtts', session, clock)
           /\ beating' = TRUE /\ session' = session
           /\ interval' \in {Missing} \cup Ratios /\ (interval' = Missing => beating = FALSE)
           /\ lastRtt' = [session |-> session, value |-> v]
           /\ Len(records') \in Held(records', session, "rtt")
           /\ records'[Len(records')].value = v
<1> DEFINE longer == Append(rtts, v)
           window == IF Len(longer) > RttWindow THEN Tail(longer) ELSE longer
           frame == Measured(session, "frame", Missing, Missing)
           pong == Measured(session, "rtt", v, Variation(window))
           new == <<frame, frame, pong>>
<1>1. CollectorOK(records, establishments, startAt, rtts, session, clock)
      /\ session \in Nat /\ clock \in Nat
    BY InvCollector
<1>2. /\ rtts' = window /\ beating' = TRUE /\ records' = Kept(records \o new)
      /\ lastRtt' = [session |-> session, value |-> v]
      /\ UNCHANGED <<establishments, startAt>>
    BY DEF Pong
<1>3. window \in Seq(Ratios) /\ Len(window) <= RttWindow
    <2>1. rtts \in Seq(Ratios) /\ Len(rtts) <= RttWindow /\ Len(rtts) \in Nat
        BY <1>1 DEF CollectorOK
    <2> HIDE DEF longer
    <2>2. longer \in Seq(Ratios) /\ longer # <<>> /\ Len(longer) = Len(rtts) + 1
        BY <2>1, AppendProperties DEF longer
    <2>3. Tail(longer) \in Seq(Ratios) /\ Len(Tail(longer)) = Len(rtts)
        BY <2>1, <2>2, HeadTailProperties
    <2> QED BY <2>1, <2>2, <2>3, MonitorAssumption
<1> HIDE DEF window
<1>4. Variation(window) \in Int /\ v \in Int /\ v # Missing /\ Missing \in Int
    BY DEF Variation, Missing, Slow, Part, Ratios
<1>5. frame \in Record /\ pong \in Record
      /\ frame.session = session /\ pong.session = session
      /\ pong.signal = "rtt" /\ pong.at = clock /\ pong.value = v
    BY <1>1, <1>4 DEF Measured, Record
<1> HIDE DEF frame, pong
<1>6. new \in Seq(Record) /\ Len(new) = 3 /\ new[1] = frame /\ new[2] = frame /\ new[3] = pong
    BY <1>5
<1> HIDE DEF new
<1>7. records \in Seq(Record) /\ Len(records) \in Nat
      /\ \A i \in 1 .. Len(records) : records[i].session <= session
    BY <1>1 DEF CollectorOK, Numbered
<1>8. /\ records \o new \in Seq(Record) /\ Len(records \o new) = Len(records) + 3
      /\ \A i \in 1 .. Len(records) + 3 :
             (records \o new)[i] = IF i <= Len(records) THEN records[i]
                                   ELSE new[i - Len(records)]
    <2>1. records \in Seq(Record) /\ new \in Seq(Record) BY <1>6, <1>7
    <2>2. /\ records \o new \in Seq(Record) /\ Len(records \o new) = Len(records) + Len(new)
          /\ \A i \in 1 .. Len(records) + Len(new) :
                 (records \o new)[i] = IF i <= Len(records) THEN records[i]
                                       ELSE new[i - Len(records)]
        BY <2>1, ConcatProperties, Zenon
    <2> QED BY <1>6, <2>2
<1>9. \A i \in 1 .. Len(records \o new) : (records \o new)[i].session <= session
    <2>1. SUFFICES ASSUME NEW i \in 1 .. Len(records \o new)
                   PROVE  (records \o new)[i].session <= session
        OBVIOUS
    <2>2. CASE i <= Len(records) BY <1>7, <1>8, <2>1, <2>2
    <2>3. CASE i > Len(records)
        <3>1. i - Len(records) \in {1, 2, 3} BY <1>7, <1>8, <2>1, <2>3
        <3>2. (records \o new)[i].session = session
            BY <1>5, <1>6, <1>7, <1>8, <2>1, <2>3, <3>1
        <3> QED BY <1>1, <3>2
    <2> QED BY <1>7, <2>1, <2>2, <2>3
<1>10. (records \o new)[Len(records \o new)] = pong /\ records \o new # <<>>
    BY <1>6, <1>7, <1>8
<1>11. /\ Kept(records \o new) \in Seq(Record) /\ Len(Kept(records \o new)) <= Capacity
       /\ \A i \in 1 .. Len(Kept(records \o new)) :
              \E j \in 1 .. Len(records \o new) : Kept(records \o new)[i] = (records \o new)[j]
       /\ Len(Kept(records \o new)) \in 1 .. Capacity
       /\ Kept(records \o new)[Len(Kept(records \o new))] = pong
    BY <1>8, <1>10, KeptSuffix
<1>12. Numbered(records', session) BY <1>2, <1>9, <1>11 DEF Numbered
<1>13. Len(records') \in Held(records', session, "rtt") /\ records'[Len(records')].value = v
    <2>1. records' \in Seq(Record) /\ Len(records') \in DOMAIN records'
          /\ records'[Len(records')] = pong
        BY <1>2, <1>11
    <2>2. clock - clock <= MaxAge BY <1>1 DEF MaxAge
    <2> QED BY <1>4, <1>5, <2>1, <2>2 DEF Held
<1>14. CollectorOK(records', establishments', startAt', rtts', session, clock)
    BY <1>1, <1>2, <1>3, <1>11, <1>12 DEF CollectorOK
<1>15. interval' \in {Missing} \cup Ratios /\ (interval' = Missing => beating = FALSE)
    <2>1. interval' \in Gaps(v) BY DEF Pong
    <2>2. beating \in BOOLEAN BY DEF Inv, TypeOK
    <2>3. Missing \notin Ratios BY DEF Ratios, Missing, Part, Slow
    <2> QED BY <2>1, <2>2, <2>3 DEF Gaps
<1> QED BY <1>2, <1>13, <1>14, <1>15 DEF session

(* An assessment: the score is a score, and nothing is asked only of a guard  *)
(* that is trusted.                                                           *)
LEMMA AssessKeeps ==
    ASSUME Inv, NEW snapshot \in Raw, snapshot.timing \in {Missing} \cup Ratios,
           NEW trusted \in BOOLEAN, Assess(snapshot, trusted)
    PROVE  /\ score' \in Score /\ reason' \in Reasons /\ raw' = snapshot
           /\ known' = known /\ odd' \subseteq OddityNames
           /\ reason' \notin Asking => trusted = TRUE /\ score' >= DefaultTrigger.low
<1> DEFINE expected == IF known THEN "home" ELSE "unknown"
           current == Current(EqualWeights, Normalized(snapshot, expected))
           next == Assessed(30, score, current)
           decided == Decide(DefaultTrigger, next, next - score, trusted)
           why == IF decided \notin Asking /\ clock - keyStart' >= RotationAge
                  THEN "rotation" ELSE decided
<1>1. /\ score' = next /\ reason' = why /\ raw' = snapshot
      /\ odd' = odd \cup Oddities(raw') /\ known' = known
    BY DEF Assess
<1>2. score \in Score /\ odd \subseteq OddityNames BY DEF Inv, TypeOK, OddityNames
<1>3. current \in Score BY CurrentScore
<1> HIDE DEF current
<1>4. next \in Score BY <1>2, <1>3, AssessedScore
<1> HIDE DEF next
<1>5. next - score \in Int BY <1>2, <1>4 DEF Score
<1>6. decided \in Reasons BY Decisions DEF Reasons
<1>7. decided \notin Asking => trusted = TRUE /\ next >= DefaultTrigger.low
    BY <1>4, <1>5, QuietDecision
<1> HIDE DEF decided
<1>8. why \in Reasons /\ (why \notin Asking => decided \notin Asking)
    BY <1>6 DEF Reasons, Asking
<1>9. Oddities(raw') \subseteq OddityNames BY DEF Oddities, OddityNames
<1> QED BY <1>1, <1>2, <1>4, <1>7, <1>8, <1>9
-------------------------------------------------------------------------------
(* Every step                                                                 *)

LEMMA InitInv == Init => Inv
<1>1. SUFFICES ASSUME Init PROVE Inv OBVIOUS
<1>2. score \in Score BY <1>1, MonitorAssumption DEF Init
<1>3. NoRaw \in Raw BY DEF NoRaw, Raw, Missing
<1>4. session = 0 /\ records = <<>> /\ Len(records) = 0 BY <1>1 DEF Init, session
<1>5. TypeOK
    <2>1. /\ records \in Seq(Record) /\ Len(records) <= Capacity
          /\ establishments \subseteq [session : 1 .. session, at : 0 .. clock]
          /\ rtts \in Seq(Ratios) /\ Len(rtts) <= RttWindow
          /\ startAt \in Seq(0 .. clock)
        BY <1>1, MonitorAssumption DEF Init
    <2>2. lastRtt \in [session : 0 .. session, value : Ratios \cup {Missing}]
        BY <1>1, <1>4 DEF Init
    <2>3. known \in BOOLEAN BY <1>1 DEF Init
    <2>4. /\ clock \in 0 .. MaxTime /\ keyStart \in 0 .. clock /\ burst \in 0 .. Attempts
          /\ interval \in Ratios \cup {Missing}
          /\ beats \in 0 .. MaxBeats /\ switches \in 0 .. MaxSwitches
        BY <1>1, MonitorAssumption DEF Init
    <2> QED BY <1>1, <1>2, <1>3, <2>1, <2>2, <2>3, <2>4 DEF Init, TypeOK
<1>6. IsFiniteSet(establishments) BY <1>1, FS_EmptySet DEF Init
<1>7. Numbered(records, session) BY <1>4 DEF Numbered
<1>8. PhaseOK /\ ScoredRttIsCurrent
    BY <1>1 DEF Init, PhaseOK, ScoredRttIsCurrent, NoRaw
<1> QED BY <1>5, <1>6, <1>7, <1>8 DEF Inv

(* The collector's part of the invariant, and the rest of it.                 *)
Rest ==
    /\ beating \in BOOLEAN /\ interval \in Ratios \cup {Missing}
    /\ mode \in {"normal", "reconnect_burst", "ip_change"}
    /\ phase \in {"off", "wait", "announce", "closing", "next"}
    /\ burst \in 0 .. Attempts /\ late \in BOOLEAN
    /\ score \in Score /\ known \in BOOLEAN /\ verified \in BOOLEAN
    /\ gate \in {"closed", "open", "comparing", "replacing", "restricted"}
    /\ asked \in {"no", "yes", "lost", "refused"}
    /\ reason \in Reasons /\ raw \in Raw
    /\ clock \in 0 .. MaxTime /\ keyStart \in 0 .. clock
    /\ beats \in 0 .. MaxBeats /\ switches \in 0 .. MaxSwitches
    /\ lastRtt \in [session : 0 .. session, value : Ratios \cup {Missing}]
    /\ odd \subseteq OddityNames
    /\ PhaseOK /\ ScoredRttIsCurrent

LEMMA InvParts ==
    Inv <=> Rest /\ CollectorOK(records, establishments, startAt, rtts, session, clock)
BY DEF Inv, Rest, CollectorOK, TypeOK, session, Reasons, OddityNames

LEMMA InvPartsNext ==
    Rest' /\ CollectorOK(records', establishments', startAt', rtts', session', clock') => Inv'
BY DEF Inv, Rest, CollectorOK, TypeOK, session, Reasons, OddityNames, Numbered

(* Steps that measure nothing and assess nothing.                             *)
Quiet ==
    \/ Restricts \/ BurstAnnounces \/ BurstCloses \/ BurstEnds
    \/ \E m \in {"normal", "reconnect_burst", "ip_change"} : SelectMode(m)

LEMMA QuietKeeps == ASSUME Inv, Quiet PROVE Inv'
<1>1. Rest /\ CollectorOK(records, establishments, startAt, rtts, session, clock)
    BY InvParts
<1>2. UNCHANGED <<collector, pulse, startAt, clock, keyStart, score, known, reason, raw,
                  lastRtt, odd, beats>>
    BY DEF Quiet, Restricts, BurstAnnounces, BurstCloses, BurstEnds, SelectMode, engine,
           bounds, history
<1>3. session' = session BY <1>2 DEF session
<1>4. CollectorOK(records', establishments', startAt', rtts', session', clock')
    BY <1>1, <1>2, <1>3 DEF collector
<1>5. ScoredRttIsCurrent' BY <1>1, <1>2 DEF Rest, ScoredRttIsCurrent
<1>6. ASSUME PhaseOK', /\ mode' \in {"normal", "reconnect_burst", "ip_change"}
                       /\ phase' \in {"off", "wait", "announce", "closing", "next"}
                       /\ burst' \in 0 .. Attempts /\ late' \in BOOLEAN
                       /\ verified' \in BOOLEAN
                       /\ gate' \in {"closed", "open", "comparing", "replacing", "restricted"}
                       /\ asked' \in {"no", "yes", "lost", "refused"}
                       /\ switches' \in 0 .. MaxSwitches
      PROVE  Inv'
    <2>1. Rest' BY <1>1, <1>2, <1>3, <1>5, <1>6 DEF Rest, pulse
    <2> QED BY <1>4, <2>1, InvPartsNext
<1>7. CASE Restricts
    <2>1. PhaseOK' BY <1>7 DEF Restricts, PhaseOK
    <2>2. burst' \in 0 .. Attempts BY <1>7, MonitorAssumption DEF Restricts
    <2> QED BY <1>1, <1>6, <1>7, <2>1, <2>2 DEF Restricts, Rest, bounds
<1>8. CASE BurstAnnounces
    <2>1. PhaseOK' BY <1>1, <1>8 DEF BurstAnnounces, PhaseOK, Rest, engine
    <2> QED BY <1>1, <1>6, <1>8, <2>1 DEF BurstAnnounces, Rest, engine, bounds
<1>9. CASE BurstCloses
    <2>1. PhaseOK' BY <1>1, <1>9 DEF BurstCloses, PhaseOK, Rest
    <2> QED BY <1>1, <1>6, <1>9, <2>1 DEF BurstCloses, Rest, bounds
<1>10. CASE BurstEnds
    <2>1. PhaseOK' BY <1>1, <1>10 DEF BurstEnds, PhaseOK, Rest, engine
    <2> QED BY <1>1, <1>6, <1>10, <2>1 DEF BurstEnds, Rest, engine, bounds
<1>11. ASSUME NEW m \in {"normal", "reconnect_burst", "ip_change"}, SelectMode(m) PROVE Inv'
    <2>1. UNCHANGED engine /\ mode' = m BY <1>11 DEF SelectMode
    <2>2. switches' \in 0 .. MaxSwitches
        BY <1>1, <1>11, MonitorAssumption DEF SelectMode, Rest
    <2>3. CASE m = "reconnect_burst"
        <3>1. gate = "open" /\ phase' = "wait" /\ burst' = Attempts /\ late' = TRUE
            BY <1>11, <2>3 DEF SelectMode
        <3>2. phase = "off" BY <1>11 DEF SelectMode
        <3>3. PhaseOK' BY <1>1, <2>1, <3>1, <3>2 DEF PhaseOK, Rest, engine
        <3>4. burst' \in 0 .. Attempts BY <3>1, MonitorAssumption
        <3> QED BY <1>1, <1>6, <2>1, <2>2, <3>1, <3>3, <3>4 DEF Rest, engine
    <2>4. CASE m # "reconnect_burst"
        <3>1. UNCHANGED task BY <1>11, <2>4 DEF SelectMode
        <3>2. PhaseOK' BY <1>1, <2>1, <3>1 DEF PhaseOK, Rest, engine, task
        <3> QED BY <1>1, <1>6, <2>1, <2>2, <3>1, <3>2 DEF Rest, engine, task
    <2> QED BY <2>3, <2>4
<1> QED BY <1>7, <1>8, <1>9, <1>10, <1>11 DEF Quiet

(* Time passes.                                                               *)
LEMMA TickKeeps == ASSUME Inv, Tick PROVE Inv'
<1>1. Rest /\ CollectorOK(records, establishments, startAt, rtts, session, clock)
      /\ clock \in Nat
    BY InvParts, InvCollector
<1>2. /\ UNCHANGED <<collector, pulse, mode, task, engine, keyStart, bounds, history>>
      /\ clock < MaxTime /\ clock' = clock + 1
    BY DEF Tick
<1>3. session' = session BY <1>2 DEF session, history
<1>4. clock' \in 0 .. MaxTime /\ 0 .. clock \subseteq 0 .. clock'
    BY <1>1, <1>2, MonitorAssumption
<1>5. startAt \in Seq(0 .. clock') BY <1>1, <1>4, SeqMonotonic DEF CollectorOK
<1>6. CollectorOK(records', establishments', startAt', rtts', session', clock')
    BY <1>1, <1>2, <1>3, <1>4, <1>5 DEF CollectorOK, collector, history
<1>7. PhaseOK' BY <1>1, <1>2 DEF Rest, PhaseOK, task, engine
<1>8. ScoredRttIsCurrent' BY <1>1, <1>2 DEF Rest, ScoredRttIsCurrent, engine, history
<1>9. Rest' BY <1>1, <1>2, <1>3, <1>4, <1>7, <1>8
               DEF Rest, pulse, task, engine, bounds, history
<1> QED BY <1>6, <1>9, InvPartsNext

(* Steps that replace a connection, or keep it.                               *)
LEMMA ReplacedKeeps ==
    ASSUME Inv, NEW h \in Handshakes, Match(h) \/ BurstOpens(h)
    PROVE  Inv'
<1>1. Rest /\ CollectorOK(records, establishments, startAt, rtts, session, clock)
      /\ session \in Nat /\ clock \in Nat
    BY InvParts, InvCollector
<1>2. /\ CollectorOK(records', establishments', startAt', rtts', session', clock')
      /\ session' \in {session, session + 1} /\ keyStart' \in 0 .. clock
      /\ beating' \in BOOLEAN /\ interval' \in Ratios \cup {Missing} /\ clock' = clock
    <2>1. clock' = clock BY DEF Match, BurstOpens
    <2>2. CASE Recovers(h)
        <3>1. Starts(h) /\ beating' = FALSE /\ interval' = Missing BY <2>2 DEF Recovers
        <3>2. /\ CollectorOK(records', establishments', startAt', rtts', session + 1, clock)
              /\ keyStart' = clock /\ session' = session + 1
            BY <3>1, StartsKeeps
        <3>3. clock \in 0 .. clock BY <1>1
        <3> QED BY <2>1, <3>1, <3>2, <3>3
    <2>3. CASE UNCHANGED <<collector, pulse, keyStart, startAt>>
        <3>1. session' = session BY <2>3 DEF session
        <3> QED BY <1>1, <2>1, <2>3, <3>1 DEF collector, pulse, Rest
    <2> QED BY <2>2, <2>3, Zenon DEF Match, BurstOpens
<1>3. lastRtt \in [session : 0 .. session', value : Ratios \cup {Missing}]
    BY <1>1, <1>2 DEF Rest
<1>4. CASE Match(h)
    <2>1. Floored(score) \in Score /\ Floored(score) >= DefaultTrigger.low
        BY <1>1, FlooredScore DEF Rest
    <2>2. /\ gate = "comparing" /\ asked = "yes" /\ gate' = "open" /\ asked' = "no"
          /\ verified' = TRUE /\ known' = TRUE /\ score' = Floored(score) /\ odd' = {}
          /\ UNCHANGED <<mode, task, clock, bounds, reason, raw, lastRtt>>
        BY <1>4 DEF Match
    <2>3. PhaseOK' BY <1>1, <2>1, <2>2 DEF Rest, PhaseOK, task
    <2>4. ScoredRttIsCurrent' BY <1>1, <2>2 DEF Rest, ScoredRttIsCurrent
    <2>5. Rest' BY <1>1, <1>2, <1>3, <2>1, <2>2, <2>3, <2>4 DEF Rest, bounds, task
    <2> QED BY <1>2, <2>5, InvPartsNext
<1>5. CASE BurstOpens(h)
    <2>1. /\ phase = "closing" /\ phase' = "next" /\ burst' = burst - 1 /\ gate' = "open"
          /\ UNCHANGED <<mode, late, score, known, verified, asked, reason, raw, clock, bounds,
                         lastRtt, odd>>
        BY <1>5 DEF BurstOpens
    <2>2. burst' \in 0 .. Attempts BY <1>1, <2>1, MonitorAssumption DEF PhaseOK, Rest
    <2>3. PhaseOK' BY <1>1, <2>1 DEF Rest, PhaseOK
    <2>4. ScoredRttIsCurrent' BY <1>1, <2>1 DEF Rest, ScoredRttIsCurrent
    <2>5. Rest' BY <1>1, <1>2, <1>3, <2>1, <2>2, <2>3, <2>4 DEF Rest, bounds
    <2> QED BY <1>2, <2>5, InvPartsNext
<1> QED BY <1>4, <1>5

(* A connection the user makes                                                *)
LEMMA ConnectKeeps == ASSUME Inv, NEW h \in Handshakes, Connect(h) PROVE Inv'
<1> DEFINE snapshot == Snapshot(records', session + 1, interval)
<1>1. Rest /\ session \in Nat /\ clock \in Nat BY InvParts, InvCollector
<1>2. /\ Starts(h) /\ Assess(snapshot, FALSE) /\ gate \in {"closed", "restricted"}
      /\ verified' = FALSE /\ gate' = "comparing" /\ asked' = "yes"
      /\ UNCHANGED <<pulse, mode, task, clock, bounds, lastRtt>>
    BY DEF Connect
<1>3. /\ CollectorOK(records', establishments', startAt', rtts', session', clock')
      /\ keyStart' = clock /\ session' = session + 1
      /\ Held(records', session + 1, "rtt") = {} /\ records' \in Seq(Record)
    BY <1>2, StartsKeeps DEF CollectorOK
<1>4. snapshot \in Raw /\ snapshot.timing \in {Missing} \cup Ratios /\ snapshot.rtt = Missing
    <2>1. interval \in {Missing} \cup Ratios BY <1>1 DEF Rest
    <2>2. snapshot \in Raw BY <1>1, <1>3, <2>1, SnapshotIsRaw
    <2>3. snapshot.rtt = Latest(records', session + 1, "rtt").value BY DEF Snapshot
    <2>4. snapshot.rtt = Missing BY <1>3, <2>3 DEF Latest
    <2> QED BY <2>1, <2>2, <2>4 DEF Snapshot
<1> HIDE DEF snapshot
<1>5. /\ score' \in Score /\ reason' \in Reasons /\ raw' = snapshot
      /\ known' = known /\ odd' \subseteq OddityNames
    BY <1>2, <1>4, AssessKeeps
<1>6. lastRtt \in [session : 0 .. session', value : Ratios \cup {Missing}]
    BY <1>1, <1>3 DEF Rest
<1>7. PhaseOK' BY <1>1, <1>2 DEF Rest, PhaseOK, task
<1>8. ScoredRttIsCurrent' BY <1>4, <1>5 DEF ScoredRttIsCurrent
<1>9. keyStart' \in 0 .. clock' BY <1>1, <1>2, <1>3
<1>10. Rest'
    BY <1>1, <1>2, <1>3, <1>4, <1>5, <1>6, <1>7, <1>8, <1>9 DEF Rest, bounds, pulse, task
<1> QED BY <1>3, <1>10, InvPartsNext

(* A heartbeat                                                                *)
LEMMA HeartbeatKeeps == ASSUME Inv, NEW v \in Ratios, Heartbeat(v) PROVE Inv'
<1> DEFINE snapshot == Snapshot(records', session, interval')
<1>1. Rest /\ session \in Nat /\ clock \in Nat BY InvParts, InvCollector
<1>2. /\ asked = "no" /\ (gate = "open" \/ phase = "closing")
      /\ Pong(v) /\ Assess(snapshot, verified) /\ late' = FALSE
      /\ beats < MaxBeats /\ beats' = beats + 1 /\ keyStart' = keyStart
      /\ IF reason' \in Asking THEN Ask ELSE UNCHANGED <<gate, asked, phase, burst>>
      /\ UNCHANGED <<verified, mode, clock, switches, startAt>>
    BY DEF Heartbeat
<1>3. /\ CollectorOK(records', establishments', startAt', rtts', session', clock')
      /\ beating' = TRUE /\ session' = session /\ records' \in Seq(Record)
      /\ interval' \in {Missing} \cup Ratios
      /\ lastRtt' = [session |-> session, value |-> v]
      /\ Len(records') \in Held(records', session, "rtt")
      /\ records'[Len(records')].value = v
    BY <1>2, PongKeeps DEF CollectorOK
<1>4. /\ snapshot \in Raw /\ snapshot.timing = interval'
      /\ snapshot.session = session /\ snapshot.rtt = v
    <2>1. snapshot \in Raw BY <1>1, <1>3, SnapshotIsRaw
    <2>2. Latest(records', session, "rtt").value = v BY <1>3, LatestIsLast
    <2> QED BY <2>1, <2>2 DEF Snapshot
<1> HIDE DEF snapshot
<1>5. verified = TRUE BY <1>1, <1>2 DEF Rest, PhaseOK
<1>6. /\ score' \in Score /\ reason' \in Reasons /\ raw' = snapshot
      /\ known' = known /\ odd' \subseteq OddityNames
      /\ reason' \notin Asking => score' >= DefaultTrigger.low
    BY <1>2, <1>3, <1>4, <1>5, AssessKeeps
<1>7. /\ PhaseOK' /\ burst' \in 0 .. Attempts
      /\ phase' \in {"off", "wait", "announce", "closing", "next"}
      /\ gate' \in {"closed", "open", "comparing", "replacing", "restricted"}
      /\ asked' \in {"no", "yes", "lost", "refused"}
    <2>1. CASE reason' \notin Asking
        <3>1. UNCHANGED <<gate, asked, phase, burst, verified>> BY <1>2, <2>1
        <3>2. score' >= DefaultTrigger.low BY <1>6, <2>1
        <3> QED BY <1>1, <3>1, <3>2 DEF Rest, PhaseOK
    <2>2. CASE reason' \in Asking /\ phase = "closing"
        <3>1. asked' = "refused" /\ phase' = "off" /\ burst' = 0 /\ gate' = gate
              /\ verified' = verified
            BY <1>2, <2>2 DEF Ask
        <3>2. gate = "replacing" /\ 0 \in 0 .. Attempts
            BY <1>1, <2>2, MonitorAssumption DEF Rest, PhaseOK
        <3> QED BY <3>1, <3>2 DEF PhaseOK
    <2>3. CASE reason' \in Asking /\ phase # "closing"
        <3>1. /\ asked' = IF phase = "announce" THEN "lost" ELSE "yes"
              /\ gate' = "comparing" /\ UNCHANGED <<phase, burst, verified>>
            BY <1>2, <2>3 DEF Ask
        <3> QED BY <1>1, <1>5, <2>3, <3>1 DEF Rest, PhaseOK
    <2> QED BY <2>1, <2>2, <2>3
<1>8. ScoredRttIsCurrent' BY <1>3, <1>4, <1>6 DEF ScoredRttIsCurrent
<1>9. beats' \in 0 .. MaxBeats BY <1>1, <1>2, MonitorAssumption DEF Rest
<1>10. lastRtt' \in [session : 0 .. session', value : Ratios \cup {Missing}]
    BY <1>1, <1>3
<1>11. Rest' BY <1>1, <1>2, <1>3, <1>4, <1>6, <1>7, <1>8, <1>9, <1>10 DEF Rest
<1> QED BY <1>3, <1>11, InvPartsNext

(* Every step keeps the invariant.                                            *)
LEMMA NextInv == Inv /\ [Next]_vars => Inv'
<1>1. SUFFICES ASSUME Inv, [Next]_vars PROVE Inv' OBVIOUS
<1>2. CASE UNCHANGED vars
    <2>1. UNCHANGED <<records, establishments, rtts, beating, interval, mode, phase, burst,
                      late, score, known, verified, gate, asked, reason, raw, clock,
                      keyStart, beats, switches, startAt, lastRtt, odd>>
        BY <1>2 DEF vars, collector, pulse, task, engine, history, bounds
    <2>2. session' = session BY <2>1 DEF session
    <2> QED BY <1>1, <2>1, <2>2 DEF Inv, TypeOK, Numbered, PhaseOK, ScoredRttIsCurrent
<1>3. CASE Next
    BY <1>1, <1>3, QuietKeeps, TickKeeps, ReplacedKeeps, ConnectKeeps, HeartbeatKeeps
       DEF Next, Quiet
<1> QED BY <1>1, <1>2, <1>3

LEMMA SpecInv == Spec => []Inv
BY InitInv, NextInv, PTL DEF Spec

(* The monitor's variables keep their types: no computed score leaves the     *)
(* range TrustEngine.assess accepts, and the collector its bound.             *)
THEOREM TypeCorrect == Spec => []TypeOK
<1>1. Inv => TypeOK BY DEF Inv
<1> QED BY <1>1, SpecInv, PTL

(* session_guard.py:67-74, alice.py:99-106,171-190: while the chat is open no *)
(* comparison is pending, the guard is verified and its score is not low, at  *)
(* every step of a reconnect burst too; except for the comparison that was    *)
(* asked for while a burst announced a connection, which stays unanswered.    *)
THEOREM OpenIsTrusted == Spec => []OpenMeansTrusted
<1>1. Inv => OpenMeansTrusted BY DEF Inv, TypeOK, PhaseOK, OpenMeansTrusted
<1> QED BY <1>1, SpecInv, PTL

(* snapshot.py:9: no round trip of an earlier session is scored for a later   *)
(* one, however many records of earlier sessions the collector still holds.   *)
THEOREM ScoredIsCurrent == Spec => []ScoredRttIsCurrent
<1>1. Inv => ScoredRttIsCurrent BY DEF Inv
<1> QED BY <1>1, SpecInv, PTL

-------------------------------------------------------------------------------
(* The establishments that are scored                                         *)

(* The sessions that started in the minute before session s did, it included  *)
Lately(starts, s) == {t \in 1 .. s : starts[t] > starts[s] - Window}

(* Their number, in the unit of the measurements                              *)
Counted(starts, s) == Part * Cardinality(Lately(starts, s))

(* The establishments of the sessions in A                                    *)
Opened(starts, A) == {[session |-> t, at |-> starts[t]] : t \in A}

(* Every establishment record tells its session's count; the establishments   *)
(* that are kept are those that the last session counted.                     *)
CountsOK(seq, opened, starts, n) ==
    /\ \A i \in 1 .. Len(seq) : seq[i].signal = "establishments" =>
           seq[i].session \in 1 .. n /\ seq[i].value = Counted(starts, seq[i].session)
    /\ opened = IF n = 0 THEN {} ELSE Opened(starts, Lately(starts, n))

(* The last snapshot tells its session's count, if it tells one.              *)
RawOK == raw.establishments # Missing => /\ raw.session \in 1 .. session
                                         /\ raw.establishments = Counted(startAt, raw.session)

(* The second invariant                                                       *)
CInv == Inv /\ CountsOK(records, establishments, startAt, session) /\ RawOK

(* What a session counted stays when later ones start.                        *)
LEMMA CountedPrefix ==
    ASSUME NEW S, NEW starts \in Seq(S), NEW c \in S, NEW s \in 1 .. Len(starts)
    PROVE  Counted(Append(starts, c), s) = Counted(starts, s)
<1>1. \A t \in 1 .. s : Append(starts, c)[t] = starts[t] BY AppendProperties
<1>2. s \in 1 .. s OBVIOUS
<1>3. Lately(Append(starts, c), s) = Lately(starts, s) BY <1>1, <1>2 DEF Lately
<1> QED BY <1>3 DEF Counted

(* There are as many establishments as sessions they belong to.               *)
LEMMA OnePerSession ==
    ASSUME NEW n \in Nat, NEW starts, NEW A, \A t \in A : t \in 1 .. n
    PROVE  Cardinality(Opened(starts, A)) = Cardinality(A)
<1> DEFINE B == {[session |-> t, at |-> starts[t]] : t \in A}
           f == [t \in A |-> [session |-> t, at |-> starts[t]]]
<1>1. IsFiniteSet(A)
    <2>1. IsFiniteSet(1 .. n) BY FS_Interval
    <2> QED BY <2>1, FS_Subset
<1>2. f \in Bijection(A, B)
    <2>1. f \in [A -> B] OBVIOUS
    <2>2. \A t \in A : f[t].session = t OBVIOUS
    <2>3. \A b \in B : \E t \in A : f[t] = b OBVIOUS
    <2> HIDE DEF f, B
    <2>4. f \in Injection(A, B) BY <2>1, <2>2 DEF Injection, IsInjective
    <2>5. f \in Surjection(A, B) BY <2>1, <2>3 DEF Surjection
    <2> QED BY <2>4, <2>5 DEF Bijection
<1> HIDE DEF f, B
<1>3. ExistsBijection(A, B) BY <1>2 DEF ExistsBijection
<1>4. Cardinality(B) = Cardinality(A) BY <1>1, <1>3, FS_Bijection
<1> QED BY <1>4 DEF B, Opened

(* A session that starts counts exactly those of the last minute.             *)
LEMMA StartsCounts ==
    ASSUME CInv, NEW h \in Handshakes, Starts(h)
    PROVE  CountsOK(records', establishments', startAt', session + 1)
<1> DEFINE s == session + 1
           starts == Append(startAt, clock)
           counted == Recent(establishments) \cup {[session |-> s, at |-> clock]}
           card == Part * Cardinality(counted)
           new == <<Measured(s, "establishments", card, Missing),
                    Measured(s, "continuity", Part, Missing),
                    Measured(s, "handshake", h, Missing),
                    Measured(s, "rtt", Missing, Missing)>>
<1>1. CollectorOK(records, establishments, startAt, rtts, session, clock)
      /\ session \in Nat /\ clock \in Nat
    BY InvCollector DEF CInv
<1>2. /\ establishments' = counted /\ records' = Kept(records \o new)
      /\ startAt' = starts
    BY DEF Starts
<1>3. /\ startAt \in Seq(0 .. clock) /\ Len(startAt) = session /\ s \in Nat /\ s \in 1 .. s
      /\ s # 0 /\ \A t \in 1 .. session : t \in 1 .. s /\ t # s
      /\ \A t \in 1 .. s : t \in 1 .. session \/ t = s
    BY <1>1 DEF CollectorOK
<1>4. /\ \A t \in 1 .. session : starts[t] = startAt[t] /\ startAt[t] \in 0 .. clock
      /\ starts[s] = clock
    <2>1. clock \in 0 .. clock BY <1>1
    <2>2. /\ Len(starts) = s /\ \A t \in 1 .. session : starts[t] = startAt[t]
          /\ starts[s] = clock
        BY <1>3, <2>1, AppendProperties
    <2>3. \A t \in 1 .. session : startAt[t] \in 0 .. clock BY <1>3, ElementOfSeq
    <2> QED BY <2>2, <2>3
<1>5. \A t \in 1 .. session : Counted(starts, t) = Counted(startAt, t)
    <2>1. clock \in 0 .. clock BY <1>1
    <2> HIDE DEF starts
    <2>2. \A t \in 1 .. Len(startAt) : Counted(Append(startAt, clock), t) = Counted(startAt, t)
        BY <1>3, <2>1, CountedPrefix
    <2> QED BY <1>3, <2>2 DEF starts
<1> HIDE DEF starts
<1>6. counted = Opened(starts, Lately(starts, s))
    <2> DEFINE old == {t \in 1 .. session : startAt[t] > clock - Window}
    <2>1. Lately(starts, s) = old \cup {s}
        <3>1. clock > clock - Window BY <1>1 DEF Window
        <3>2. \A t \in 1 .. session :
                  starts[t] > starts[s] - Window <=> startAt[t] > clock - Window
            BY <1>4
        <3> QED BY <1>3, <1>4, <3>1, <3>2 DEF Lately
    <2>2. Recent(establishments) = Opened(startAt, old)
        <3>1. CASE session = 0
            <4>1. establishments = {} /\ old = {} BY <3>1 DEF CInv, CountsOK
            <4> QED BY <4>1 DEF Recent, Opened
        <3>2. CASE session # 0
            <4>1. establishments = Opened(startAt, Lately(startAt, session))
                BY <3>2 DEF CInv, CountsOK
            <4>2. session \in 1 .. session BY <1>1, <3>2
            <4>3. \A t \in old : t \in Lately(startAt, session)
                BY <1>1, <1>4, <4>2 DEF Lately, Window
            <4>4. \A t \in Lately(startAt, session) : t \in 1 .. session BY DEF Lately
            <4> QED BY <4>1, <4>3, <4>4 DEF Recent, Opened
        <3> QED BY <3>1, <3>2
    <2>3. \A t \in old : starts[t] = startAt[t] BY <1>4
    <2> HIDE DEF old
    <2> QED BY <1>4, <2>1, <2>2, <2>3 DEF Opened
<1>7. card = Counted(starts, s)
    <2>1. \A t \in Lately(starts, s) : t \in 1 .. s BY DEF Lately
    <2> HIDE DEF s
    <2>2. Cardinality(Opened(starts, Lately(starts, s))) = Cardinality(Lately(starts, s))
        <3>0. PICK k \in Nat : k = s BY <1>3
        <3>1. PICK A, S : A = Lately(starts, s) /\ S = starts OBVIOUS
        <3>2. \A t \in A : t \in 1 .. k BY <2>1, <3>0, <3>1
        <3>3. Cardinality(Opened(S, A)) = Cardinality(A) BY <3>2, OnePerSession
        <3> QED BY <3>0, <3>1, <3>3
    <2> QED BY <1>6, <2>2 DEF Counted
<1>8. card \in Int
    <2>1. IsFiniteSet(1 .. s) BY <1>3, FS_Interval
    <2>2. IsFiniteSet(Lately(starts, s)) BY <2>1, FS_Subset DEF Lately
    <2>3. Cardinality(Lately(starts, s)) \in Nat BY <2>2, FS_CardinalityType
    <2> QED BY <1>7, <2>3 DEF Counted, Part
<1> HIDE DEF card, counted
<1>9. \A v \in Int : \A signal \in {"handshake", "rtt", "continuity", "establishments"} :
          LET r == Measured(s, signal, v, Missing) IN
          r \in Record /\ r.session = s /\ r.signal = signal /\ r.value = v
    BY <1>1, <1>3 DEF Measured, Record, Missing
<1>10. Part \in Int /\ h \in Int /\ Missing \in Int
    BY MonitorAssumption DEF Part, Ratios, Slow, Missing
<1>11. /\ new \in Seq(Record) /\ Len(new) = 4
       /\ \A i \in 1 .. 4 : /\ new[i].session = s
                            /\ new[i].signal = "establishments" => new[i].value = card
    BY <1>8, <1>9, <1>10
<1> HIDE DEF new
<1>12. records \in Seq(Record) /\ Len(records) \in Nat
       /\ \A i \in 1 .. Len(records) :
              records[i].signal = "establishments" =>
                  /\ records[i].session \in 1 .. session
                  /\ records[i].value = Counted(startAt, records[i].session)
    BY <1>1 DEF CollectorOK, CInv, CountsOK
<1>13. /\ records \o new \in Seq(Record) /\ Len(records \o new) = Len(records) + 4
       /\ \A i \in 1 .. Len(records) + 4 :
              (records \o new)[i] = IF i <= Len(records) THEN records[i]
                                    ELSE new[i - Len(records)]
    <2>1. records \in Seq(Record) /\ new \in Seq(Record) BY <1>11, <1>12
    <2>2. /\ records \o new \in Seq(Record) /\ Len(records \o new) = Len(records) + Len(new)
          /\ \A i \in 1 .. Len(records) + Len(new) :
                 (records \o new)[i] = IF i <= Len(records) THEN records[i]
                                       ELSE new[i - Len(records)]
        BY <2>1, ConcatProperties, Zenon
    <2> QED BY <1>11, <2>2
<1>14. ASSUME NEW i \in 1 .. Len(records \o new)
       PROVE  LET r == (records \o new)[i] IN
              r.signal = "establishments" =>
                  r.session \in 1 .. s /\ r.value = Counted(starts, r.session)
    <2>1. CASE i <= Len(records)
        <3>1. (records \o new)[i] = records[i] /\ i \in 1 .. Len(records)
            BY <1>12, <1>13, <2>1
        <3> QED BY <1>3, <1>5, <1>12, <3>1
    <2>2. CASE i > Len(records)
        <3>1. i - Len(records) \in 1 .. 4 BY <1>12, <1>13, <2>2
        <3>2. (records \o new)[i] = new[i - Len(records)] BY <1>12, <1>13, <2>2
        <3> QED BY <1>3, <1>7, <1>11, <3>1, <3>2
    <2> QED BY <1>12, <1>13, <2>1, <2>2
<1>15. \A i \in 1 .. Len(records') :
           \E j \in 1 .. Len(records \o new) : records'[i] = (records \o new)[j]
    BY <1>2, <1>13, KeptSuffix
<1>16. \A i \in 1 .. Len(records') :
           records'[i].signal = "establishments" =>
               /\ records'[i].session \in 1 .. s
               /\ records'[i].value = Counted(starts, records'[i].session)
    BY <1>14, <1>15
<1> QED BY <1>2, <1>3, <1>6, <1>16 DEF CountsOK

(* A pong adds no establishment.                                              *)
LEMMA PongCounts ==
    ASSUME CInv, NEW v \in Ratios, Pong(v), UNCHANGED startAt
    PROVE  CountsOK(records', establishments', startAt', session)
<1> DEFINE longer == Append(rtts, v)
           window == IF Len(longer) > RttWindow THEN Tail(longer) ELSE longer
           frame == Measured(session, "frame", Missing, Missing)
           pong == Measured(session, "rtt", v, Variation(window))
           new == <<frame, frame, pong>>
<1>1. session \in Nat /\ clock \in Nat /\ records \in Seq(Record)
    BY InvCollector DEF CInv, CollectorOK
<1>2. records' = Kept(records \o new) /\ UNCHANGED <<establishments, startAt>>
    BY DEF Pong
<1> HIDE DEF window
<1>3. Variation(window) \in Int /\ v \in Int /\ Missing \in Int
    BY DEF Variation, Missing, Slow, Part, Ratios
<1>4. frame \in Record /\ pong \in Record
      /\ frame.session = session /\ pong.session = session
      /\ pong.signal # "establishments" /\ frame.signal # "establishments"
    BY <1>1, <1>3 DEF Measured, Record
<1> HIDE DEF frame, pong
<1>5. new \in Seq(Record) /\ Len(new) = 3
      /\ \A i \in 1 .. 3 : new[i].session = session /\ new[i].signal # "establishments"
    BY <1>4
<1> HIDE DEF new
<1>6. /\ records \o new \in Seq(Record) /\ Len(records \o new) = Len(records) + 3
      /\ \A i \in 1 .. Len(records) + 3 :
             (records \o new)[i] = IF i <= Len(records) THEN records[i]
                                   ELSE new[i - Len(records)]
    <2>1. records \in Seq(Record) /\ new \in Seq(Record) BY <1>1, <1>5
    <2>2. /\ records \o new \in Seq(Record) /\ Len(records \o new) = Len(records) + Len(new)
          /\ \A i \in 1 .. Len(records) + Len(new) :
                 (records \o new)[i] = IF i <= Len(records) THEN records[i]
                                       ELSE new[i - Len(records)]
        BY <2>1, ConcatProperties, Zenon
    <2> QED BY <1>5, <2>2
<1>7. ASSUME NEW i \in 1 .. Len(records \o new)
      PROVE  LET r == (records \o new)[i] IN
             r.signal = "establishments" =>
                 r.session \in 1 .. session /\ r.value = Counted(startAt, r.session)
    <2>0. Len(records) \in Nat BY <1>1
    <2>1. CASE i <= Len(records)
        <3>1. (records \o new)[i] = records[i] /\ i \in 1 .. Len(records)
            BY <1>6, <2>0, <2>1
        <3> QED BY <3>1 DEF CInv, CountsOK
    <2>2. CASE i > Len(records)
        <3>1. i - Len(records) \in 1 .. 3 BY <1>6, <2>0, <2>2
        <3>2. (records \o new)[i] = new[i - Len(records)] BY <1>6, <2>0, <2>2
        <3> QED BY <1>1, <1>5, <3>1, <3>2
    <2> QED BY <1>6, <2>0, <2>1, <2>2
<1>8. \A i \in 1 .. Len(records') :
          \E j \in 1 .. Len(records \o new) : records'[i] = (records \o new)[j]
    BY <1>2, <1>6, KeptSuffix
<1>9. \A i \in 1 .. Len(records') :
          records'[i].signal = "establishments" =>
              /\ records'[i].session \in 1 .. session
              /\ records'[i].value = Counted(startAt, records'[i].session)
    BY <1>7, <1>8
<1> QED BY <1>2, <1>9 DEF CInv, CountsOK

(* What a snapshot says of the establishments is a record's count.            *)
LEMMA SnapshotCounts ==
    ASSUME NEW seq \in Seq(Record), NEW opened, NEW starts, NEW n \in Nat,
           CountsOK(seq, opened, starts, n), NEW s, NEW cadence,
           Snapshot(seq, s, cadence).establishments # Missing
    PROVE  /\ s \in 1 .. n
           /\ Snapshot(seq, s, cadence).establishments = Counted(starts, s)
<1> DEFINE held == Held(seq, s, "establishments")
<1>1. Len(seq) \in Nat /\ held \subseteq 1 .. Len(seq) BY DEF Held
<1>2. Snapshot(seq, s, cadence).establishments = Latest(seq, s, "establishments").value
    BY DEF Snapshot
<1>3. held # {} BY <1>2 DEF Latest
<1>4. \E i \in held : \A j \in held : j <= i BY <1>1, <1>3, LastExists
<1>5. PICK i \in held : i = CHOOSE k \in held : \A j \in held : j <= k BY <1>4
<1>6. Latest(seq, s, "establishments").value = seq[i].value BY <1>3, <1>5 DEF Latest
<1>7. seq[i].session = s /\ seq[i].signal = "establishments" /\ i \in 1 .. Len(seq)
    BY <1>1 DEF Held
<1> QED BY <1>2, <1>6, <1>7 DEF CountsOK

(* Every step keeps the counts.                                               *)
LEMMA NextCounts == CInv /\ [Next]_vars => CInv'
<1> SUFFICES ASSUME CInv, [Next]_vars PROVE CInv' OBVIOUS
<1>1. Inv' /\ Inv BY NextInv DEF CInv
<1>2. session \in Nat /\ startAt \in Seq(0 .. clock) /\ Len(startAt) = session /\ clock \in Nat
    BY <1>1, InvCollector DEF CollectorOK
<1> DEFINE Counts == CountsOK(records', establishments', startAt', session')
<1>3. ASSUME UNCHANGED <<records, establishments, startAt, raw>> PROVE CInv'
    <2>1. session' = session BY <1>3 DEF session
    <2> QED BY <1>1, <1>3, <2>1 DEF CInv, CountsOK, RawOK
<1>4. ASSUME NEW h \in Handshakes, Starts(h) PROVE
          /\ Counts /\ session' = session + 1
          /\ \A s \in 1 .. session : Counted(startAt', s) = Counted(startAt, s)
    <2>1. session' = session + 1 BY <1>1, <1>4, StartsKeeps
    <2>2. startAt' = Append(startAt, clock) /\ clock \in 0 .. clock BY <1>2, <1>4 DEF Starts
    <2>3. \A s \in 1 .. Len(startAt) : Counted(Append(startAt, clock), s) = Counted(startAt, s)
        BY <1>2, <2>2, CountedPrefix
    <2>4. CountsOK(records', establishments', startAt', session + 1) BY <1>4, StartsCounts
    <2> QED BY <1>2, <2>1, <2>2, <2>3, <2>4
<1>5. ASSUME NEW h \in Handshakes, Starts(h), UNCHANGED raw PROVE CInv'
    <2>1. RawOK'
        BY <1>2, <1>4, <1>5 DEF CInv, RawOK
    <2> QED BY <1>1, <1>4, <1>5, <2>1 DEF CInv
<1>6. ASSUME NEW h \in Handshakes, Connect(h) PROVE CInv'
    <2> DEFINE snapshot == Snapshot(records', session + 1, interval)
    <2>1. Starts(h) /\ raw' = snapshot BY <1>6 DEF Connect, Assess
    <2>2. Counts /\ session' = session + 1 BY <1>4, <2>1
    <2>3. records' \in Seq(Record) /\ session' \in Nat BY <1>1, <1>2, <2>2 DEF Inv, TypeOK
    <2>4. snapshot.session = session' BY <2>2 DEF Snapshot
    <2>5. snapshot.establishments # Missing =>
              /\ session' \in 1 .. session'
              /\ snapshot.establishments = Counted(startAt', session')
        BY <2>2, <2>3, SnapshotCounts
    <2> QED BY <1>1, <2>1, <2>2, <2>4, <2>5 DEF CInv, RawOK
<1>7. ASSUME NEW v \in Ratios, Heartbeat(v) PROVE CInv'
    <2> DEFINE snapshot == Snapshot(records', session, interval')
    <2>1. Pong(v) /\ raw' = snapshot /\ UNCHANGED startAt BY <1>7 DEF Heartbeat, Assess
    <2>2. session' = session BY <2>1 DEF session
    <2>3. records' \in Seq(Record) BY <1>1 DEF Inv, TypeOK
    <2>4. Counts
        BY <2>1, <2>2, PongCounts DEF Heartbeat
    <2>5. snapshot.session = session' BY <2>2 DEF Snapshot
    <2>6. snapshot.establishments # Missing =>
              /\ session' \in 1 .. session'
              /\ snapshot.establishments = Counted(startAt', session')
        BY <1>2, <2>2, <2>3, <2>4, SnapshotCounts
    <2> QED BY <1>1, <2>1, <2>4, <2>5, <2>6 DEF CInv, RawOK
<1>8. CASE UNCHANGED vars
    BY <1>3, <1>8 DEF vars, collector, engine, history
<1>9. CASE Tick \/ Restricts \/ BurstAnnounces \/ BurstCloses \/ BurstEnds
    BY <1>3, <1>9 DEF Tick, Restricts, BurstAnnounces, BurstCloses, BurstEnds,
                      collector, engine, history
<1>10. CASE \E m \in {"normal", "reconnect_burst", "ip_change"} : SelectMode(m)
    BY <1>3, <1>10 DEF SelectMode, collector, engine, history
<1>11. CASE \E h \in Handshakes : Match(h)
    BY <1>3, <1>5, <1>11 DEF Match, Recovers, collector
<1>12. CASE \E h \in Handshakes : BurstOpens(h)
    BY <1>5, <1>12 DEF BurstOpens, Recovers
<1> QED BY <1>6, <1>7, <1>8, <1>9, <1>10, <1>11, <1>12 DEF Next

(* signal_collector.py:82-86: a scored number of establishments is that of    *)
(* the minute before the session it is scored for began, whatever the         *)
(* capacity of the collector and however often the user reconnects.           *)
THEOREM CountsEstablishments == Spec => []EstablishmentsCounted
<1>1. Init => CInv
    <2> SUFFICES ASSUME Init PROVE CInv OBVIOUS
    <2>1. session = 0 /\ Len(records) = 0 /\ establishments = {} /\ raw = NoRaw
        BY DEF Init, session
    <2> QED BY <2>1, InitInv DEF CInv, CountsOK, RawOK, NoRaw
<1>2. CInv => EstablishmentsCounted
    BY DEF CInv, RawOK, EstablishmentsCounted, Counted, Lately
<1> QED BY <1>1, <1>2, NextCounts, PTL DEF Spec

-------------------------------------------------------------------------------
(* What it takes to ask                                                       *)

(* No slow network, and not two kinds of oddity                               *)
Mild(oddities) == "slow" \notin oddities /\ \A a, b \in oddities : a = b

Steady == 70 * Point    \* what a mild snapshot is worth at least

(* A set of oddities that is not mild has a slow network, or two of them.     *)
LEMMA MildSmall ==
    ASSUME NEW S, S \subseteq OddityNames, ~ ("slow" \in S \/ Cardinality(S) >= 2)
    PROVE  Mild(S)
<1> SUFFICES ASSUME NEW a \in S, NEW b \in S, a # b PROVE FALSE BY DEF Mild
<1>1. IsFiniteSet(OddityNames)
    <2>1. IsFiniteSet({}) BY FS_EmptySet
    <2>2. IsFiniteSet({} \cup {"slow"}) BY <2>1, FS_AddElement
    <2>3. IsFiniteSet(({} \cup {"slow"}) \cup {"address"}) BY <2>2, FS_AddElement
    <2>4. IsFiniteSet((({} \cup {"slow"}) \cup {"address"}) \cup {"reconnects"})
        BY <2>3, FS_AddElement
    <2>5. IsFiniteSet(((({} \cup {"slow"}) \cup {"address"}) \cup {"reconnects"})
                      \cup {"missing"})
        BY <2>4, FS_AddElement
    <2>6. IsFiniteSet((((({} \cup {"slow"}) \cup {"address"}) \cup {"reconnects"})
                       \cup {"missing"}) \cup {"gap"})
        BY <2>5, FS_AddElement
    <2>7. OddityNames = (((({} \cup {"slow"}) \cup {"address"}) \cup {"reconnects"})
                         \cup {"missing"}) \cup {"gap"}
        BY DEF OddityNames
    <2> QED BY <2>6, <2>7
<1>2. IsFiniteSet(S) BY <1>1, FS_Subset
<1>3. /\ Cardinality({a}) = 1 /\ IsFiniteSet({a})
      /\ Cardinality({a} \cup {b}) = 2 /\ IsFiniteSet({a} \cup {b})
    <2>1. Cardinality({a}) = 1 /\ IsFiniteSet({a}) BY FS_Singleton
    <2>2. b \notin {a} OBVIOUS
    <2> QED BY <2>1, <2>2, FS_AddElement, SMTT(40)
<1>4. {a} \cup {b} \subseteq S OBVIOUS
<1>5. Cardinality({a} \cup {b}) <= Cardinality(S) BY <1>2, <1>4, FS_Subset
<1>6. Cardinality(S) \in Nat BY <1>2, FS_CardinalityType
<1> QED BY <1>3, <1>5, <1>6

(* The scores of the readings that are not odd                                *)
LEMMA UsualScores ==
    /\ Relative(Part) = Full /\ Relative(Missing) = Half /\ Relative(0) = Full
    /\ TimingScore(Part) = Full /\ TimingScore(Missing) = Half
    /\ EstablishmentScore(Missing) = Half
    /\ \A n \in Int : n <= Part /\ n # Missing => EstablishmentScore(n) = Full
    /\ ContinuityScore("home", "home") = Full /\ ContinuityScore("unknown", "home") = Half
<1>1. /\ Relative(Part) = Full /\ Relative(Missing) = Half /\ Relative(0) = Full
    BY DEF Relative, Ramp, Part, Missing, NormalRatio
<1>2. /\ EstablishmentScore(Missing) = Half
      /\ \A n \in Int : n <= Part /\ n # Missing => EstablishmentScore(n) = Full
    BY DEF EstablishmentScore, Ramp, Part, Missing
<1>3. (Part * Part) \div Part = Part BY DEF Part
<1>4. Larger(Part, Part) = Part BY DEF Larger
<1>5. TimingScore(Part) = Full /\ TimingScore(Missing) = Half
    BY <1>1, <1>3, <1>4 DEF TimingScore, Part, Missing
<1>6. ContinuityScore("home", "home") = Full /\ ContinuityScore("unknown", "home") = Half
    BY DEF ContinuityScore
<1> QED BY <1>1, <1>2, <1>5, <1>6

(* The scale in numbers                                                       *)
LEMMA Scores == Full = 10000000 /\ Half = 5000000 /\ Steady = 7000000
<1> QED BY SMT DEF Full, Half, Steady, Point

(* A mild snapshot of an expected address is worth seventy points, unless its *)
(* handshake and its cadence are both missing.                                *)
LEMMA MildCurrent ==
    ASSUME NEW snapshot \in Raw, Mild(Oddities(snapshot)),
           snapshot.rtt \in Ratios, snapshot.variation \in {Missing, 0, Slow},
           snapshot.handshake \in Ratios \cup {Missing},
           snapshot.timing \in {Missing} \cup Ratios,
           snapshot.timing = Missing => snapshot.handshake # Missing
    PROVE  /\ Current(EqualWeights, Normalized(snapshot, "home")) >= Steady
           /\ Current(EqualWeights, Normalized(snapshot, "home")) \in Score
<1> DEFINE n == Normalized(snapshot, "home")
           O == Oddities(snapshot)
<1>0. Current(EqualWeights, n) \in Score
    BY CurrentScore DEF Raw
<1>1. snapshot.rtt = Part /\ snapshot.variation \in {Missing, 0}
      /\ snapshot.handshake \in {Part, Missing} /\ snapshot.timing \in {Part, Missing, Slow}
    BY DEF Mild, Oddities, Ratios
<1>2. n.rtt = Full
    <2>1. RttScore(Part, Missing) = Full /\ RttScore(Part, 0) = Full
        BY UsualScores DEF RttScore, Smaller, Missing
    <2> QED BY <1>1, <2>1 DEF Normalized
<1>3. /\ snapshot.handshake = Part => n.handshake = Full
      /\ snapshot.handshake = Missing => n.handshake = Half
    BY Zenon, UsualScores DEF Normalized
<1>4. /\ snapshot.timing = Part => n.timing = Full
      /\ snapshot.timing = Missing => n.timing = Half
      /\ n.timing \in Score
    <2>1. n.timing = TimingScore(snapshot.timing) BY DEF Normalized
    <2> QED BY <2>1, UsualScores, IntervalScore
<1>5. /\ snapshot.address = "home" => n.continuity = Full
      /\ snapshot.address = "unknown" => n.continuity = Half
      /\ n.continuity \in {0, Half, Full}
    <2>1. \A a, b : ContinuityScore(a, b) \in {0, Half, Full} BY Zenon DEF ContinuityScore
    <2> QED BY Zenon, <2>1, UsualScores DEF Normalized
<1>6. /\ snapshot.establishments = Missing => n.renegotiation = Half
      /\ snapshot.establishments # Missing /\ snapshot.establishments <= Part =>
             n.renegotiation = Full
      /\ n.renegotiation \in Score
    <2>1. n.renegotiation = EstablishmentScore(snapshot.establishments)
          /\ snapshot.establishments \in Int
        BY DEF Normalized, Raw
    <2>2. EstablishmentScore(snapshot.establishments) \in Score
        BY <2>1, RampScore DEF EstablishmentScore, Part
    <2> QED BY <2>1, <2>2, UsualScores
<1>7. Current(EqualWeights, n) = (20 * n.handshake + 20 * n.rtt + 20 * n.continuity
                                  + 20 * n.timing + 20 * n.renegotiation) \div 100
    BY DEF Current, EqualWeights, Signals
<1>8. Missing # Part /\ snapshot.establishments \in Int /\ Missing <= Part /\ Part \in Int
    BY DEF Missing, Part, Raw
<1>9. snapshot.address \in {"home", "other", "unknown"} BY DEF Raw
<1>10. /\ "gap" \in O <=> snapshot.timing = Slow
       /\ "address" \in O <=> snapshot.address = "other"
       /\ "reconnects" \in O <=> snapshot.establishments > Part
       /\ "missing" \in O <=> \/ Missing \in {snapshot.handshake, snapshot.rtt,
                                              snapshot.timing, snapshot.establishments}
                              \/ snapshot.address = "unknown"
    BY DEF Oddities
<1>11. \A a, b \in O : a = b BY DEF Mild
<1> HIDE DEF n, O
<1>12. ASSUME NEW a \in {Half, Full}, NEW b \in {0, Half, Full}, NEW c \in Score,
              NEW d \in Score,
              (a + b + c + d >= 25000000)
       PROVE  (20 * a + 20 * Full + 20 * b + 20 * c + 20 * d) \div 100 >= Steady
    <2>1. a \in Nat /\ b \in Nat /\ c \in Nat /\ d \in Nat
        <3>1. Full \in Nat /\ Half \in Nat BY SMT, Scores
        <3>2. c \in Nat /\ d \in Nat BY <3>1 DEF Score
        <3> QED BY <3>1, <3>2
    <2>2. PICK w \in Nat : w = 20 * a + 20 * Full + 20 * b + 20 * c + 20 * d
        BY SMT, <2>1, Scores
    <2>3. w >= 700000000 BY SMT, <1>12, <2>1, <2>2, Scores
    <2>4. w \div 100 >= 7000000 BY SMT, <2>3
    <2> QED BY SMT, <2>2, <2>4, Scores
<1>13. /\ n.handshake \in {Half, Full} /\ n.timing \in Score
       /\ n.continuity \in {0, Half, Full} /\ n.renegotiation \in Score
    BY <1>1, <1>3, <1>4, <1>5, <1>6
<1>14. n.renegotiation >= 0 /\ n.timing >= 0 BY <1>13 DEF Score
<1>15. n.handshake + n.continuity + n.timing + n.renegotiation >= 25000000
    <2>1. CASE "missing" \in O
        <3>1. "address" \notin O /\ "reconnects" \notin O /\ "gap" \notin O BY <1>11, <2>1
        <3>2. n.continuity \in {Half, Full} BY <1>5, <1>9, <1>10, <3>1
        <3>3. n.renegotiation \in {Half, Full} BY <1>6, <1>8, <1>10, <3>1
        <3>4. n.timing \in {Half, Full} BY <1>1, <1>4, <1>10, <3>1
        <3>5. n.handshake = Full \/ n.timing = Full BY <1>1, <1>3, <1>4, <1>10, <3>1
        <3> QED BY SMT, <1>13, <3>2, <3>3, <3>4, <3>5, Scores
    <2>2. CASE "missing" \notin O
        <3>1. n.handshake = Full BY <1>1, <1>3, <1>10, <2>2
        <3>2. n.timing = Full \/ "gap" \in O BY <1>1, <1>4, <1>10, <2>2
        <3>3. n.renegotiation = Full \/ "reconnects" \in O BY <1>6, <1>8, <1>10, <2>2
        <3>4. n.continuity = Full \/ "address" \in O BY <1>5, <1>9, <1>10, <2>2
        <3>5. \/ n.timing = Full /\ n.renegotiation = Full
              \/ n.timing = Full /\ n.continuity = Full
              \/ n.renegotiation = Full /\ n.continuity = Full
            BY <1>11, <3>2, <3>3, <3>4
        <3>6. n.renegotiation \in Int /\ n.timing \in Int BY <1>13, Scale
        <3> QED BY SMT, <1>13, <1>14, <3>1, <3>5, <3>6, Scores
    <2> QED BY <2>1, <2>2
<1>16. Current(EqualWeights, n) >= Steady BY <1>2, <1>7, <1>12, <1>13, <1>15
<1> QED BY <1>0, <1>16 DEF n

(* What is at the end of a sequence is at the end of what the deque keeps.    *)
LEMMA KeptEnd ==
    ASSUME NEW seq \in Seq(Record), NEW k \in 0 .. 4, k < Len(seq), Capacity >= 5
    PROVE  k < Len(Kept(seq)) /\ Kept(seq)[Len(Kept(seq)) - k] = seq[Len(seq) - k]
<1>1. Len(seq) \in Nat /\ Capacity \in Nat BY MonitorAssumption
<1>2. CASE Len(seq) <= Capacity BY <1>1, <1>2 DEF Kept
<1>3. CASE Len(seq) > Capacity
    <2>1. PICK a \in Nat, b \in Nat : /\ a = Len(seq) - Capacity + 1 /\ b = Len(seq)
                                      /\ 1 <= a /\ a <= b /\ b - a + 1 = Capacity
        <3>1. Len(seq) - Capacity + 1 \in Nat /\ Len(seq) \in Nat BY <1>1, <1>3
        <3>2. \E a \in Nat, b \in Nat : a = Len(seq) - Capacity + 1 /\ b = Len(seq)
            BY <3>1, Zenon
        <3> QED BY <1>1, <1>3, <3>2
    <2>2. \A i \in a .. b : seq[i] \in Record BY <2>1, ElementOfSeq
    <2>3. Kept(seq) = SubSeq(seq, a, b) BY <1>1, <1>3, <2>1 DEF Kept
    <2>4. /\ Len(SubSeq(seq, a, b)) = IF a <= b THEN b - a + 1 ELSE 0
          /\ \A i \in 1 .. b - a + 1 : SubSeq(seq, a, b)[i] = seq[a + i - 1]
        <3>1. a \in Int /\ b \in Int OBVIOUS
        <3> HIDE DEF Record
        <3> QED BY <2>2, <3>1, SubSeqProperties
    <2>5. Len(Kept(seq)) = Capacity BY <2>1, <2>3, <2>4
    <2>6. Capacity - k \in 1 .. b - a + 1 /\ a + (Capacity - k) - 1 = b - k BY <1>1, <2>1
    <2>7. SubSeq(seq, a, b)[Capacity - k] = seq[b - k] BY <2>4, <2>6
    <2> QED BY <1>1, <2>1, <2>3, <2>5, <2>7
<1> QED BY <1>1, <1>2, <1>3

(* A record that is kept was held before, or is new.                          *)
LEMMA KeptFrom ==
    ASSUME NEW seq \in Seq(Record), NEW new \in Seq(Record)
    PROVE  \A i \in 1 .. Len(Kept(seq \o new)) :
               \/ \E j \in 1 .. Len(seq) : Kept(seq \o new)[i] = seq[j]
               \/ \E j \in 1 .. Len(new) : Kept(seq \o new)[i] = new[j]
<1>1. /\ seq \o new \in Seq(Record) /\ Len(seq \o new) = Len(seq) + Len(new)
      /\ \A i \in 1 .. Len(seq) + Len(new) :
             (seq \o new)[i] = IF i <= Len(seq) THEN seq[i] ELSE new[i - Len(seq)]
    BY ConcatProperties, Zenon
<1>2. \A i \in 1 .. Len(Kept(seq \o new)) :
          \E j \in 1 .. Len(seq \o new) : Kept(seq \o new)[i] = (seq \o new)[j]
    BY <1>1, KeptSuffix
<1>3. Len(seq) \in Nat /\ Len(new) \in Nat OBVIOUS
<1>4. ASSUME NEW i \in 1 .. Len(Kept(seq \o new))
      PROVE  \/ \E j \in 1 .. Len(seq) : Kept(seq \o new)[i] = seq[j]
             \/ \E j \in 1 .. Len(new) : Kept(seq \o new)[i] = new[j]
    <2>1. PICK j \in 1 .. Len(seq \o new) : Kept(seq \o new)[i] = (seq \o new)[j]
        BY <1>2, <1>4
    <2>2. CASE j <= Len(seq)
        <3>1. j \in 1 .. Len(seq) /\ (seq \o new)[j] = seq[j] BY <1>1, <1>3, <2>1, <2>2
        <3> QED BY <2>1, <3>1
    <2>3. CASE j > Len(seq)
        <3>1. j - Len(seq) \in 1 .. Len(new) /\ (seq \o new)[j] = new[j - Len(seq)]
            BY <1>1, <1>3, <2>1, <2>3
        <3> QED BY <2>1, <3>1
    <2> QED BY <1>1, <1>3, <2>1, <2>2, <2>3
<1> QED BY <1>4

(* Handshakes took the time that connections take, and the session that has   *)
(* no pong yet has its handshake's record where the first pong leaves it.     *)
Shakes(seq) == \A i \in 1 .. Len(seq) : seq[i].signal = "handshake" => seq[i].value \in Ratios

(* The record k places before the end is session n's handshake.               *)
ShakeLeft(seq, n, k) ==
    k < Len(seq) /\ seq[Len(seq) - k].signal = "handshake" /\ seq[Len(seq) - k].session = n

(* A session starts with its handshake's record next to the last.             *)
LEMMA StartsShakes ==
    ASSUME Inv, Shakes(records), Capacity >= 5, NEW h \in Handshakes, Starts(h)
    PROVE  Shakes(records') /\ ShakeLeft(records', session + 1, 1)
<1> DEFINE s == session + 1
           counted == Recent(establishments) \cup {[session |-> s, at |-> clock]}
           card == Part * Cardinality(counted)
           new == <<Measured(s, "establishments", card, Missing),
                    Measured(s, "continuity", Part, Missing),
                    Measured(s, "handshake", h, Missing),
                    Measured(s, "rtt", Missing, Missing)>>
<1>1. session \in Nat /\ clock \in Nat /\ records \in Seq(Record)
      /\ establishments \subseteq [session : 1 .. session, at : 0 .. clock]
      /\ IsFiniteSet(establishments)
    BY InvCollector DEF CollectorOK
<1>2. records' = Kept(records \o new) BY DEF Starts
<1>3. card \in Int
    <2>1. IsFiniteSet(Recent(establishments)) BY <1>1, FS_Subset DEF Recent
    <2>2. IsFiniteSet(counted) BY <2>1, FS_AddElement
    <2>3. Cardinality(counted) \in Nat BY <2>2, FS_CardinalityType
    <2> QED BY <2>3 DEF Part
<1> HIDE DEF card
<1>4. Part \in Int /\ h \in Ratios /\ h \in Int /\ Missing \in Int
    BY MonitorAssumption DEF Part, Ratios, Slow, Missing
<1>5. \A v \in Int : \A signal \in {"handshake", "rtt", "continuity", "establishments"} :
          LET r == Measured(s, signal, v, Missing) IN
          r \in Record /\ r.session = s /\ r.signal = signal /\ r.value = v
    BY <1>1 DEF Measured, Record, Missing
<1>6. /\ new \in Seq(Record) /\ Len(new) = 4
      /\ new[3].signal = "handshake" /\ new[3].session = s
      /\ \A i \in 1 .. 4 : new[i].signal = "handshake" => new[i].value \in Ratios
    BY <1>3, <1>4, <1>5
<1> HIDE DEF new, s
<1>7. \A i \in 1 .. Len(records') :
          \/ \E j \in 1 .. Len(records) : records'[i] = records[j]
          \/ \E j \in 1 .. Len(new) : records'[i] = new[j]
    BY <1>1, <1>2, <1>6, KeptFrom
<1>8. Shakes(records') BY <1>6, <1>7 DEF Shakes
<1>9. /\ records \o new \in Seq(Record) /\ 1 < Len(records \o new)
      /\ (records \o new)[Len(records \o new) - 1] = new[3]
    <2>1. records \in Seq(Record) /\ new \in Seq(Record) BY <1>1, <1>6
    <2>2. /\ records \o new \in Seq(Record) /\ Len(records \o new) = Len(records) + Len(new)
          /\ \A i \in 1 .. Len(records) + Len(new) :
                 (records \o new)[i] = IF i <= Len(records) THEN records[i]
                                       ELSE new[i - Len(records)]
        BY <2>1, ConcatProperties, Zenon
    <2>3. Len(records) \in Nat /\ Len(new) = 4 BY <1>1, <1>6
    <2> QED BY <2>2, <2>3
<1>10. 1 \in 0 .. 4 OBVIOUS
<1>11. 1 < Len(records') /\ records'[Len(records') - 1] = new[3]
    BY <1>2, <1>9, <1>10, KeptEnd
<1> QED BY <1>6, <1>8, <1>11 DEF ShakeLeft, s

(* A pong adds three records behind it, the last with a variation.            *)
LEMMA PongShakes ==
    ASSUME Inv, Shakes(records), Capacity >= 5, NEW v \in Ratios, Pong(v)
    PROVE  /\ Shakes(records')
           /\ ShakeLeft(records, session, 1) => ShakeLeft(records', session, 4)
           /\ records'[Len(records')].variation \in {Missing, 0, Slow}
<1> DEFINE longer == Append(rtts, v)
           window == IF Len(longer) > RttWindow THEN Tail(longer) ELSE longer
           frame == Measured(session, "frame", Missing, Missing)
           pong == Measured(session, "rtt", v, Variation(window))
           new == <<frame, frame, pong>>
<1>1. session \in Nat /\ clock \in Nat /\ records \in Seq(Record)
    BY InvCollector DEF CollectorOK
<1>2. records' = Kept(records \o new) BY DEF Pong
<1> HIDE DEF window
<1>3. Variation(window) \in {Missing, 0, Slow} /\ v \in Int /\ Missing \in Int
      /\ Variation(window) \in Int
    BY DEF Variation, Missing, Slow, Part, Ratios
<1>4. frame \in Record /\ pong \in Record /\ pong.variation = Variation(window)
      /\ pong.signal # "handshake" /\ frame.signal # "handshake"
    BY <1>1, <1>3 DEF Measured, Record
<1> HIDE DEF frame, pong
<1>5. new \in Seq(Record) /\ Len(new) = 3 /\ new[3] = pong
      /\ \A i \in 1 .. 3 : new[i].signal # "handshake"
    BY <1>4
<1> HIDE DEF new
<1>6. \A i \in 1 .. Len(records') :
          \/ \E j \in 1 .. Len(records) : records'[i] = records[j]
          \/ \E j \in 1 .. Len(new) : records'[i] = new[j]
    BY <1>1, <1>2, <1>5, KeptFrom
<1>7. Shakes(records') BY <1>5, <1>6 DEF Shakes
<1>8. /\ records \o new \in Seq(Record) /\ Len(records \o new) = Len(records) + 3
      /\ Len(records) \in Nat /\ (records \o new)[Len(records) + 3] = pong
      /\ Len(records) > 1 => (records \o new)[Len(records) - 1] = records[Len(records) - 1]
    <2>1. records \in Seq(Record) /\ new \in Seq(Record) BY <1>1, <1>5
    <2>2. /\ records \o new \in Seq(Record) /\ Len(records \o new) = Len(records) + Len(new)
          /\ \A i \in 1 .. Len(records) + Len(new) :
                 (records \o new)[i] = IF i <= Len(records) THEN records[i]
                                       ELSE new[i - Len(records)]
        BY <2>1, ConcatProperties, Zenon
    <2>3. Len(records) \in Nat /\ Len(new) = 3 BY <1>1, <1>5
    <2> QED BY <1>5, <2>2, <2>3
<1>9. 0 \in 0 .. 4 /\ 4 \in 0 .. 4 OBVIOUS
<1>10. records'[Len(records')] = pong
    <2>1. 0 < Len(records \o new) BY <1>8
    <2>2. 0 < Len(records') /\ records'[Len(records') - 0] = (records \o new)[Len(records \o new) - 0]
        BY <1>2, <1>8, <1>9, <2>1, KeptEnd
    <2>3. Len(records') \in Nat BY <1>2, <1>8, KeptSuffix
    <2> QED BY <1>8, <2>2, <2>3
<1>11. ASSUME ShakeLeft(records, session, 1) PROVE ShakeLeft(records', session, 4)
    <2>1. 1 < Len(records) BY <1>11 DEF ShakeLeft
    <2>2. 4 < Len(records \o new) /\ Len(records \o new) - 4 = Len(records) - 1
        BY <1>8, <2>1
    <2>3. 4 < Len(records') /\ records'[Len(records') - 4] = records[Len(records) - 1]
        BY <1>2, <1>8, <1>9, <2>1, <2>2, KeptEnd
    <2> QED BY <1>11, <2>3 DEF ShakeLeft
<1> QED BY <1>3, <1>4, <1>7, <1>10, <1>11

(* What a snapshot says of the handshake                                      *)
LEMMA LatestShake ==
    ASSUME NEW seq \in Seq(Record), Shakes(seq), NEW s
    PROVE  /\ Latest(seq, s, "handshake").value \in Ratios \cup {Missing}
           /\ \A k \in 0 .. 4 : ShakeLeft(seq, s, k) =>
                  Latest(seq, s, "handshake").value # Missing
<1> DEFINE held == Held(seq, s, "handshake")
<1>1. Len(seq) \in Nat /\ held \subseteq 1 .. Len(seq) BY DEF Held
<1>2. \A r \in Ratios : r # Missing BY DEF Ratios, Missing, Part, Slow
<1>3. ASSUME held # {} PROVE Latest(seq, s, "handshake").value \in Ratios
    <2>1. \E i \in held : \A j \in held : j <= i BY <1>1, <1>3, LastExists
    <2>2. PICK i \in held : i = CHOOSE k \in held : \A j \in held : j <= k BY <2>1
    <2>3. Latest(seq, s, "handshake").value = seq[i].value BY <1>3, <2>2 DEF Latest
    <2>4. seq[i].signal = "handshake" /\ i \in 1 .. Len(seq) BY <1>1 DEF Held
    <2> QED BY <2>3, <2>4 DEF Shakes
<1>4. held = {} => Latest(seq, s, "handshake").value = Missing BY DEF Latest
<1>5. ASSUME NEW k \in 0 .. 4, ShakeLeft(seq, s, k) PROVE held # {}
    <2>1. Len(seq) - k \in 1 .. Len(seq) BY <1>1, <1>5 DEF ShakeLeft
    <2>2. seq[Len(seq) - k].signal = "handshake" /\ seq[Len(seq) - k].session = s
        BY <1>5 DEF ShakeLeft
    <2>3. seq[Len(seq) - k].value # Missing BY <1>2, <2>1, <2>2 DEF Shakes
    <2>4. Len(seq) - k \in held BY <2>1, <2>2, <2>3 DEF Held
    <2> QED BY <2>4
<1> QED BY <1>2, <1>3, <1>4, <1>5

(* A score that is steady stays so, and none falls sharply, under a mild      *)
(* snapshot.                                                                  *)
LEMMA MildAssessed ==
    ASSUME NEW s \in Score, NEW c \in Score, c >= Steady
    PROVE  /\ Assessed(30, s, c) \in Score
           /\ ~ (Assessed(30, s, c) - s <= -DefaultTrigger.drop)
           /\ s >= Steady => Assessed(30, s, c) >= Steady
<1>1. Full = 10000000 /\ Steady = 7000000 BY SMT, Scores
<1>2. DefaultTrigger.drop = 1000000 BY SMT DEF DefaultTrigger, Point
<1>3. s \in Nat /\ c \in Nat /\ s <= Full
    <2>1. Full \in Nat BY SMT, <1>1
    <2> QED BY <2>1 DEF Score
<1>4. PICK w \in Nat : w = 30 * c + 70 * s BY SMT, <1>3
<1>5. PICK q \in Nat : q = w \div 100 BY SMT, <1>4
<1>6. 100 * q <= w /\ w < 100 * q + 100 BY SMT, <1>5
<1>7. q - s > -1000000 BY SMT, <1>1, <1>3, <1>4, <1>6
<1>8. s >= Steady => q >= Steady BY SMT, <1>1, <1>3, <1>4, <1>6
<1>9. Assessed(30, s, c) = q
    <2>1. 30 * c + (100 - 30) * s = w BY SMT, <1>3, <1>4
    <2> QED BY SMT, <1>5, <2>1 DEF Assessed
<1>10. ~ (q - s <= -DefaultTrigger.drop) BY SMT, <1>2, <1>3, <1>7
<1>11. Assessed(30, s, c) \in Score BY AssessedScore
<1> QED BY <1>8, <1>9, <1>10, <1>11

(* Seventy points lie between the threshold and the floor of a comparison.    *)
LEMMA SteadyScores == Steady >= DefaultTrigger.low /\ VerifiedFloor >= Steady /\ Steady \in Int
<1>1. Steady = 7000000 BY SMT, Scores
<1>2. DefaultTrigger.low = 5000000 /\ VerifiedFloor = 7500000
    BY SMT DEF DefaultTrigger, VerifiedFloor, Point
<1> QED BY SMT, <1>1, <1>2

(* What a decision says of the score and its change                           *)
LEMMA WhyAsked ==
    ASSUME NEW s \in Score, NEW d \in Int, NEW t \in BOOLEAN
    PROVE  /\ Decide(DefaultTrigger, s, d, t) = "sudden_drop" => d <= -DefaultTrigger.drop
           /\ Decide(DefaultTrigger, s, d, t) = "low_trust" => ~ (s >= DefaultTrigger.low)
<1>1. s \in Int /\ DefaultTrigger.low \in Int BY Scale
<1>2. s < DefaultTrigger.low => ~ (s >= DefaultTrigger.low) BY <1>1
<1> QED BY <1>2, Zenon DEF Decide

(* The third invariant.  A verified guard's score is steady unless something  *)
(* that is not mild came up since the last comparison; and a verified guard   *)
(* that asks had such a reason.                                               *)
AskOK ==
    /\ verified => known
    /\ gate # "closed" => session # 0
    /\ verified /\ Mild(odd) => score >= Steady
    /\ asked # "no" /\ verified =>
           /\ reason = "sudden_drop" => ~ Mild(Oddities(raw))
           /\ reason = "low_trust" => ~ Mild(odd)

ShakesOK == /\ Shakes(records)
            /\ session # 0 /\ ~ beating => ShakeLeft(records, session, 1)

(* The third invariant                                                        *)
MInv == Inv /\ ShakesOK /\ AskOK

(* An assessment of a verified guard                                          *)
LEMMA MildAssess ==
    ASSUME Inv, AskOK, verified = TRUE, NEW snapshot \in Raw,
           snapshot.timing \in {Missing} \cup Ratios, Assess(snapshot, TRUE),
           UNCHANGED verified, session' = session, session # 0,
           Mild(Oddities(snapshot)) =>
               Current(EqualWeights, Normalized(snapshot, "home")) >= Steady
    PROVE  AskOK'
<1> DEFINE current == Current(EqualWeights, Normalized(snapshot, "home"))
           next == Assessed(30, score, current)
           decided == Decide(DefaultTrigger, next, next - score, TRUE)
           why == IF decided \notin Asking /\ clock - keyStart' >= RotationAge
                  THEN "rotation" ELSE decided
<1>1. known = TRUE BY DEF AskOK, Inv, TypeOK
<1>2. /\ score' = next /\ reason' = why /\ raw' = snapshot
      /\ odd' = odd \cup Oddities(raw') /\ known' = known
    BY <1>1 DEF Assess
<1>3. current \in Score
    <2>1. Current(EqualWeights, Normalized(snapshot, "home")) \in Score
        BY CurrentScore
    <2> QED BY <2>1
<1>4. score \in Score BY DEF Inv, TypeOK
<1>5. Mild(Oddities(snapshot)) => current >= Steady OBVIOUS
<1> HIDE DEF current
<1>6. next \in Score /\ next - score \in Int
    <2>1. next \in Score BY <1>3, <1>4, AssessedScore
    <2> HIDE DEF next
    <2> QED BY <1>4, <2>1, Scale
<1>7. Mild(Oddities(snapshot)) =>
          /\ ~ (next - score <= -DefaultTrigger.drop)
          /\ score >= Steady => next >= Steady
    BY <1>3, <1>4, <1>5, MildAssessed
<1> HIDE DEF next
<1>8. /\ decided = "sudden_drop" => next - score <= -DefaultTrigger.drop
      /\ decided = "low_trust" => ~ (next >= DefaultTrigger.low)
    BY <1>6, WhyAsked
<1>9. /\ why = "sudden_drop" => decided = "sudden_drop"
      /\ why = "low_trust" => decided = "low_trust"
    OBVIOUS
<1> HIDE DEF decided, why
<1>10. Mild(odd') => Mild(odd) /\ Mild(Oddities(snapshot))
    <2>1. odd' = odd \cup Oddities(snapshot) BY <1>2
    <2> QED BY <2>1, Zenon DEF Mild
<1>11. Mild(odd') => next >= Steady BY <1>7, <1>10 DEF AskOK
<1>12. next >= Steady => next >= DefaultTrigger.low BY <1>6, SteadyScores, Scale
<1>13. why = "sudden_drop" => ~ Mild(Oddities(snapshot)) BY <1>7, <1>8, <1>9
<1>14. why = "low_trust" => ~ Mild(odd') BY <1>8, <1>9, <1>11, <1>12
<1>15. Oddities(raw)' = Oddities(snapshot) BY <1>2 DEF Oddities
<1> QED BY <1>1, <1>2, <1>11, <1>13, <1>14, <1>15 DEF AskOK, Mild

(* A heartbeat of a chat that is open, or whose connection a burst replaces   *)
LEMMA HeartbeatMild ==
    ASSUME MInv, Capacity >= 5, NEW v \in Ratios, Heartbeat(v)
    PROVE  ShakesOK' /\ AskOK'
<1> DEFINE snapshot == Snapshot(records', session, interval')
<1>1. Inv /\ ShakesOK /\ AskOK /\ session \in Nat /\ verified = TRUE /\ session # 0
      /\ beating \in BOOLEAN
    <2>1. gate = "open" \/ phase = "closing" BY DEF Heartbeat
    <2>2. session \in Nat BY InvCollector DEF MInv
    <2>3. verified = TRUE /\ gate # "closed" BY <2>1 DEF MInv, Inv, PhaseOK
    <2> QED BY <2>2, <2>3 DEF MInv, Inv, TypeOK, AskOK
<1>2. /\ Pong(v) /\ Assess(snapshot, verified)
      /\ UNCHANGED <<verified, startAt>>
    BY DEF Heartbeat
<1>3. /\ records' \in Seq(Record) /\ beating' = TRUE /\ session' = session
      /\ interval' \in {Missing} \cup Ratios /\ (interval' = Missing => beating = FALSE)
      /\ Len(records') \in Held(records', session, "rtt")
      /\ records'[Len(records')].value = v
    BY <1>1, <1>2, PongKeeps DEF CollectorOK
<1>4. /\ Shakes(records')
      /\ ShakeLeft(records, session, 1) => ShakeLeft(records', session, 4)
      /\ records'[Len(records')].variation \in {Missing, 0, Slow}
    BY <1>1, <1>2, PongShakes DEF ShakesOK
<1>5. /\ snapshot \in Raw /\ snapshot.timing = interval' /\ snapshot.rtt = v
      /\ snapshot.variation \in {Missing, 0, Slow}
    <2>1. snapshot \in Raw BY <1>1, <1>3, SnapshotIsRaw
    <2>2. Latest(records', session, "rtt").value = v
          /\ Latest(records', session, "rtt").variation = records'[Len(records')].variation
        BY <1>3, LatestIsLast
    <2> QED BY <1>4, <2>1, <2>2 DEF Snapshot
<1>6. /\ snapshot.handshake \in Ratios \cup {Missing}
      /\ interval' = Missing => snapshot.handshake # Missing
    <2>1. snapshot.handshake = Latest(records', session, "handshake").value BY DEF Snapshot
    <2>2. 4 \in 0 .. 4 OBVIOUS
    <2>3. interval' = Missing => ShakeLeft(records', session, 4)
        BY <1>1, <1>3, <1>4 DEF ShakesOK
    <2> QED BY <1>3, <1>4, <2>1, <2>2, <2>3, LatestShake
<1> HIDE DEF snapshot
<1>7. Mild(Oddities(snapshot)) =>
          Current(EqualWeights, Normalized(snapshot, "home")) >= Steady
    BY <1>3, <1>5, <1>6, MildCurrent
<1>8. Assess(snapshot, TRUE) /\ UNCHANGED verified BY <1>1, <1>2
<1>9. AskOK' BY <1>1, <1>3, <1>5, <1>7, <1>8, MildAssess
<1> QED BY <1>3, <1>4, <1>9 DEF ShakesOK

(* Every step keeps the third invariant.                                      *)
LEMMA NextMild == ASSUME Capacity >= 5 PROVE MInv /\ [Next]_vars => MInv'
<1> SUFFICES ASSUME MInv, [Next]_vars PROVE MInv' OBVIOUS
<1>1. Inv /\ Inv' /\ ShakesOK /\ AskOK /\ session \in Nat
      /\ verified \in BOOLEAN /\ beating \in BOOLEAN
    <2>1. session \in Nat BY InvCollector DEF MInv
    <2> QED BY <2>1, NextInv DEF MInv, Inv, TypeOK
<1>2. ASSUME UNCHANGED <<records, beating, startAt>> PROVE ShakesOK'
    <2>1. session' = session BY <1>2 DEF session
    <2> QED BY <1>1, <1>2, <2>1 DEF ShakesOK, Shakes, ShakeLeft
<1>3. ASSUME NEW h \in Handshakes, Starts(h) PROVE ShakesOK' /\ session' # 0
    <2>1. Shakes(records') /\ ShakeLeft(records', session + 1, 1)
        BY <1>1, <1>3, StartsShakes DEF ShakesOK
    <2>2. session' = session + 1 BY <1>1, <1>3, StartsKeeps
    <2> QED BY <1>1, <2>1, <2>2 DEF ShakesOK
<1>4. ASSUME UNCHANGED <<score, known, verified, asked, reason, raw, odd>>,
             gate' # "closed" => session' # 0
      PROVE  AskOK'
    BY <1>1, <1>4 DEF AskOK, Oddities, Mild
<1>5. ASSUME UNCHANGED <<records, beating, startAt, score, known, verified, asked, reason,
                         raw, odd>>,
             gate' # "closed" => gate # "closed"
      PROVE  MInv'
    <2>1. session' = session BY <1>5 DEF session
    <2>2. AskOK' BY <1>1, <1>4, <1>5, <2>1 DEF AskOK
    <2> QED BY <1>1, <1>2, <1>5, <2>2 DEF MInv
<1>6. CASE UNCHANGED vars
    BY <1>5, <1>6 DEF vars, collector, pulse, engine, history
<1>7. CASE Tick
    BY <1>5, <1>7 DEF Tick, collector, pulse, engine, history
<1>8. CASE Restricts
    <2>1. ShakesOK' BY <1>2, <1>8 DEF Restricts, collector, pulse, history
    <2>2. session' = session /\ gate # "closed" BY <1>8 DEF Restricts, history, session
    <2>3. AskOK' BY <1>1, <1>8, <2>2, Zenon DEF Restricts, AskOK
    <2> QED BY <1>1, <2>1, <2>3 DEF MInv
<1>9. CASE \E m \in {"normal", "reconnect_burst", "ip_change"} : SelectMode(m)
    BY <1>5, <1>9 DEF SelectMode, collector, pulse, engine, history
<1>10. CASE BurstAnnounces \/ BurstEnds
    BY <1>5, <1>10 DEF BurstAnnounces, BurstEnds, collector, pulse, engine, history
<1>11. CASE BurstCloses
    <2>1. gate # "closed" BY <1>1, <1>11 DEF BurstCloses, Inv, PhaseOK
    <2> QED BY <1>5, <1>11, <2>1 DEF BurstCloses, collector, pulse, history
<1>12. ASSUME NEW h \in Handshakes, Match(h) PROVE MInv'
    <2>1. ShakesOK' /\ session' # 0
        <3>1. CASE verified
            <4>1. Starts(h) BY <1>12, <3>1, Zenon DEF Match, Recovers
            <4> QED BY <1>3, <4>1
        <3>2. CASE ~ verified
            <4>1. UNCHANGED <<collector, pulse, keyStart, startAt>>
                BY <1>12, <3>2, Zenon DEF Match
            <4>2. session' = session BY <4>1 DEF session
            <4>3. gate = "comparing" BY <1>12 DEF Match
            <4> QED BY <1>1, <1>2, <4>1, <4>2, <4>3 DEF collector, pulse, AskOK
        <3> QED BY <3>1, <3>2
    <2>2. Floored(score) >= Steady
        <3>1. score \in Score BY <1>1 DEF Inv, TypeOK
        <3> QED BY <3>1, Scale, SteadyScores DEF Floored, Larger
    <2>3. asked' = "no" /\ known' = TRUE /\ score' = Floored(score) BY <1>12 DEF Match
    <2>4. AskOK' BY <2>1, <2>2, <2>3 DEF AskOK
    <2> QED BY <1>1, <2>1, <2>4 DEF MInv
<1>13. ASSUME NEW h \in Handshakes, Connect(h) PROVE MInv'
    <2>1. Starts(h) /\ verified' = FALSE BY <1>13 DEF Connect
    <2>2. ShakesOK' /\ session' # 0 BY <1>3, <2>1
    <2>3. AskOK' BY <2>1, <2>2 DEF AskOK
    <2> QED BY <1>1, <2>2, <2>3 DEF MInv
<1>14. ASSUME NEW h \in Handshakes, BurstOpens(h) PROVE MInv'
    <2>1. /\ Starts(h) /\ UNCHANGED <<score, known, verified, asked, reason, raw, odd>>
        BY <1>14 DEF BurstOpens, Recovers
    <2>2. ShakesOK' /\ session' # 0 BY <1>3, <2>1
    <2>3. AskOK' BY <1>4, <2>1, <2>2
    <2> QED BY <1>1, <2>2, <2>3 DEF MInv
<1>15. ASSUME NEW v \in Ratios, Heartbeat(v) PROVE MInv'
    BY <1>1, <1>15, HeartbeatMild DEF MInv
<1> QED BY <1>6, <1>7, <1>8, <1>9, <1>10, <1>11, <1>12, <1>13, <1>14, <1>15 DEF Next

(* docs/two-device-presentation.md:57: with room in the collector for the     *)
(* records of a session's start behind those of its first pong (the code has  *)
(* room for 1024), neither a simulated address nor a burst of reconnects nor  *)
(* readings that are missing nor a gap left over from an earlier session are  *)
(* enough to make a verified guard ask; it takes a slow network, or two of    *)
(* them, however long the chat lasts and whatever the scores it began with.   *)
THEOREM MildNeverAsk == Capacity >= 5 => (Spec => []MildConditionsNeverAsk)
<1> SUFFICES ASSUME Capacity >= 5 PROVE Spec => []MildConditionsNeverAsk OBVIOUS
<1>1. Init => MInv
    <2> SUFFICES ASSUME Init PROVE MInv OBVIOUS
    <2>1. session = 0 /\ Len(records) = 0 /\ verified = FALSE /\ gate = "closed"
        BY DEF Init, session
    <2> QED BY <2>1, InitInv DEF MInv, ShakesOK, Shakes, AskOK, Init
<1>2. MInv => MildConditionsNeverAsk
    <2> SUFFICES ASSUME MInv, asked # "no", verified
                 PROVE  /\ reason = "sudden_drop" =>
                             "slow" \in Oddities(raw) \/ Cardinality(Oddities(raw)) >= 2
                        /\ reason = "low_trust" => "slow" \in odd \/ Cardinality(odd) >= 2
        BY DEF MildConditionsNeverAsk
    <2>1. odd \subseteq OddityNames /\ Oddities(raw) \subseteq OddityNames
        BY DEF MInv, Inv, TypeOK, OddityNames, Oddities
    <2>2. ~ Mild(odd) => "slow" \in odd \/ Cardinality(odd) >= 2 BY <2>1, MildSmall
    <2>3. ~ Mild(Oddities(raw)) =>
              "slow" \in Oddities(raw) \/ Cardinality(Oddities(raw)) >= 2
        <3>1. PICK S \in SUBSET OddityNames : S = Oddities(raw) BY <2>1
        <3>2. ~ Mild(S) => "slow" \in S \/ Cardinality(S) >= 2 BY MildSmall
        <3> QED BY <3>1, <3>2
    <2> QED BY <2>2, <2>3 DEF MInv, AskOK
<1>3. MInv /\ [Next]_vars => MInv' BY NextMild
<1> QED BY <1>1, <1>2, <1>3, PTL DEF Spec
===============================================================================
