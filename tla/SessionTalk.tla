----------------------------- MODULE SessionTalk -----------------------------
(***************************************************************************)
(* Proofs about the two-device session without bursts: that in the first   *)
(* session of each neither runtime refuses a frame of the other            *)
(* (HonestPeerNotRefused).                                                 *)
(*                                                                         *)
(* On one connection Alice follows a script (Frame): her k-th frame is, if *)
(* i # 0, the request i, her answer and the result, and if i = 0 (after    *)
(* the proof that Bob took before he gave the slot to the connection) the  *)
(* notice that she is ready; after that comes a ping or, when the          *)
(* comparison was a later one (f), the announcement of a reconnection.     *)
(*                                                                         *)
(* Bob is after her n-th frame and she after her t-th, and his wire holds  *)
(* those between (BobHears); what he does with the next one is what the    *)
(* script expects (BobAt).  So is what she hears in return (Hears), and    *)
(* the two stay on one line (Line, Talk).  A connection that waits for the *)
(* slot begins a script or brings the proof of a recovery (CandHears).     *)
(*                                                                         *)
(* The first half are Alice's steps, the second Bob's.  XOn: her step X    *)
(* goes on with the script; XFollows and XRead: his step X takes his place *)
(* in it to the next.                                                      *)
(***************************************************************************)
EXTENDS SessionFresh

(* The wire on which she hears Bob; his is ToBob.                             *)
ToAlice(c) == link[c].wire["alice"]

(* m may be her k-th frame, of the script with request i and flag f.          *)
Frame(m, k, i, f) ==
    \/ k = 1 /\ i # 0 /\ m.type = "verify_request" /\ m.id = i /\ m.flag = f
    \/ k = 2 /\ i # 0 /\ m.type = "verify_response" /\ m.id = i
    \/ k = 3 /\ i # 0 /\ m.type = "verification_result" /\ m.id = i /\ m.flag = f
    \/ k = 3 /\ i = 0 /\ m.type = "ready"
    \/ k = 4 /\ m.type = IF f THEN "reconnect" ELSE "ping"

(* The wire s holds her frames after the n-th up to the t-th, and then at     *)
(* most the notice that she leaves.                                           *)
Said(s, n, t, i, f) ==
    /\ n <= t /\ Len(s) >= t - n
    /\ \A k \in 1 .. t - n : Frame(s[k], n + k, i, f)
    /\ Len(s) > t - n => s[t - n + 1].type = "shutdown"

(* Nothing but the notice that Bob leaves is on the wire.                     *)
Ended(w) == w = <<>> \/ Head(w).type = "shutdown"

(* The wire brings one frame of this type and id, or that he left.            *)
Brings(w, type, i) ==
    /\ w # <<>>
    /\ Head(w).type = "shutdown" \/ (Head(w).type = type /\ Head(w).id = i /\ Ended(Tail(w)))

(* The human of r has answered, and that with a MATCH.                        *)
Answered(r) == cmd[r].pc = "deciding" \/ dual[r].decisions[r] # "none"
Matches(r) == (cmd[r].pc = "deciding" /\ cmd[r].match) \/ dual[r].decisions[r] = "MATCH"

(* Bob's place after her n-th frame: outside of a comparison, or in one, with *)
(* a frame that the lock kept waiting or without.                             *)
BobIdle(n, f) ==
    /\ dual["bob"] = NoDual /\ reader["bob"].pc # "lock"
    /\ \/ n = 0 /\ ~f /\ gate["bob"] = "VERIFYING" /\ resume = NoResume
       \/ n = 0 /\ f /\ gate["bob"] = "ACTIVE" /\ resume = NoResume
       \/ n = 3 /\ ~f /\ gate["bob"] = "ACTIVE" /\ resume = NoResume
       \/ n \in {3, 4} /\ f /\ gate["bob"] = "RECONNECTING" /\ resume # NoResume

(* A frame that the lock kept waiting.                                        *)
Waiting(type, i) ==
    reader["bob"].pc = "lock" /\ reader["bob"].msg.type = type /\ reader["bob"].msg.id = i

(* A comparison that she asked for in her first frame.                        *)
BobCompares(n, i, f) ==
    LET d == dual["bob"] peer == d.decisions["alice"] free == reader["bob"].pc # "lock" IN
    /\ i # 0 /\ d.id = i /\ d.recovery = f /\ gate["bob"] = "VERIFYING" /\ resume = NoResume
    /\ \/ n = 1 /\ peer = "none" /\ free
       \/ n = 2 /\ peer = "MATCH" /\ free
       \/ n = 2 /\ peer = "none" /\ Waiting("verify_response", i)
       \/ n = 3 /\ peer = "MATCH" /\ Waiting("verification_result", i)
            /\ reader["bob"].msg.flag = f /\ Matches("bob")

(* A connection that brought the proof of a recovery.                         *)
BobProven(n, i, f) ==
    /\ n = 2 /\ i = 0 /\ ~f /\ dual["bob"] = NoDual /\ reader["bob"].pc # "lock"
    /\ gate["bob"] = "VERIFYING" /\ resume # NoResume /\ resume.confirmed

(* His place after her n-th frame is one of these.                            *)
BobAt(n, i, f) == BobIdle(n, f) \/ BobCompares(n, i, f) \/ BobProven(n, i, f)

(* Her answer, wherever it is on its way; her result is on its way only if    *)
(* both answered MATCH.                                                       *)
Reply(s, n) ==
    IF n = 0 THEN s[2].flag ELSE IF n = 1 THEN s[1].flag
    ELSE reader["bob"].pc = "lock" => reader["bob"].msg.flag
Sound(s, n, t, i) == t >= 3 /\ i # 0 /\ n < 3 => n >= 1 /\ Reply(s, n) /\ Matches("bob")

(* Bob's place and what is on its way to him belong to one script.            *)
Seated(s, n, t, i, f) == BobAt(n, i, f) /\ Said(s, n, t, i, f) /\ Sound(s, n, t, i)

(* How many frames the script has.                                            *)
Frames == 0 .. 4

(* The slot's connection is at some place of the script.                      *)
BobHears ==
    Up("bob", conn["bob"]) =>
      \E n, t \in Frames, i \in 0 .. MaxIds, f \in BOOLEAN :
         Seated(ToBob(conn["bob"]), n, t, i, f)

(* What waits for Bob on a connection that he has not given the slot yet.     *)
Opening(s) == \E t \in 0 .. 2, i \in 0 .. MaxIds : (t = 2 => i # 0) /\ Said(s, 0, t, i, FALSE)
Proof(s) == s # <<>> /\ Head(s).type = "verification_result" /\ Ended(Tail(s))

(* Every connection that waits for the slot begins a script or brings a       *)
(* proof.                                                                     *)
CandHears ==
    \A c \in Conns : cand[c].pc # "none" /\ link[c].up["bob"] =>
       Opening(ToBob(c)) \/ (sessions["bob"] >= 1 /\ Proof(ToBob(c)))

(* Alice's side: Bob's answer has come, her task, what she hears.             *)
Got == dual["alice"].decisions["bob"] # "none" \/ reader["alice"].pc = "lock"
GotMatch ==
    \/ dual["alice"].decisions["bob"] = "MATCH"
    \/ reader["alice"].pc = "lock" /\ reader["alice"].msg.flag
On == task["measure"] # "off"

(* The places of her task in an open session, and in a recovery.              *)
Going == {"loop", "sleep", "ping", "pong"}
Resuming == {"proof", "confirm", "conclude", "resume"}

(* Alice is sent only what she waits for.                                     *)
AliceHeard ==
    LET w == ToAlice(conn["alice"]) d == dual["alice"] m == reader["alice"].msg IN
    Up("alice", conn["alice"]) =>
      /\ \/ Ended(w)
         \/ Brings(w, "verify_response", d.id) /\ d # NoDual /\ ~Got
         \/ Brings(w, "pong", 0) /\ ping = "sent"
         \/ Brings(w, "ready", 0) /\ recovered = "waiting" /\ task["measure"] \in {"proof", "confirm"}
      /\ reader["alice"].pc = "lock" =>
            /\ m.type = "verify_response" /\ m.id = d.id
            /\ d # NoDual /\ d.decisions["bob"] = "none" /\ Ended(w)

(* Where her task is, her gate, her guard and her comparison agree with it.   *)
AliceStands ==
    LET pc == task["measure"] IN
    Up("alice", conn["alice"]) =>
      /\ pc \notin {"failed", "close", "establish"}
      /\ pc \in Going => gate["alice"] = "ACTIVE"
      /\ pc \notin Going \cup {"off"} => gate["alice"] = "VERIFYING"
      /\ pc \in Going \cup Resuming => guard = "verified"
      /\ pc = "assess" => guard = "unverified"
      /\ pc \in {"request", "ready", "result", "notice"} =>
            dual["alice"].id = asked.id /\ asked.id # 0
      /\ pc \in {"result", "notice"} => dual["alice"].ready = "yes"
      /\ approved # 0 => pc \in Resuming \cup {"notice", "off"}
      /\ ping = "sent" => pc \in {"ping", "pong", "off"}

(* Her task has asked for comparison i.                                       *)
Asking(i, f) ==
    /\ i # 0 /\ task["measure"] \in {"request", "ready"} /\ dual["alice"].id = i
    /\ asked = [id |-> i, recovery |-> f]

(* Her place after her t-th frame.                                            *)
AliceAt(t, i, f) ==
    LET pc == task["measure"] IN
    \/ t = 0 /\ ~f /\ pc = "assess"
    \/ t = 0 /\ f /\ pc \in Going
    \/ t = 1 /\ Asking(i, f) /\ ~Answered("alice")
    \/ t = 2 /\ Asking(i, f) /\ Answered("alice")
    \/ t = 3 /\ i # 0 /\ pc = "result" /\ asked = [id |-> i, recovery |-> f]
    \/ t = 4 /\ f /\ pc = "notice"
    \/ t = 3 /\ i # 0 /\ ~f /\ pc = "conclude" /\ approved = 0
    \/ t = 3 /\ ~f /\ pc \in {"loop", "sleep"}
    \/ t = 4 /\ ~f /\ pc \in {"ping", "pong"} /\ ping = "sent"
    \/ t = 2 /\ i = 0 /\ ~f /\ pc \in {"proof", "confirm"}
    \/ t = 2 /\ i = 0 /\ ~f /\ pc = "conclude" /\ approved # 0 /\ recovered # "waiting"
    \/ t = 3 /\ i = 0 /\ ~f /\ pc = "resume"
    \/ pc = "off" /\ (t = 0 \/ (t = 3 /\ ~f) \/ (t = 4 /\ ~f /\ ping = "sent"))

(* What she hears while Bob is after her n-th frame and she after her t-th.   *)
Hears(w, n, t, i, f) ==
    \/ t \in {1, 2} /\ i # 0 /\ (n = 0 \/ ~Answered("bob")) /\ Ended(w) /\ ~Got
    \/ t \in {1, 2} /\ i # 0 /\ n # 0 /\ Answered("bob") /\ ~Got /\ Brings(w, "verify_response", i)
       /\ (Head(w).flag /\ Head(w).type # "shutdown" => Matches("bob"))
    \/ t \in {1, 2} /\ i # 0 /\ n # 0 /\ Answered("bob") /\ Got /\ Ended(w)
       /\ (GotMatch => Matches("bob"))
    \/ t \in {3, 4} /\ Ended(w)
    \/ t = 2 /\ i = 0 /\ recovered = "waiting" /\ Brings(w, "ready", 0)
    \/ t = 2 /\ i = 0 /\ recovered # "waiting" /\ Ended(w)
    \/ t = 0 /\ f /\ ping = "sent" /\ Brings(w, "pong", 0)
    \/ t = 0 /\ (f => ping # "sent") /\ Ended(w)

(* She is at the t-th frame, Bob at the n-th, and the two wires are between.  *)
Line(n, t, i, f) ==
    LET s == ToBob(conn["alice"]) IN
    /\ AliceAt(t, i, f) /\ Said(s, n, t, i, f) /\ Sound(s, n, t, i)
    /\ On => Len(s) = t - n
    /\ t = 2 /\ i # 0 /\ Matches("alice") => Reply(s, n)
    /\ Hears(ToAlice(conn["alice"]), n, t, i, f)

(* The wires of a connection that is new to Bob: the first frames of a        *)
(* script, or a proof.                                                        *)
Opens == \E t \in 0 .. 2, i \in 0 .. MaxIds : (t = 2 => i # 0) /\ Line(0, t, i, FALSE)
Approves ==
    /\ task["measure"] \in {"proof", "confirm"} /\ recovered = "waiting" /\ sessions["bob"] >= 1
    /\ Len(ToBob(conn["alice"])) = 1
    /\ Head(ToBob(conn["alice"])).type = "verification_result"

(* While both ends are up, the two are on one line.                           *)
Talk ==
    LET a == conn["alice"] IN
    Up("alice", a) /\ Up("bob", a) =>
      /\ a = conn["bob"] =>
           \E n, t \in Frames, i \in 0 .. MaxIds, f \in BOOLEAN : BobAt(n, i, f) /\ Line(n, t, i, f)
      /\ cand[a].pc # "none" => ToAlice(a) = <<>> /\ (Opens \/ Approves)

(* A decision under way is about the pending comparison.                      *)
Deciding(r) ==
    cmd[r].pc = "deciding" /\ Up(r, conn[r]) =>
       /\ dual[r] # NoDual /\ cmd[r].id = dual[r].id /\ dual[r].decisions[r] = "none"
       /\ cmd[r].conn = conn[r]

(* A decision is the last of its comparison, and a result that confirms has   *)
(* two MATCHes.                                                               *)
Firm ==
    /\ Deciding("alice") /\ Deciding("bob")
    /\ cmd["alice"].pc = "deciding" => task["measure"] \in {"request", "ready", "failed", "off"}
    /\ cmd["bob"].pc = "deciding" => gate["bob"] \in {"VERIFYING", "RESTRICTED", "CLOSED"}
    /\ Up("alice", conn["alice"]) /\ dual["alice"].ready = "yes" =>
          \A r \in Role : dual["alice"].decisions[r] = "MATCH"

(* What her reader reads is her connection, and none reads ahead of a         *)
(* session.                                                                   *)
Slots ==
    /\ \A c \in Conns : c > conns => ToAlice(c) = <<>>
    /\ reader["alice"].pc \in {"off", "recv", "lock"}
    /\ reader["alice"].pc # "off" => reader["alice"].conn = conn["alice"]
    /\ gate["alice"] \in {"LOCKED", "CLOSED"} \/ guard = "none" => reader["alice"].pc = "off"

(* What there cannot be before the first session.                             *)
Once ==
    /\ sessions["alice"] = 0 => approved = 0 /\ guard = "none" /\ ping = "none"
    /\ sessions["bob"] = 0 => matched["bob"] = {} /\ dual["bob"] = NoDual /\ reader["bob"].pc = "off"

(* A heartbeat is under way only in these places; she recovers only with what *)
(* the comparison confirmed.                                                  *)
Paced ==
    /\ ping = "sent" => task["measure"] \in {"ping", "pong", "off"}
    /\ task["measure"] \in {"close", "establish"} /\ gate["alice"] = "RECONNECTING" =>
          guard = "verified"

(* HonestPeerNotRefused speaks of the first session of each.                  *)
First == \A r \in Role : sessions[r] <= 1

(* The invariant, up to Holds.                                                *)
Speaking ==
    Firm /\ Slots /\ Once /\ Paced /\ BobHears /\ CandHears
    /\ AliceHeard /\ AliceStands /\ Talk /\ refused = {}

-------------------------------------------------------------------------------
(* The script on a wire                                                       *)

(* Facts about sequences that the scripts use.                                *)
LEMMA SeqFacts ==
  ASSUME NEW s \in Seq(Message), NEW m \in Message
  PROVE  /\ Len(s) \in Nat /\ Len(Append(s, m)) = Len(s) + 1 /\ Append(s, m)[Len(s) + 1] = m
         /\ \A k \in 1 .. Len(s) : Append(s, m)[k] = s[k]
         /\ Append(s, m) \in Seq(Message) /\ Append(s, m) # <<>>
         /\ s # <<>> => /\ Len(s) \in Nat \ {0} /\ Head(s) = s[1] /\ Tail(s) \in Seq(Message)
                        /\ Len(Tail(s)) = Len(s) - 1 /\ Head(s) \in Message
                        /\ \A k \in 1 .. Len(s) - 1 : Tail(s)[k] = s[k + 1]
         /\ s = <<>> <=> Len(s) = 0
  BY AppendProperties, EmptySeq

(* A wire that holds nothing of the script holds at most the notice.          *)
LEMMA SaidNone ==
  ASSUME NEW s \in Seq(Message), NEW n \in Frames, NEW i, NEW f, Said(s, n, n, i, f)
  PROVE  /\ s # <<>> => Head(s).type = "shutdown"
         /\ \A k \in Frames : \A j, g : Said(s, k, k, j, g)
<1>1. Len(s) \in Nat /\ (s # <<>> => Len(s) \in Nat \ {0} /\ Head(s) = s[1])
  BY EmptySeq
<1>2. n - n = 0 /\ n \in Int /\ \A k \in Frames : k - k = 0 /\ k \in Int
  BY DEF Frames
<1>3. Len(s) > 0 => s[1].type = "shutdown"
  BY <1>1, <1>2 DEF Said
<1>4. ASSUME NEW k \in Frames, NEW j, NEW g PROVE Said(s, k, k, j, g)
  BY <1>1, <1>2, <1>3 DEF Said, Frames
<1> QED BY <1>1, <1>3, <1>4

(* An empty wire holds the frames after the t-th.                             *)
LEMMA SaidNil ==
  ASSUME NEW n \in Frames, NEW i, NEW f
  PROVE  Said(<<>>, n, n, i, f)
<1>1. n - n = 0 /\ n <= n
  BY DEF Frames
<1> QED BY <1>1 DEF Said

(* What arrives first is the next frame of the script, or the notice.         *)
LEMMA SaidHead ==
  ASSUME NEW s \in Seq(Message), NEW n \in Frames, NEW t \in Frames, NEW i, NEW f,
         Said(s, n, t, i, f), n # t
  PROVE  /\ n + 1 \in Frames /\ s # <<>> /\ Frame(Head(s), n + 1, i, f)
         /\ Said(Tail(s), n + 1, t, i, f) /\ Len(Tail(s)) = Len(s) - 1
<1>1. Len(s) \in Nat /\ n \in Int /\ t \in Int /\ n < t /\ Len(s) >= t - n /\ n + 1 \in Frames
  BY DEF Said, Frames
<1>2. s # <<>> /\ Head(s) = s[1] /\ Len(Tail(s)) = Len(s) - 1
      /\ \A k \in 1 .. Len(s) - 1 : Tail(s)[k] = s[k + 1]
  BY <1>1, EmptySeq
<1>3. Frame(s[1], n + 1, i, f)
  <2>1. 1 \in 1 .. t - n
    BY <1>1
  <2> QED BY <2>1 DEF Said
<1> DEFINE u == Tail(s)
           N == Len(s)
<1>4. ASSUME NEW k \in 1 .. t - (n + 1) PROVE Frame(u[k], n + 1 + k, i, f)
  <2>1. k + 1 \in 1 .. t - n /\ k \in 1 .. N - 1 /\ n + (k + 1) = n + 1 + k
    BY <1>1
  <2>2. Frame(s[k + 1], n + (k + 1), i, f)
    BY <2>1 DEF Said
  <2>3. u[k] = s[k + 1]
    BY <1>2, <2>1
  <2> QED BY <2>1, <2>2, <2>3
<1>5. ASSUME N - 1 > t - (n + 1) PROVE u[t - (n + 1) + 1].type = "shutdown"
  <2>1. t - (n + 1) + 1 = t - n /\ N > t - n /\ t - n \in 1 .. N - 1
    BY <1>1, <1>5
  <2>2. s[(t - n) + 1].type = "shutdown"
    BY <2>1 DEF Said
  <2>3. u[t - n] = s[(t - n) + 1]
    BY <1>2, <2>1
  <2> QED BY <2>1, <2>2, <2>3
<1>6. n + 1 <= t /\ N - 1 >= t - (n + 1)
  BY <1>1
<1> HIDE DEF u
<1>7. Said(u, n + 1, t, i, f)
  BY <1>2, <1>4, <1>5, <1>6 DEF Said, u
<1> QED BY <1>1, <1>2, <1>3, <1>7 DEF u

(* The next frame of the script is sent.                                      *)
LEMMA SaidNext ==
  ASSUME NEW s \in Seq(Message), NEW n \in Frames, NEW t \in 0 .. 3, NEW i, NEW f,
         Said(s, n, t, i, f), Len(s) = t - n, NEW m \in Message, Frame(m, t + 1, i, f)
  PROVE  Said(Append(s, m), n, t + 1, i, f) /\ Len(Append(s, m)) = t + 1 - n
<1> DEFINE u == Append(s, m)
           N == Len(s)
<1>1. /\ N \in Nat /\ Len(u) = N + 1 /\ u[N + 1] = m
      /\ \A k \in 1 .. N : u[k] = s[k]
  BY AppendProperties
<1>2. n \in Int /\ n <= t /\ N = t - n
  BY DEF Said, Frames
<1> HIDE DEF u, N
<1>3. ASSUME NEW k \in 1 .. t + 1 - n PROVE Frame(u[k], n + k, i, f)
  <2>1. CASE k = N + 1
    <3>1. n + k = t + 1
      BY <1>2, <2>1
    <3> QED BY <1>1, <2>1, <3>1
  <2>2. CASE k # N + 1
    <3>1. k \in 1 .. N
      BY <1>1, <1>2, <2>2
    <3>2. Frame(s[k], n + k, i, f)
      BY <1>2, <3>1 DEF Said, N
    <3> QED BY <1>1, <3>1, <3>2
  <2> QED BY <2>1, <2>2
<1>4. n <= t + 1 /\ Len(u) = t + 1 - n
  BY <1>1, <1>2
<1>5. Said(u, n, t + 1, i, f)
  BY <1>1, <1>2, <1>3, <1>4 DEF Said
<1> QED BY <1>4, <1>5 DEF u

(* The notice may follow at any time.                                         *)
LEMMA SaidEnds ==
  ASSUME NEW s \in Seq(Message), NEW n \in Frames, NEW t \in Frames, NEW i, NEW f,
         Said(s, n, t, i, f), NEW m \in Message, m.type = "shutdown"
  PROVE  Said(Append(s, m), n, t, i, f)
<1> DEFINE u == Append(s, m)
           N == Len(s)
<1>1. /\ N \in Nat /\ Len(u) = N + 1 /\ u[N + 1] = m
      /\ \A k \in 1 .. N : u[k] = s[k]
  BY AppendProperties
<1>2. n \in Int /\ t \in Int /\ n <= t /\ N >= t - n
  BY DEF Said, Frames, N
<1>3. /\ \A k \in 1 .. t - n : Frame(s[k], n + k, i, f)
      /\ N > t - n => s[t - n + 1].type = "shutdown"
  BY DEF Said, N
<1> HIDE DEF u, N
<1>4. \A k \in 1 .. t - n : k \in 1 .. N
  BY <1>1, <1>2
<1>5. \A k \in 1 .. t - n : Frame(u[k], n + k, i, f)
  BY <1>1, <1>3, <1>4
<1>6. u[t - n + 1].type = "shutdown"
  <2>1. CASE N = t - n
    BY <1>1, <2>1
  <2>2. CASE N # t - n
    <3>1. N > t - n /\ t - n + 1 \in 1 .. N
      BY <1>1, <1>2, <2>2
    <3> QED BY <1>1, <1>3, <3>1
  <2> QED BY <2>1, <2>2
<1>7. Len(u) >= t - n
  BY <1>1, <1>2
<1> QED BY <1>2, <1>5, <1>6, <1>7 DEF Said, u

(* Her answer stays what it is while frames come behind it or are taken       *)
(* before it.                                                                 *)
LEMMA ReplyAppend ==
  ASSUME NEW s \in Seq(Message), NEW n \in Frames, NEW m \in Message, n < 2 => Len(s) >= 2 - n
  PROVE  Reply(Append(s, m), n) <=> Reply(s, n)
<1>1. /\ Len(s) \in Nat /\ \A k \in 1 .. Len(s) : Append(s, m)[k] = s[k]
  BY AppendProperties
<1>2. n \in {0, 1, 2, 3, 4}
  BY DEF Frames
<1>3. (n = 0 => 2 \in 1 .. Len(s)) /\ (n = 1 => 1 \in 1 .. Len(s))
  BY <1>1, <1>2
<1> QED BY <1>1, <1>2, <1>3 DEF Reply

-------------------------------------------------------------------------------
(* The wire to Alice                                                          *)

(* What a frame more makes of the wire to her.                                *)
LEMMA EndedStays ==
  ASSUME NEW w \in Seq(Message), NEW m \in Message
  PROVE  /\ Ended(w) /\ (w = <<>> => m.type = "shutdown") => Ended(Append(w, m))
         /\ Ended(w) => Brings(Append(w, m), m.type, m.id)
         /\ \A type, i : Brings(w, type, i) /\ m.type = "shutdown" => Brings(Append(w, m), type, i)
         /\ w # <<>> => Head(Append(w, m)) = Head(w)
         /\ w = <<>> => Head(Append(w, m)) = m
<1> DEFINE u == Append(w, m)
<1>1. u # <<>> /\ Len(w) \in Nat
  BY AppendProperties
<1>2. ASSUME w # <<>> PROVE Head(u) = Head(w) /\ Tail(u) = Append(Tail(w), m) /\ Tail(w) \in Seq(Message)
  BY <1>2, EmptySeq, AppendProperties
<1>3. ASSUME w = <<>> PROVE Head(u) = m /\ Tail(u) = <<>>
  BY <1>3
<1>4. ASSUME NEW v \in Seq(Message), m.type = "shutdown", Ended(v) PROVE Ended(Append(v, m))
  <2>1. CASE v = <<>>
    BY <1>4, <2>1 DEF Ended
  <2>2. CASE v # <<>>
    <3>1. Head(Append(v, m)) = Head(v)
      BY <2>2, EmptySeq, AppendProperties
    <3> QED BY <1>4, <2>2, <3>1 DEF Ended
  <2> QED BY <2>1, <2>2
<1> HIDE DEF u
<1>5. Ended(w) /\ (w = <<>> => m.type = "shutdown") => Ended(u)
  BY <1>1, <1>2, <1>3 DEF Ended
<1>6. Ended(w) => Brings(u, m.type, m.id)
  BY <1>1, <1>2, <1>3 DEF Ended, Brings
<1>7. ASSUME NEW type, NEW i, Brings(w, type, i), m.type = "shutdown" PROVE Brings(u, type, i)
  BY <1>1, <1>2, <1>4, <1>7 DEF Brings
<1> QED BY <1>2, <1>3, <1>5, <1>6, <1>7 DEF u

-------------------------------------------------------------------------------
(* Alice's steps.  One that leaves both wires keeps her place in the script   *)
(* or changes what she waits for.                                             *)
BobRests == UNCHANGED <<dual, reader, cmd, gate, resume>>

(* What a step of Alice leaves of Bob's side.                                 *)
BobStands ==
    /\ dual'["bob"] = dual["bob"] /\ reader'["bob"] = reader["bob"] /\ cmd'["bob"] = cmd["bob"]
    /\ gate'["bob"] = gate["bob"] /\ resume' = resume

(* His place is as it was.                                                    *)
LEMMA BobSame ==
  ASSUME BobStands
  PROVE  /\ Matches("bob")' = Matches("bob") /\ Answered("bob")' = Answered("bob")
         /\ \A n, i, f : BobAt(n, i, f)' <=> BobAt(n, i, f)
         /\ \A s, n : Reply(s, n)' <=> Reply(s, n)
         /\ \A s, n, t, i : Sound(s, n, t, i)' <=> Sound(s, n, t, i)
<1>1. Matches("bob")' = Matches("bob") /\ Answered("bob")' = Answered("bob")
  BY DEF BobStands, Matches, Answered
<1>2. \A s, n : Reply(s, n)' <=> Reply(s, n)
  BY DEF BobStands, Reply
<1>3. \A n, f : BobIdle(n, f)' <=> BobIdle(n, f)
  BY DEF BobStands, BobIdle
<1>4. \A n, i, f : BobCompares(n, i, f)' <=> BobCompares(n, i, f)
  BY <1>1 DEF BobStands, BobCompares, Waiting
<1>5. \A n, i, f : BobProven(n, i, f)' <=> BobProven(n, i, f)
  BY DEF BobStands, BobProven
<1>6. \A s, n, t, i : Sound(s, n, t, i)' <=> Sound(s, n, t, i)
  BY <1>1, <1>2 DEF Sound
<1> QED BY <1>1, <1>2, <1>3, <1>4, <1>5, <1>6 DEF BobAt

(* A step of hers that writes nothing stays on the line.                      *)
LEMMA LineStays ==
  ASSUME BobStands, NEW n \in Frames, NEW t \in Frames, NEW i \in 0 .. MaxIds, NEW f \in BOOLEAN,
         Line(n, t, i, f), AliceAt(t, i, f)', On' => On,
         ToBob(conn["alice"])' = ToBob(conn["alice"]),
         ToAlice(conn["alice"])' = ToAlice(conn["alice"]),
         t = 2 /\ i # 0 /\ Matches("alice")' => Matches("alice"),
         t \in {1, 2} /\ i # 0 => (Got' <=> Got) /\ (GotMatch' => GotMatch),
         t = 2 /\ i = 0 => (recovered' = "waiting" <=> recovered = "waiting"),
         t = 0 => \/ ping' = "sent" <=> ping = "sent"
                  \/ Ended(ToAlice(conn["alice"])) /\ ping' # "sent"
  PROVE  Line(n, t, i, f)'
<1> DEFINE s == ToBob(conn["alice"])
           w == ToAlice(conn["alice"])
<1>1. /\ Said(s, n, t, i, f) /\ Sound(s, n, t, i) /\ (On => Len(s) = t - n)
      /\ t = 2 /\ i # 0 /\ Matches("alice") => Reply(s, n)
      /\ Hears(w, n, t, i, f)
  BY DEF Line
<1>2. \A v, k : (Sound(v, n, t, i)' <=> Sound(v, n, t, i)) /\ (Reply(v, k)' <=> Reply(v, k))
  BY BobSame
<1>3. Matches("bob")' = Matches("bob") /\ Answered("bob")' = Answered("bob")
  BY BobSame
<1> HIDE DEF s, w
<1>4. Hears(w, n, t, i, f)'
  BY <1>1, <1>3 DEF Hears, w
<1> QED BY <1>1, <1>2, <1>4 DEF Line, s, w

(* One that hands over the next frame of the script, m, takes her to the next *)
(* place.                                                                     *)
LEMMA LineSays ==
  ASSUME BobStands, NEW n \in Frames, NEW t \in 0 .. 3, NEW i \in 0 .. MaxIds, NEW f \in BOOLEAN,
         NEW m \in Message, ToBob(conn["alice"]) \in Seq(Message),
         Said(ToBob(conn["alice"]), n, t, i, f), Len(ToBob(conn["alice"])) = t - n,
         Sound(ToBob(conn["alice"]), n, t, i),
         t = 2 /\ i # 0 /\ n < 3 => n >= 1 /\ Reply(ToBob(conn["alice"]), n) /\ Matches("bob"),
         t = 1 /\ i # 0 /\ Matches("alice")' => m.flag,
         Frame(m, t + 1, i, f), AliceAt(t + 1, i, f)',
         ToBob(conn["alice"])' = Append(ToBob(conn["alice"]), m),
         Hears(ToAlice(conn["alice"]), n, t + 1, i, f)'
  PROVE  Line(n, t + 1, i, f)' /\ t + 1 \in Frames
<1> DEFINE s == ToBob(conn["alice"])
<1>0. PICK u : u = Append(s, m)
  OBVIOUS
<1>1. Said(u, n, t + 1, i, f) /\ Len(u) = t + 1 - n
  BY <1>0, SaidNext
<1>2. n \in Int /\ n >= 0 /\ n <= t /\ t + 1 \in Frames /\ t \in Int
  BY DEF Frames, Said
<1>3. \A v, k : (Sound(v, n, t + 1, i)' <=> Sound(v, n, t + 1, i)) /\ (Reply(v, k)' <=> Reply(v, k))
  BY BobSame
<1>4. n < 2 /\ t >= 2 => (Reply(u, n) <=> Reply(s, n))
  BY <1>0, <1>2, ReplyAppend
<1>5. n >= 2 => (Reply(u, n) <=> Reply(s, n))
  BY <1>0, <1>2 DEF Reply
<1>6. Sound(u, n, t + 1, i)
  <2>1. CASE t = 2
    BY <1>2, <1>4, <1>5, <2>1 DEF Sound
  <2>2. CASE t = 3
    BY <1>2, <1>4, <1>5, <2>2 DEF Sound
  <2>3. CASE t \in {0, 1}
    BY <2>3 DEF Sound
  <2> QED BY <2>1, <2>2, <2>3
<1>7. ASSUME t + 1 = 2, i # 0, Matches("alice")' PROVE Reply(u, n)
  <2>1. m.flag /\ (n = 0 \/ n = 1)
    BY <1>2, <1>7
  <2>2. Len(s) \in Nat /\ u[Len(s) + 1] = m
    BY <1>0, AppendProperties
  <2>3. (n = 0 => u[2] = m) /\ (n = 1 => u[1] = m)
    BY <1>2, <1>7, <2>2
  <2> QED BY <2>1, <2>3 DEF Reply
<1>8. /\ AliceAt(t + 1, i, f)' /\ Said(u, n, t + 1, i, f) /\ Sound(u, n, t + 1, i)'
      /\ Len(u) = t + 1 - n
      /\ t + 1 = 2 /\ i # 0 /\ Matches("alice")' => Reply(u, n)'
      /\ Hears(ToAlice(conn["alice"]), n, t + 1, i, f)'
  BY <1>1, <1>3, <1>6, <1>7
<1>9. ToBob(conn["alice"])' = u
  BY <1>0
<1> QED BY <1>2, <1>8, <1>9 DEF Line

(* What a step of hers does to the talk while her end stays open              *)
Fits(n, t, i, f) == n = 0 /\ ~f /\ t <= 2 /\ (t = 2 => i # 0)

(* A step of hers takes the line to another, from every place where Bob may   *)
(* be.                                                                        *)
Advances(n, t, i, f) ==
    \E n2, t2 \in Frames, i2 \in 0 .. MaxIds, f2 \in BOOLEAN :
       /\ Line(n2, t2, i2, f2)' /\ (BobAt(n, i, f) => BobAt(n2, i2, f2)')
       /\ Fits(n, t, i, f) => Fits(n2, t2, i2, f2)
Advancing ==
    Up("bob", conn["alice"]) =>
       /\ \A n, t \in Frames, i \in 0 .. MaxIds, f \in BOOLEAN :
             Line(n, t, i, f) => Advances(n, t, i, f)
       /\ Approves /\ ToAlice(conn["alice"]) = <<>> => Approves'
       /\ ToAlice(conn["alice"]) = <<>> => ToAlice(conn["alice"])' = <<>>
GoesOn == conn'["alice"] = conn["alice"] /\ AliceHeard' /\ AliceStands' /\ Advancing

(* To advance it is enough to give her new place; Bob's is unchanged.         *)
LEMMA AdvanceTo ==
  ASSUME BobStands, NEW n \in Frames, NEW t \in Frames, NEW i \in 0 .. MaxIds, NEW f \in BOOLEAN,
         NEW t2 \in Frames, Line(n, t2, i, f)',
         t <= 2 /\ (t = 2 => i # 0) => (t2 <= 2 /\ (t2 = 2 => i # 0)) \/ n # 0
  PROVE  Advances(n, t, i, f)
<1>1. BobAt(n, i, f) => BobAt(n, i, f)'
  BY BobSame
<1>2. Fits(n, t, i, f) => Fits(n, t2, i, f)
  BY DEF Fits
<1> QED BY <1>1, <1>2 DEF Advances

(* From the first or the fourth place she may begin anew.                     *)
LEMMA AdvanceAnew ==
  ASSUME BobStands, NEW i \in 0 .. MaxIds, NEW f \in BOOLEAN, NEW t2 \in 0 .. 1, NEW i2 \in 0 .. MaxIds,
         Line(0, t2, i2, f)'
  PROVE  Advances(0, 0, i, f)
<1>1. BobAt(0, i, f) => BobAt(0, i2, f)'
  BY BobSame DEF BobAt, BobIdle, BobCompares, BobProven
<1>2. Fits(0, 0, i, f) => Fits(0, t2, i2, f)
  BY DEF Fits
<1>3. 0 \in Frames /\ t2 \in Frames
  BY DEF Frames
<1> QED BY <1>1, <1>2, <1>3 DEF Advances

(* A comparison of an open session begins another script: where Bob was after *)
(* a first one, he is before the second.                                      *)
LEMMA AdvanceOn ==
  ASSUME BobStands, NEW i \in 0 .. MaxIds, NEW p \in Frames, p = 3, NEW t2 \in Frames,
         Line(p, t2, i, FALSE)'
  PROVE  Advances(0, 0, i, TRUE)
<1>1. BobAt(0, i, TRUE) => BobAt(p, i, FALSE)'
  BY BobSame DEF BobAt, BobIdle, BobCompares, BobProven
<1>2. ~Fits(0, 0, i, TRUE)
  BY DEF Fits
<1> QED BY <1>1, <1>2 DEF Advances

(* She hears what she heard, and waits for it still.                          *)
LEMMA HeardStays ==
  ASSUME AliceHeard, Up("alice", conn["alice"]), conn'["alice"] = conn["alice"],
         ToAlice(conn["alice"])' = ToAlice(conn["alice"]),
         dual'["alice"] = dual["alice"], reader'["alice"] = reader["alice"],
         ping = "sent" => ping' = "sent",
         recovered = "waiting" /\ task["measure"] \in {"proof", "confirm"} =>
             recovered' = "waiting" /\ task'["measure"] \in {"proof", "confirm"}
  PROVE  AliceHeard' /\ Got' = Got /\ GotMatch' = GotMatch
<1>1. Got' = Got /\ GotMatch' = GotMatch
  BY DEF Got, GotMatch
<1> QED BY <1>1 DEF AliceHeard

-------------------------------------------------------------------------------
(* What a close, a send and a receive leave of the two wires                  *)

(* Who restricts has closed the connection.                                   *)
LEMMA RestrictsEnds ==
  ASSUME CoreOK, NEW r \in Role, NEW l \in Links, Restricts(r, l)
  PROVE  ~Up(r, conn[r])'
<1>1. conn' = conn /\ link' = Shut(l, r, conn[r]) /\ conn[r] \in Refs
  BY DEF Restricts, CoreOK
<1>2. conn[r] \in Conns => Shut(l, r, conn[r])[conn[r]].up[r] = FALSE
  BY <1>1, ShutElse
<1> QED BY <1>1, <1>2 DEF Up, Refs, Conns

(* So has a task of hers that raises.                                         *)
LEMMA RaisesEnds ==
  ASSUME CoreOK, NEW t, NEW l \in Links, Raises(t, l)
  PROVE  ~Up("alice", conn["alice"])'
<1>1. /\ conn' = conn /\ conn["alice"] \in Refs
      /\ link' = Shut(l, "alice", conn["alice"])
  BY DEF Raises, Restricts, CoreOK, Role
<1>2. conn["alice"] \in Conns => Shut(l, "alice", conn["alice"])[conn["alice"]].up["alice"] = FALSE
  BY <1>1, ShutElse DEF Role
<1> QED BY <1>1, <1>2 DEF Up, Refs, Conns

(* A frame of hers is the last on Bob's wire, if he reads it.                 *)
LEMMA AliceSends ==
  ASSUME CoreOK, Up("alice", conn["alice"]), NEW m \in Message, conn' = conn,
         link' = Put(link, "alice", conn["alice"], m)
  PROVE  /\ Up("bob", conn["alice"]) =>
              ToBob(conn["alice"])' = Append(ToBob(conn["alice"]), m)
         /\ ToAlice(conn["alice"])' = ToAlice(conn["alice"])
         /\ \A r \in Role : Up(r, conn["alice"])' = Up(r, conn["alice"])
<1>1. PICK a \in Conns : a = conn["alice"]
  BY DEF CoreOK, Up, Refs, Conns, Role
<1>2. /\ link[a].up["bob"] => Put(link, "alice", a, m)[a].wire["bob"] = Append(link[a].wire["bob"], m)
      /\ \A q \in Role : Put(link, "alice", a, m)[a].up[q] = link[a].up[q]
      /\ Put(link, "alice", a, m)[a].wire["alice"] = link[a].wire["alice"]
  <2>1. "alice" \in Role /\ Peer("alice") = "bob" /\ link \in Links
    BY DEF Role, Peer, CoreOK
  <2>2. /\ link[a].up[Peer("alice")] =>
             Put(link, "alice", a, m)[a].wire[Peer("alice")] = Append(link[a].wire[Peer("alice")], m)
        /\ \A q \in Role : Put(link, "alice", a, m)[a].up[q] = link[a].up[q]
        /\ Put(link, "alice", a, m)[a].wire["alice"] = link[a].wire["alice"]
    BY <2>1, PutElse
  <2> QED BY <2>1, <2>2
<1> QED BY <1>1, <1>2 DEF Up, ToBob, ToAlice

-------------------------------------------------------------------------------
(* A silent step of one of her tasks                                          *)
LEMMA SilentOn ==
  ASSUME BobStands, AliceHeard, Up("alice", conn["alice"]), conn' = conn,
         ToBob(conn["alice"])' = ToBob(conn["alice"]),
         ToAlice(conn["alice"])' = ToAlice(conn["alice"]),
         dual'["alice"] = dual["alice"], reader'["alice"] = reader["alice"],
         \/ cmd'["alice"] = cmd["alice"]
         \/ cmd["alice"].pc # "deciding" /\ cmd'["alice"].pc # "deciding",
         sessions' = sessions, AliceStands', ping' = "sent" <=> ping = "sent",
         task["measure"] \in {"proof", "confirm", "conclude"} =>
             (recovered' = "waiting" <=> recovered = "waiting"),
         recovered = "waiting" /\ task["measure"] \in {"proof", "confirm"} =>
             task'["measure"] \in {"proof", "confirm"},
         On' => On,
         \A t \in Frames, i \in 0 .. MaxIds, f \in BOOLEAN : AliceAt(t, i, f) => AliceAt(t, i, f)'
  PROVE  GoesOn
<1>1. AliceHeard' /\ Got' = Got /\ GotMatch' = GotMatch
  BY HeardStays
<1>2. Matches("alice")' = Matches("alice")
  BY DEF Matches
<1>3. ASSUME NEW n \in Frames, NEW t \in Frames, NEW i \in 0 .. MaxIds, NEW f \in BOOLEAN,
             Line(n, t, i, f)
      PROVE  Advances(n, t, i, f)
  <2>1. AliceAt(t, i, f)'
    BY <1>3 DEF Line
  <2>2. t = 2 /\ i = 0 => task["measure"] \in {"proof", "confirm", "conclude"}
    BY <1>3 DEF Line, AliceAt, Asking
  <2>3. Line(n, t, i, f)'
    BY <1>1, <1>2, <1>3, <2>1, <2>2, LineStays
  <2> QED BY <2>3, AdvanceTo
<1>4. Approves => Approves'
  BY DEF Approves
<1>5. Advancing
  BY <1>3, <1>4 DEF Advancing
<1> QED BY <1>1, <1>5 DEF GoesOn

(* What her tasks' steps leave alone                                          *)
LEMMA MeasureStands ==
  ASSUME IType, MeasureStep, OfAlice
  PROVE  /\ BobStands /\ sessions' = sessions /\ reader'["alice"] = reader["alice"]
         /\ cmd'["alice"] = cmd["alice"]
<1>1. EndpointOK
  BY TypeParts DEF IType
<1>2. CoreStill("bob") /\ UNCHANGED <<reader, cmd>>
  BY <1>1, MeasureStepStill
<1> QED BY <1>2 DEF CoreStill, BobStands, OfAlice, bounds

(* Her end is open before a step and after it.                                *)
AliceUp ==
    /\ IType /\ IdleOK /\ NoBurst /\ AsksOK /\ Recovers /\ Firm /\ Slots
    /\ AliceHeard /\ AliceStands
    /\ Up("alice", conn["alice"]) /\ Up("alice", conn["alice"])'

(* What a step of hers on an open connection may rest on.                     *)
LEMMA AliceUpParts ==
  ASSUME AliceUp
  PROVE  /\ CoreOK /\ TaskOK /\ WaitOK /\ RetryOK /\ CommandOK /\ CountOK /\ link \in Links
         /\ task["measure"] \notin {"failed", "close", "establish"}
         /\ task["measure"] \in Going => gate["alice"] = "ACTIVE"
         /\ task["measure"] \notin Going \cup {"off"} => gate["alice"] = "VERIFYING"
         /\ ToBob(conn["alice"]) \in Seq(Message) /\ ToAlice(conn["alice"]) \in Seq(Message)
         /\ \A t \in Tasks, l \in Links : ~Raises(t, l) /\ ~Restricts("alice", l)
<1>1. /\ CoreOK /\ TaskOK /\ WaitOK /\ RetryOK /\ CommandOK /\ CountOK
  BY TypeParts DEF AliceUp, IType, EndpointOK, AliceOK
<1>2. conn["alice"] \in Conns /\ link \in Links
  BY <1>1 DEF AliceUp, Up, CoreOK, Refs, Conns, Role
<1>3. ToBob(conn["alice"]) \in Seq(Message) /\ ToAlice(conn["alice"]) \in Seq(Message)
  BY <1>2 DEF ToBob, ToAlice, Links, Ends, Role
<1>4. ASSUME NEW t \in Tasks, NEW l \in Links PROVE ~Raises(t, l) /\ ~Restricts("alice", l)
  <2>1. Raises(t, l) => ~Up("alice", conn["alice"])'
    BY <1>1, RaisesEnds
  <2>2. Restricts("alice", l) => ~Up("alice", conn["alice"])'
    BY <1>1, RestrictsEnds DEF Role
  <2> QED BY <2>1, <2>2 DEF AliceUp
<1> QED BY <1>1, <1>2, <1>3, <1>4 DEF AliceUp, AliceStands

(* She waits where she was waiting for a send.                                *)
Strolls(from, to) ==
    /\ task["measure"] = from /\ Goto("measure", to)
    /\ UNCHANGED <<core, reader, cmd, asked, approved, ping, recovered>> /\ OfAlice

(* A step that only moves her task.                                           *)
LEMMA StrollOn ==
  ASSUME AliceUp, NEW from, NEW to, Strolls(from, to),
         <<from, to>> \in {<<"loop", "sleep">>, <<"request", "ready">>, <<"ping", "pong">>,
                           <<"proof", "confirm">>}
  PROVE  GoesOn
<1>1. /\ task["measure"] = from /\ task'["measure"] = to
      /\ UNCHANGED <<gate, conn, link, dual, resume, guard, reader, cmd, asked, approved, ping,
                     recovered>>
  BY AliceUpParts DEF Strolls, Goto, TaskOK, Tasks, core
<1>2. BobStands /\ sessions' = sessions
  BY <1>1 DEF BobStands, Strolls, OfAlice, bounds
<1>3. AliceStands'
  BY <1>1 DEF AliceUp, AliceStands, Going, Resuming
<1>4. ASSUME NEW t \in Frames, NEW i \in 0 .. MaxIds, NEW f \in BOOLEAN, AliceAt(t, i, f)
      PROVE  AliceAt(t, i, f)'
  BY <1>1, <1>4 DEF AliceAt, Asking, Going, Answered
<1>5. ToBob(conn["alice"])' = ToBob(conn["alice"]) /\ ToAlice(conn["alice"])' = ToAlice(conn["alice"])
  BY <1>1 DEF ToBob, ToAlice
<1> QED BY <1>1, <1>2, <1>3, <1>4, <1>5, SilentOn DEF AliceUp, On

(* The steps of that kind.                                                    *)
LEMMA WaitsOn ==
  ASSUME AliceUp, OfAlice, LoopHead \/ RequestSent \/ PingSent \/ ProofSent("measure")
  PROVE  GoesOn
<1>1. CASE LoopHead
  <2>1. Strolls("loop", "sleep")
    BY <1>1, AliceUpParts DEF LoopHead, Going, TaskStep, Strolls
  <2> QED BY <2>1, StrollOn
<1>2. CASE RequestSent
  <2>1. Strolls("request", "ready")
    BY <1>2, AliceUpParts DEF RequestSent, TaskStep, Strolls, Tasks
  <2> QED BY <2>1, StrollOn
<1>3. CASE PingSent
  <2>1. Strolls("ping", "pong")
    BY <1>3, AliceUpParts DEF PingSent, TaskStep, Strolls, Tasks
  <2> QED BY <2>1, StrollOn
<1>4. CASE ProofSent("measure")
  <2>1. Strolls("proof", "confirm")
    BY <1>4, AliceUpParts DEF ProofSent, TaskStep, Strolls, Tasks
  <2> QED BY <2>1, StrollOn
<1> QED BY <1>1, <1>2, <1>3, <1>4

(* Concluding an assessment                                                   *)
LEMMA KeepsOn ==
  ASSUME AliceUp, OfAlice, AssessKeeps
  PROVE  GoesOn
<1>1. BobStands /\ sessions' = sessions /\ reader'["alice"] = reader["alice"]
      /\ cmd'["alice"] = cmd["alice"]
  BY MeasureStands DEF MeasureStep, AliceUp
<1>2. guard = "verified" /\ AtAssess /\ Concludes /\ Assessed
      /\ UNCHANGED <<approved, recovered>>
  BY DEF AssessKeeps
<1>3. CASE task["measure"] = "assess"
  BY <1>2, <1>3 DEF AliceUp, AliceStands
<1>4. CASE task["measure"] = "pong" /\ ping = "done"
  <2>1. gate["alice"] = "ACTIVE"
    BY <1>4, AliceUpParts DEF Going
  <2>2. task'["measure"] = "loop" /\ ping' = "none"
        /\ UNCHANGED <<gate, conn, link, dual, resume, guard, asked>>
    BY <1>2, <1>4, <2>1, AliceUpParts DEF Concludes, Assessed, Goto, TaskOK, Tasks
  <2>3. AliceStands'
    BY <1>2, <1>4, <2>2 DEF AliceUp, AliceStands, Going, Resuming
  <2>4. ASSUME NEW t \in Frames, NEW i \in 0 .. MaxIds, NEW f \in BOOLEAN, AliceAt(t, i, f)
        PROVE  AliceAt(t, i, f)'
    BY <1>2, <1>4, <2>2, <2>4 DEF AliceAt, Asking, Going
  <2>5. ToBob(conn["alice"])' = ToBob(conn["alice"]) /\ ToAlice(conn["alice"])' = ToAlice(conn["alice"])
    BY <2>2 DEF ToBob, ToAlice
  <2> QED BY <1>1, <1>2, <1>4, <2>2, <2>3, <2>4, <2>5, SilentOn DEF AliceUp, On
<1> QED BY <1>2, <1>3, <1>4 DEF AtAssess

-------------------------------------------------------------------------------
(* Her tasks' frames                                                          *)
Utters(m) ==
    /\ link' = Put(link, "alice", conn["alice"], m) /\ conn' = conn
    /\ reader' = reader /\ OfAlice /\ BobStands /\ On
    /\ ~(recovered = "waiting" /\ task["measure"] \in {"proof", "confirm"})

(* Her frame is added to Bob's wire and to nothing else.                      *)
LEMMA UttersWires ==
  ASSUME AliceUp, NEW m \in Message, Utters(m)
  PROVE  /\ Up("bob", conn["alice"]) =>
              ToBob(conn["alice"])' = Append(ToBob(conn["alice"]), m)
         /\ ToAlice(conn["alice"])' = ToAlice(conn["alice"])
         /\ ~Approves /\ reader'["alice"] = reader["alice"]
  BY AliceSends, AliceUpParts DEF AliceUp, Utters, Approves

(* If her next frame is the one the script has, the talk goes on.             *)
LEMMA UttersOn ==
  ASSUME AliceUp, NEW m \in Message, Utters(m), AliceHeard', AliceStands',
         \A n, t \in Frames, i \in 0 .. MaxIds, f \in BOOLEAN :
            Line(n, t, i, f) =>
               /\ t \in 0 .. 3 /\ Frame(m, t + 1, i, f) /\ AliceAt(t + 1, i, f)'
               /\ t = 2 /\ i # 0 /\ n < 3 =>
                    n >= 1 /\ Reply(ToBob(conn["alice"]), n) /\ Matches("bob")
               /\ t = 1 /\ i # 0 /\ Matches("alice")' => m.flag
               /\ Hears(ToAlice(conn["alice"]), n, t + 1, i, f)'
  PROVE  GoesOn
<1>1. /\ Up("bob", conn["alice"]) =>
              ToBob(conn["alice"])' = Append(ToBob(conn["alice"]), m)
      /\ ToAlice(conn["alice"])' = ToAlice(conn["alice"]) /\ ~Approves
  BY UttersWires
<1>2. ASSUME Up("bob", conn["alice"]),
             NEW n \in Frames, NEW t \in Frames, NEW i \in 0 .. MaxIds, NEW f \in BOOLEAN,
             Line(n, t, i, f)
      PROVE  Advances(n, t, i, f)
  <2>1. /\ t \in 0 .. 3 /\ Frame(m, t + 1, i, f) /\ AliceAt(t + 1, i, f)'
        /\ t = 2 /\ i # 0 /\ n < 3 =>
             n >= 1 /\ Reply(ToBob(conn["alice"]), n) /\ Matches("bob")
        /\ t = 1 /\ i # 0 /\ Matches("alice")' => m.flag
        /\ Hears(ToAlice(conn["alice"]), n, t + 1, i, f)'
    BY <1>2
  <2>2. /\ ToBob(conn["alice"]) \in Seq(Message)
        /\ Said(ToBob(conn["alice"]), n, t, i, f) /\ Len(ToBob(conn["alice"])) = t - n
        /\ Sound(ToBob(conn["alice"]), n, t, i) /\ BobStands
    BY <1>2, AliceUpParts DEF Line, Utters
  <2>3. ToBob(conn["alice"])' = Append(ToBob(conn["alice"]), m)
    BY <1>1, <1>2
  <2>4. Line(n, t + 1, i, f)' /\ t + 1 \in Frames
    BY <2>1, <2>2, <2>3, LineSays
  <2>5. t <= 2 /\ (t = 2 => i # 0) => (t + 1 <= 2 /\ (t + 1 = 2 => i # 0)) \/ n # 0
    <3>1. t = 1 => i # 0
      BY <2>1 DEF Frame
    <3> QED BY <2>1, <3>1
  <2> QED BY <2>2, <2>4, <2>5, AdvanceTo
<1>3. Advancing
  BY <1>1, <1>2 DEF Advancing
<1> QED BY <1>1, <1>3 DEF GoesOn, Utters

(* Both have answered: her task goes on with the result.                      *)
LEMMA BothDecidedOn ==
  ASSUME AliceUp, OfAlice, BothDecided
  PROVE  GoesOn
<1> DEFINE d == dual["alice"]
           m == Msg("verification_result", asked.id, asked.recovery)
<1>1. BobStands /\ sessions' = sessions /\ reader'["alice"] = reader["alice"]
      /\ cmd'["alice"] = cmd["alice"]
  BY MeasureStands DEF MeasureStep, AliceUp
<1>2. /\ task["measure"] = "ready" /\ task'["measure"] = "result"
      /\ d.ready = "yes" /\ gate["alice"] = "VERIFYING"
      /\ UNCHANGED <<gate, conn, dual, resume, guard, asked, reader, approved, ping, recovered, cmd>>
      /\ link' = Put(link, "alice", conn["alice"], m)
  BY AliceUpParts DEF BothDecided, Sends, Goto, TaskOK, Tasks, TaskStep
<1>3. /\ d.decisions["alice"] = "MATCH" /\ d.decisions["bob"] = "MATCH" /\ d # NoDual
      /\ cmd["alice"].pc # "deciding"
  BY <1>2 DEF AliceUp, Firm, Deciding, NoDual, Role
<1>4. asked.id = d.id /\ asked.id # 0 /\ m \in Message /\ m.type = "verification_result"
      /\ m.id = asked.id /\ m.flag = asked.recovery /\ "measure" \in Tasks
  BY <1>2, AliceUpParts, ValuesOK DEF AliceUp, AliceStands, TaskOK, Tasks
<1>5. AliceStands'
  BY <1>2, <1>4 DEF AliceUp, AliceStands, Going, Resuming
<1>6. Utters(m)
  BY <1>1, <1>2 DEF Utters, On
<1>7. ToAlice(conn["alice"])' = ToAlice(conn["alice"])
  BY <1>4, <1>6, UttersWires
<1>8. AliceHeard' /\ Got' = Got /\ GotMatch' = GotMatch
  BY <1>2, <1>7, HeardStays DEF AliceUp
<1>9. ASSUME NEW n \in Frames, NEW t \in Frames, NEW i \in 0 .. MaxIds, NEW f \in BOOLEAN,
             Line(n, t, i, f)
      PROVE  /\ t \in 0 .. 3 /\ Frame(m, t + 1, i, f) /\ AliceAt(t + 1, i, f)'
             /\ t = 2 /\ i # 0 /\ n < 3 =>
                  n >= 1 /\ Reply(ToBob(conn["alice"]), n) /\ Matches("bob")
             /\ t = 1 /\ i # 0 /\ Matches("alice")' => m.flag
             /\ Hears(ToAlice(conn["alice"]), n, t + 1, i, f)'
  <2>1. AliceAt(t, i, f) /\ Hears(ToAlice(conn["alice"]), n, t, i, f)
        /\ (t = 2 /\ i # 0 /\ Matches("alice") => Reply(ToBob(conn["alice"]), n))
    BY <1>9 DEF Line
  <2>2. t = 2 /\ i # 0 /\ asked = [id |-> i, recovery |-> f] /\ i = d.id
    BY <1>2, <1>3, <2>1 DEF AliceAt, Asking, Answered, Going
  <2>3. Matches("alice") /\ Got /\ GotMatch
    BY <1>3 DEF Matches, Got, GotMatch
  <2>4. n # 0 /\ Ended(ToAlice(conn["alice"])) /\ Matches("bob")
    BY <2>1, <2>2, <2>3 DEF Hears
  <2>5. Hears(ToAlice(conn["alice"]), n, t + 1, i, f)'
    BY <1>7, <2>2, <2>4 DEF Hears
  <2>6. AliceAt(t + 1, i, f)'
    BY <1>2, <2>2 DEF AliceAt
  <2>7. Frame(m, t + 1, i, f)
    BY <1>4, <2>2 DEF Frame
  <2> QED BY <2>1, <2>2, <2>3, <2>4, <2>5, <2>6, <2>7 DEF Frames
<1> HIDE DEF m
<1> QED BY <1>4, <1>5, <1>6, <1>8, <1>9, UttersOn

(* She says the next frame, in constants.                                     *)
LEMMA LineSaysTo ==
  ASSUME AliceUp, NEW m \in Message, Utters(m), Up("bob", conn["alice"]), NEW n \in Frames,
         NEW t \in 0 .. 3, NEW t2 \in Frames, t2 = t + 1, NEW i \in 0 .. MaxIds, NEW f \in BOOLEAN,
         Said(ToBob(conn["alice"]), n, t, i, f), Len(ToBob(conn["alice"])) = t - n,
         Sound(ToBob(conn["alice"]), n, t, i), ~(t = 2 /\ i # 0 /\ n < 3),
         t = 1 /\ i # 0 /\ Matches("alice")' => m.flag,
         Frame(m, t2, i, f), AliceAt(t2, i, f)', Hears(ToAlice(conn["alice"]), n, t2, i, f)'
  PROVE  Line(n, t2, i, f)'
<1>1. ToBob(conn["alice"])' = Append(ToBob(conn["alice"]), m) /\ BobStands
      /\ ToBob(conn["alice"]) \in Seq(Message)
  BY UttersWires, AliceUpParts DEF Utters
<1>2. Frame(m, t + 1, i, f) /\ AliceAt(t + 1, i, f)'
      /\ Hears(ToAlice(conn["alice"]), n, t + 1, i, f)'
  OBVIOUS
<1>3. Line(n, t + 1, i, f)'
  BY <1>1, <1>2, LineSays
<1> QED BY <1>3

-------------------------------------------------------------------------------
(* The heartbeat: after her result the fourth frame of the script, and in an  *)
(* open session the first of a talk that begins anew.                         *)
LEMMA HeartbeatOn ==
  ASSUME AliceUp, OfAlice, Heartbeat
  PROVE  GoesOn
<1> DEFINE a == conn["alice"]
<1>1. BobStands /\ sessions' = sessions /\ reader'["alice"] = reader["alice"]
      /\ cmd'["alice"] = cmd["alice"]
  BY MeasureStands DEF MeasureStep, AliceUp
<1>2. PICK m \in Message : m = Notice("ping") /\ m.type = "ping"
  BY ValuesOK
<1>3. /\ task["measure"] = "sleep" /\ task'["measure"] = "ping" /\ gate["alice"] = "ACTIVE"
      /\ UNCHANGED <<gate, conn, dual, resume, guard, asked, reader, approved, recovered, cmd>>
      /\ link' = Put(link, "alice", conn["alice"], m) /\ ping' = "sent"
  BY <1>2, AliceUpParts DEF Heartbeat, Sends, Goto, TaskOK, Tasks, TaskStep, Going
<1>4. guard = "verified" /\ ping # "sent" /\ approved = 0
  BY <1>3 DEF AliceUp, AliceStands, Going, Resuming
<1>5. AliceStands'
  BY <1>3, <1>4 DEF AliceStands, Going, Resuming
<1>6. Utters(m)
  BY <1>1, <1>3 DEF Utters, On
<1>7. /\ Up("bob", conn["alice"]) =>
              ToBob(conn["alice"])' = Append(ToBob(conn["alice"]), m)
      /\ ToAlice(conn["alice"])' = ToAlice(conn["alice"]) /\ ~Approves
  BY <1>6, UttersWires
<1>8. AliceHeard'
  BY <1>3, <1>7, HeardStays DEF AliceUp
<1>9. ASSUME Up("bob", conn["alice"]),
             NEW n \in Frames, NEW t \in Frames, NEW i \in 0 .. MaxIds, NEW f \in BOOLEAN,
             Line(n, t, i, f)
      PROVE  Advances(n, t, i, f)
  <2>1. /\ AliceAt(t, i, f) /\ Hears(ToAlice(conn["alice"]), n, t, i, f)
        /\ Said(ToBob(conn["alice"]), n, t, i, f) /\ Len(ToBob(conn["alice"])) = t - n
        /\ Sound(ToBob(conn["alice"]), n, t, i) /\ ToBob(conn["alice"]) \in Seq(Message)
    BY <1>3, <1>9, AliceUpParts DEF Line, On
  <2>2. ToBob(conn["alice"])' = Append(ToBob(conn["alice"]), m)
    BY <1>7, <1>9
  <2>3. Ended(ToAlice(conn["alice"])) /\ ((t = 0 /\ f) \/ (t = 3 /\ ~f))
    BY <1>3, <1>4, <2>1 DEF AliceAt, Hears, Asking, Going
  <2>4. PICK p \in 0 .. 3, q \in Frames : p = 3 /\ q = p + 1 /\ q = 4 /\ p \in Frames
    BY DEF Frames
  <2>5. /\ AliceAt(q, i, FALSE)' /\ Frame(m, q, i, FALSE)
        /\ \A k \in Frames : Hears(ToAlice(conn["alice"]), k, q, i, FALSE)'
    BY <1>2, <1>3, <1>7, <2>3, <2>4 DEF AliceAt, Frame, Hears
  <2>6. CASE t = 3 /\ ~f
    <3>1. t = p
      BY <2>4, <2>6
    <3>2. Said(ToBob(conn["alice"]), n, p, i, f) /\ Len(ToBob(conn["alice"])) = p - n
          /\ Sound(ToBob(conn["alice"]), n, p, i)
      BY <2>1, <3>1
    <3>3. ~(p = 2 /\ i # 0 /\ n < 3) /\ ~(p = 1 /\ i # 0 /\ Matches("alice")')
      BY <2>4
    <3>4. Frame(m, q, i, f) /\ AliceAt(q, i, f)'
          /\ Hears(ToAlice(conn["alice"]), n, q, i, f)'
      BY <1>2, <1>3, <1>7, <2>3, <2>4, <2>6 DEF AliceAt, Frame, Hears
    <3>5. Line(n, q, i, f)'
      BY <1>6, <1>9, <2>4, <3>2, <3>3, <3>4, LineSaysTo
    <3> QED BY <1>1, <1>9, <2>4, <2>6, <3>5, AdvanceTo
  <2>7. CASE t = 0 /\ f
    <3>1. n = 0 /\ ToBob(conn["alice"]) = <<>>
      BY <2>1, <2>7, EmptySeq DEF Said, Frames
    <3>2. Said(<<>>, p, p, i, FALSE) /\ Len(<<>>) = 0
      BY <2>4, SaidNil, EmptySeq
    <3>6. Said(ToBob(conn["alice"]), p, p, i, FALSE) /\ Len(ToBob(conn["alice"])) = 0
      BY <3>1, <3>2
    <3>7. p - p = 0 /\ Sound(ToBob(conn["alice"]), p, p, i)
      BY <2>4 DEF Sound
    <3>8. ~(p = 2 /\ i # 0 /\ p < 3) /\ ~(p = 1 /\ i # 0 /\ Matches("alice")')
      BY <2>4
    <3>3. Len(ToBob(conn["alice"])) = p - p
      BY <3>6, <3>7
    <3>4. Line(p, q, i, FALSE)'
      BY <1>6, <1>9, <2>4, <2>5, <3>3, <3>6, <3>7, <3>8, LineSaysTo
    <3>5. Advances(0, 0, i, TRUE)
      BY <1>1, <2>4, <3>4, AdvanceOn
    <3> QED BY <2>7, <3>1, <3>5
  <2> QED BY <2>3, <2>6, <2>7
<1>10. Advancing
  BY <1>7, <1>9 DEF Advancing
<1> QED BY <1>3, <1>5, <1>8, <1>10 DEF GoesOn

-------------------------------------------------------------------------------
(* An assessment that demands a comparison begins the script.                 *)
LEMMA AssessOn ==
  ASSUME AliceUp, OfAlice, AssessVerifies
  PROVE  GoesOn
<1>1. BobStands /\ sessions' = sessions /\ reader'["alice"] = reader["alice"]
      /\ cmd'["alice"] = cmd["alice"]
  BY MeasureStands DEF MeasureStep, AliceUp
<1>2. PICK g \in BOOLEAN : g <=> guard = "verified"
  OBVIOUS
<1>3. PICK j \in 0 .. MaxIds : j = ids + 1 /\ j # 0 /\ ids < MaxIds
  BY AliceUpParts, EndpointAssumption DEF AssessVerifies, CountOK, Tasks
<1>4. PICK m \in Message : /\ m = Msg("verify_request", j, g) /\ m.type = "verify_request"
                           /\ m.id = j /\ (m.flag <=> g)
  BY ValuesOK
<1>5. AtAssess /\ ~Raises("measure", link)
  BY AliceUpParts DEF AssessVerifies, Tasks
<1>6. Msg("verify_request", ids + 1, guard = "verified") = m
  BY <1>2, <1>3, <1>4 DEF Msg
<1>7. /\ dual' = [dual EXCEPT !["alice"] = NewDual(j, guard = "verified")]
      /\ gate' = [gate EXCEPT !["alice"] = "VERIFYING"]
      /\ asked' = [id |-> j, recovery |-> guard = "verified"]
      /\ UNCHANGED <<conn, resume, guard, reader, approved, recovered, cmd>>
      /\ Sends("measure", "request", m, link) /\ Assessed
  BY <1>3, <1>5, <1>6, Zenon DEF AssessVerifies, BeginVerification, TaskStep
<1>8. /\ task'["measure"] = "request" /\ gate'["alice"] = "VERIFYING"
      /\ dual'["alice"] = NewDual(j, guard = "verified")
      /\ link' = Put(link, "alice", conn["alice"], m)
  BY <1>7, AliceUpParts DEF Sends, Goto, TaskOK, Tasks, CoreOK, Role
<1>9. /\ dual'["alice"].id = j /\ dual'["alice"].ready = "waiting"
      /\ \A r \in Role : dual'["alice"].decisions[r] = "none"
      /\ NewDual(j, guard = "verified") # NoDual
  BY <1>3, <1>8 DEF NewDual, NoDual
<1>10. dual["alice"] = NoDual /\ task["measure"] \in {"assess", "pong"} /\ approved = 0
  BY <1>5 DEF AliceUp, AsksOK, AtAssess, Responding, AliceStands, Resuming
<1>11. /\ cmd["alice"].pc # "deciding" /\ reader["alice"].pc # "lock"
  BY <1>10 DEF AliceUp, Firm, AliceHeard
<1>12. ping # "sent" /\ ping' # "sent" /\ Ended(ToAlice(conn["alice"]))
  BY <1>5, <1>7, <1>10 DEF AtAssess, Assessed, AliceUp, AliceStands, AliceHeard
<1>13. /\ task["measure"] = "pong" => guard = "verified"
       /\ task["measure"] = "assess" => guard # "verified"
  BY DEF AliceUp, AliceStands, Going
<1>14. Utters(m)
  BY <1>1, <1>7, <1>8, <1>10 DEF Utters, On
<1>15. /\ Up("bob", conn["alice"]) =>
              ToBob(conn["alice"])' = Append(ToBob(conn["alice"]), m)
       /\ ToAlice(conn["alice"])' = ToAlice(conn["alice"]) /\ ~Approves
  BY <1>14, UttersWires
<1>16. ~Got' /\ ~Answered("alice")'
  BY <1>1, <1>9, <1>11 DEF Got, Answered, Role
<1>17. AliceStands'
  BY <1>3, <1>7, <1>8, <1>9, <1>10, <1>12 DEF AliceStands, Going, Resuming
<1>18. AliceHeard'
  BY <1>1, <1>7, <1>11, <1>12, <1>15 DEF AliceHeard
<1>19. ASSUME Up("bob", conn["alice"]),
              NEW n \in Frames, NEW t \in Frames, NEW i \in 0 .. MaxIds, NEW f \in BOOLEAN,
              Line(n, t, i, f)
       PROVE  Advances(n, t, i, f)
  <2>1. /\ AliceAt(t, i, f)
        /\ Said(ToBob(conn["alice"]), n, t, i, f) /\ Len(ToBob(conn["alice"])) = t - n
        /\ Sound(ToBob(conn["alice"]), n, t, i) /\ ToBob(conn["alice"]) \in Seq(Message)
    BY <1>10, <1>19, AliceUpParts DEF Line, On
  <2>2. t = 0 /\ (f <=> g)
    BY <1>2, <1>10, <1>12, <1>13, <2>1 DEF AliceAt, Asking, Going
  <2>3. PICK p \in 0 .. 3, q \in Frames : p = 0 /\ q = p + 1 /\ q = 1 /\ p \in Frames /\ q \in 0 .. 1
    BY DEF Frames
  <2>4. n = p /\ t = p
    BY <2>1, <2>2, <2>3 DEF Said, Frames
  <2>5. Said(ToBob(conn["alice"]), p, p, i, f) /\ p - p = 0
    BY <2>1, <2>3, <2>4
  <2>6. Said(ToBob(conn["alice"]), p, p, j, f)
    BY <2>1, <2>3, <2>5, SaidNone
  <2>7. Sound(ToBob(conn["alice"]), p, p, j) /\ Len(ToBob(conn["alice"])) = p - p
        /\ ~(p = 2 /\ j # 0 /\ p < 3) /\ ~(p = 1 /\ j # 0 /\ Matches("alice")')
    BY <2>1, <2>3, <2>4 DEF Sound
  <2>8. Frame(m, q, j, f) /\ AliceAt(q, j, f)'
    <3>1. f = (guard = "verified")
      BY <1>2, <2>2
    <3>2. asked' = [id |-> j, recovery |-> f]
      BY <1>7, <3>1, Zenon
    <3>3. Asking(j, f)'
      BY <1>3, <1>8, <1>9, <3>2 DEF Asking
    <3>4. AliceAt(q, j, f)'
      BY <1>16, <2>3, <3>3 DEF AliceAt
    <3>5. m.flag = f
      BY <1>4, <2>2 DEF Message
    <3> QED BY <1>3, <1>4, <2>3, <3>4, <3>5 DEF Frame
  <2>9. Hears(ToAlice(conn["alice"]), p, q, j, f)'
    BY <1>3, <1>12, <1>15, <1>16, <2>3 DEF Hears
  <2>10. Line(p, q, j, f)'
    BY <1>14, <1>19, <2>3, <2>6, <2>7, <2>8, <2>9, LineSaysTo
  <2>11. Line(0, q, j, f)'
    BY <2>3, <2>10
  <2>12. Advances(0, 0, i, f)
    BY <1>1, <2>3, <2>11, AdvanceAnew
  <2> QED BY <2>3, <2>4, <2>12
<1>20. Advancing
  BY <1>15, <1>19 DEF Advancing
<1> QED BY <1>7, <1>17, <1>18, <1>20 DEF GoesOn

-------------------------------------------------------------------------------
(* An assessment concludes: the session opens, or she says that she is ready. *)
LEMMA ConcludeOn ==
  ASSUME AliceUp, OfAlice, Conclude
  PROVE  GoesOn
<1>1. BobStands /\ sessions' = sessions /\ reader'["alice"] = reader["alice"]
      /\ cmd'["alice"] = cmd["alice"]
  BY MeasureStands DEF MeasureStep, AliceUp
<1>2. /\ task["measure"] = "conclude" /\ gate["alice"] = "VERIFYING" /\ guard = "verified"
      /\ ping # "sent" /\ dual["alice"] = NoDual
  BY DEF Conclude, AliceUp, AliceStands, AsksOK, Responding, Resuming, Going
<1>3. Concludes /\ UNCHANGED <<reader, asked, approved, ping, recovered, cmd, conn>>
  BY DEF Conclude, Concludes, TaskStep
<1>4. CASE approved = 0
  <2>1. task'["measure"] = "loop" /\ gate'["alice"] = "ACTIVE"
        /\ UNCHANGED <<link, dual, resume, guard>>
    BY <1>2, <1>3, <1>4, AliceUpParts DEF Concludes, Goto, TaskOK, Tasks, CoreOK, Role
  <2>2. AliceStands'
    BY <1>2, <1>3, <1>4, <2>1 DEF AliceStands, Going, Resuming
  <2>3. ASSUME NEW t \in Frames, NEW i \in 0 .. MaxIds, NEW f \in BOOLEAN, AliceAt(t, i, f)
        PROVE  AliceAt(t, i, f)'
    BY <1>2, <1>4, <2>1, <2>3 DEF AliceAt, Asking, Going
  <2>4. ToBob(conn["alice"])' = ToBob(conn["alice"]) /\ ToAlice(conn["alice"])' = ToAlice(conn["alice"])
    BY <1>3, <2>1 DEF ToBob, ToAlice
  <2> QED BY <1>1, <1>2, <1>3, <2>1, <2>2, <2>3, <2>4, SilentOn DEF AliceUp, On
<1>5. CASE approved # 0
  <2>1. PICK m \in Message : m = Notice("ready") /\ m.type = "ready"
    BY ValuesOK
  <2>2. /\ task'["measure"] = "resume" /\ link' = Put(link, "alice", conn["alice"], m)
        /\ UNCHANGED <<gate, dual, resume, guard>>
    BY <1>2, <1>3, <1>5, <2>1, AliceUpParts DEF Concludes, Sends, Goto, TaskOK, Tasks, Role
  <2>3. Utters(m)
    BY <1>1, <1>2, <1>3, <2>2 DEF Utters, On
  <2>4. ToAlice(conn["alice"])' = ToAlice(conn["alice"])
    BY <2>3, UttersWires
  <2>5. AliceStands'
    BY <1>2, <1>3, <2>2 DEF AliceStands, Going, Resuming
  <2>6. AliceHeard'
    BY <1>1, <1>2, <1>3, <2>2, <2>4, HeardStays DEF AliceUp
  <2>7. ASSUME NEW n \in Frames, NEW t \in Frames, NEW i \in 0 .. MaxIds, NEW f \in BOOLEAN,
               Line(n, t, i, f)
        PROVE  /\ t \in 0 .. 3 /\ Frame(m, t + 1, i, f) /\ AliceAt(t + 1, i, f)'
               /\ t = 2 /\ i # 0 /\ n < 3 =>
                    n >= 1 /\ Reply(ToBob(conn["alice"]), n) /\ Matches("bob")
               /\ t = 1 /\ i # 0 /\ Matches("alice")' => m.flag
               /\ Hears(ToAlice(conn["alice"]), n, t + 1, i, f)'
    <3>1. AliceAt(t, i, f) /\ Hears(ToAlice(conn["alice"]), n, t, i, f)
      BY <2>7 DEF Line
    <3>2. t = 2 /\ i = 0 /\ ~f /\ recovered # "waiting"
      BY <1>2, <1>5, <3>1 DEF AliceAt, Asking, Going
    <3>3. Ended(ToAlice(conn["alice"])) /\ t + 1 = 3
      BY <3>1, <3>2 DEF Hears
    <3> QED BY <2>1, <2>2, <2>4, <3>2, <3>3 DEF Frame, AliceAt, Hears
  <2> QED BY <2>3, <2>5, <2>6, <2>7, UttersOn
<1> QED BY <1>4, <1>5

-------------------------------------------------------------------------------
(* Her result is sent.                                                        *)
LEMMA ResultOn ==
  ASSUME AliceUp, OfAlice, ResultSent
  PROVE  GoesOn
<1>1. BobStands /\ sessions' = sessions /\ reader'["alice"] = reader["alice"]
      /\ cmd'["alice"] = cmd["alice"]
  BY MeasureStands DEF MeasureStep, AliceUp
<1>2. /\ task["measure"] = "result" /\ gate["alice"] = "VERIFYING" /\ ping # "sent"
      /\ dual["alice"].id = asked.id /\ asked.id # 0 /\ dual["alice"].ready = "yes"
      /\ approved = 0
  BY DEF ResultSent, AliceUp, AliceStands, Resuming, Going
<1>3. /\ \A r \in Role : dual["alice"].decisions[r] = "MATCH"
      /\ Got /\ Ended(ToAlice(conn["alice"])) /\ reader["alice"].pc # "lock"
  <2>1. \A r \in Role : dual["alice"].decisions[r] = "MATCH"
    BY <1>2 DEF AliceUp, Firm
  <2>2. Got
    BY <2>1 DEF Got, Role
  <2> QED BY <1>2, <2>1, <2>2 DEF AliceUp, AliceHeard, Role
<1>4. UNCHANGED <<reader, ping, recovered, cmd, gate, conn, resume>>
  BY AliceUpParts DEF ResultSent, TaskStep, Tasks
<1>5. CASE ~asked.recovery
  <2>1. /\ task'["measure"] = "conclude" /\ dual'["alice"] = NoDual /\ guard' = "verified"
        /\ link' = link /\ approved' = 0
    BY <1>2, <1>5, AliceUpParts DEF ResultSent, Goto, TaskOK, Tasks, CoreOK, Role
  <2>2. AliceStands'
    BY <1>2, <1>4, <2>1 DEF AliceStands, Going, Resuming
  <2>3. ToBob(conn["alice"])' = ToBob(conn["alice"]) /\ ToAlice(conn["alice"])' = ToAlice(conn["alice"])
    BY <1>4, <2>1 DEF ToBob, ToAlice
  <2>4. AliceHeard'
    BY <1>3, <1>4, <2>3 DEF AliceHeard
  <2>5. ASSUME NEW n \in Frames, NEW t \in Frames, NEW i \in 0 .. MaxIds, NEW f \in BOOLEAN,
               Line(n, t, i, f)
        PROVE  Advances(n, t, i, f)
    <3>1. AliceAt(t, i, f)
      BY <2>5 DEF Line
    <3>2. t = 3 /\ i # 0 /\ asked = [id |-> i, recovery |-> f]
      BY <1>2, <3>1 DEF AliceAt, Asking, Going
    <3>3. AliceAt(t, i, f)' /\ On' /\ On
      BY <1>2, <1>5, <2>1, <3>2 DEF AliceAt, On
    <3>4. Line(n, t, i, f)'
      BY <1>1, <1>4, <2>3, <2>5, <3>2, <3>3, LineStays
    <3> QED BY <1>1, <2>5, <3>4, AdvanceTo
  <2>6. ~Approves
    BY <1>2 DEF Approves
  <2>7. Advancing
    BY <2>3, <2>5, <2>6 DEF Advancing
  <2> QED BY <1>4, <2>2, <2>4, <2>7 DEF GoesOn
<1>6. CASE asked.recovery
  <2>1. PICK m \in Message : m = Notice("reconnect") /\ m.type = "reconnect"
    BY ValuesOK
  <2>2. /\ task'["measure"] = "notice" /\ link' = Put(link, "alice", conn["alice"], m)
        /\ UNCHANGED <<dual, guard, asked>> /\ approved' = asked.id
    BY <1>2, <1>6, <2>1, AliceUpParts DEF ResultSent, Sends, Goto, TaskOK, Tasks
  <2>3. Utters(m)
    BY <1>1, <1>2, <1>4, <2>2 DEF Utters, On
  <2>4. ToAlice(conn["alice"])' = ToAlice(conn["alice"])
    BY <2>3, UttersWires
  <2>5. AliceStands'
    BY <1>2, <1>4, <2>2 DEF AliceStands, Going, Resuming
  <2>6. AliceHeard'
    BY <1>3, <1>4, <2>4 DEF AliceHeard
  <2>7. ASSUME NEW n \in Frames, NEW t \in Frames, NEW i \in 0 .. MaxIds, NEW f \in BOOLEAN,
               Line(n, t, i, f)
        PROVE  /\ t \in 0 .. 3 /\ Frame(m, t + 1, i, f) /\ AliceAt(t + 1, i, f)'
               /\ t = 2 /\ i # 0 /\ n < 3 =>
                    n >= 1 /\ Reply(ToBob(conn["alice"]), n) /\ Matches("bob")
               /\ t = 1 /\ i # 0 /\ Matches("alice")' => m.flag
               /\ Hears(ToAlice(conn["alice"]), n, t + 1, i, f)'
    <3>1. AliceAt(t, i, f)
      BY <2>7 DEF Line
    <3>2. t = 3 /\ i # 0 /\ asked = [id |-> i, recovery |-> f] /\ t + 1 = 4
      BY <1>2, <3>1 DEF AliceAt, Asking, Going
    <3>3. f
      BY <1>6, <3>2
    <3> QED BY <1>3, <2>1, <2>2, <2>4, <3>2, <3>3 DEF Frame, AliceAt, Hears
  <2> QED BY <2>3, <2>5, <2>6, <2>7, UttersOn
<1> QED BY <1>5, <1>6

-------------------------------------------------------------------------------
(* A recovery ends: Bob is ready, and the gate opens once she has told him    *)
(* that she is.                                                               *)
LEMMA RecoveredOn ==
  ASSUME AliceUp, OfAlice, Recovered("measure")
  PROVE  GoesOn
<1>1. /\ task["measure"] = "confirm" /\ gate["alice"] = "VERIFYING" /\ guard = "verified"
      /\ ping # "sent" /\ approved # 0
  BY DEF Recovered, AliceUp, AliceStands, Recovers, Resuming, Going
<1>2. /\ recovered = "done" /\ recovered' = "none" /\ task'["measure"] = "conclude"
      /\ UNCHANGED <<gate, conn, link, dual, resume, guard, reader, cmd, ping, approved>>
  BY AliceUpParts DEF Recovered, Goto, TaskOK, Tasks, TaskStep, core
<1>3. BobStands /\ sessions' = sessions
  BY <1>2 DEF BobStands, OfAlice, bounds
<1>4. AliceStands'
  BY <1>1, <1>2 DEF AliceStands, Going, Resuming
<1>5. ASSUME NEW t \in Frames, NEW i \in 0 .. MaxIds, NEW f \in BOOLEAN, AliceAt(t, i, f)
      PROVE  AliceAt(t, i, f)'
  BY <1>1, <1>2, <1>5 DEF AliceAt, Asking, Going
<1>6. ToBob(conn["alice"])' = ToBob(conn["alice"]) /\ ToAlice(conn["alice"])' = ToAlice(conn["alice"])
  BY <1>2 DEF ToBob, ToAlice
<1> QED BY <1>1, <1>2, <1>3, <1>4, <1>5, <1>6, SilentOn DEF AliceUp, On

(* She is ready: the gate is open again.                                      *)
LEMMA ResumedOn ==
  ASSUME AliceUp, OfAlice, Resumed("measure")
  PROVE  GoesOn
<1>1. /\ task["measure"] = "resume" /\ gate["alice"] = "VERIFYING" /\ guard = "verified"
      /\ ping # "sent"
  BY DEF Resumed, AliceUp, AliceStands, Resuming, Going
<1>2. /\ task'["measure"] = "loop" /\ gate'["alice"] = "ACTIVE" /\ approved' = 0
      /\ UNCHANGED <<conn, link, dual, resume, guard, reader, cmd, ping, recovered, asked>>
      /\ gate' = [gate EXCEPT !["alice"] = "ACTIVE"]
  BY AliceUpParts DEF Resumed, Goto, TaskOK, Tasks, TaskStep, CoreOK, Role
<1>3. BobStands /\ sessions' = sessions
  BY <1>2, AliceUpParts DEF BobStands, OfAlice, bounds, CoreOK, Role
<1>4. AliceStands'
  BY <1>1, <1>2 DEF AliceStands, Going, Resuming
<1>5. ASSUME NEW t \in Frames, NEW i \in 0 .. MaxIds, NEW f \in BOOLEAN, AliceAt(t, i, f)
      PROVE  AliceAt(t, i, f)'
  BY <1>1, <1>2, <1>5 DEF AliceAt, Asking, Going
<1>6. ToBob(conn["alice"])' = ToBob(conn["alice"]) /\ ToAlice(conn["alice"])' = ToAlice(conn["alice"])
  BY <1>2 DEF ToBob, ToAlice
<1> QED BY <1>1, <1>2, <1>3, <1>4, <1>5, <1>6, SilentOn DEF AliceUp, On

(* Every step of measure_loop and of recover goes on or closes her end.       *)
LEMMA MeasureOn ==
  ASSUME AliceUp, OfAlice, MeasureStep \/ RecoveryStep("measure")
  PROVE  GoesOn
<1>1. conn["alice"] \in Refs /\ link \in Links /\ "alice" \in Role
  BY AliceUpParts DEF CoreOK, Role
<1>2. ~(link' = Shut(link, "alice", conn["alice"]) /\ conn' = conn)
  <2>1. conn["alice"] \in Conns /\ Up("alice", conn["alice"])'
    BY <1>1 DEF AliceUp, Up, Refs, Conns
  <2>2. Shut(link, "alice", conn["alice"])[conn["alice"]].up["alice"] = FALSE
    BY <1>1, <2>1, ShutElse
  <2> QED BY <2>1, <2>2 DEF Up
<1>3. "measure" \in Tasks
  BY DEF Tasks
<1>4. ~(GuardFailed \/ HeartbeatStops \/ AssessRotates \/ RespondTimesOut \/ RecoverBegins("measure"))
  BY <1>3, AliceUpParts
     DEF GuardFailed, HeartbeatStops, AssessRotates, RespondTimesOut, RecoverBegins
<1>5. ~NoticeSent
  BY <1>2, <1>3, AliceUpParts DEF NoticeSent
<1> QED BY <1>4, <1>5, WaitsOn, HeartbeatOn, ConcludeOn, KeepsOn, AssessOn, BothDecidedOn, ResultOn,
           RecoveredOn, ResumedOn DEF MeasureStep, RecoveryStep

-------------------------------------------------------------------------------
(* What her user does                                                         *)

(* A connection that stays up was not shut by this step.                      *)
LEMMA AliceStaysUp ==
  ASSUME AliceUp
  PROVE  /\ ~(link' = Shut(link, "alice", conn["alice"]) /\ conn'["alice"] = conn["alice"])
         /\ conn["alice"] \in Conns /\ "alice" \in Role /\ "bob" \in Role /\ EndpointOK
<1>1. link \in Links /\ conn["alice"] \in Conns /\ "alice" \in Role /\ "bob" \in Role
  BY AliceUpParts DEF AliceUp, CoreOK, Role, Up, Refs, Conns
<1>4. conn["alice"] \in Refs
  BY AliceUpParts DEF CoreOK, Role
<1>2. Shut(link, "alice", conn["alice"])[conn["alice"]].up["alice"] = FALSE
  BY <1>1, <1>4, ShutElse
<1>3. EndpointOK
  BY TypeParts DEF AliceUp, IType
<1> QED BY <1>1, <1>2, <1>3 DEF AliceUp, Up

(* The answer she clicks is the second frame of the script.                   *)
LEMMA ConfirmOn ==
  ASSUME AliceUp, Answers("alice")
  PROVE  GoesOn
<1>1. PICK id \in 1 .. ids, match \in BOOLEAN : Confirm("alice", id, match) /\ OfEither
  BY DEF Answers
<1>2. PICK m \in Message : /\ m = Msg("verify_response", id, match) /\ m.type = "verify_response"
                           /\ m.id = id /\ (m.flag <=> match)
  BY ValuesOK, AliceUpParts, EndpointAssumption DEF CountOK
<1>3. ~Restricts("alice", link)
  <2>1. "measure" \in Tasks /\ link \in Links
    BY AliceUpParts DEF Tasks
  <2> QED BY <2>1, AliceUpParts
<1>4. /\ dual["alice"] # NoDual /\ id = dual["alice"].id /\ dual["alice"].decisions["alice"] = "none"
      /\ cmd["alice"].pc = "idle" /\ gate["alice"] = "VERIFYING"
      /\ link' = Put(link, "alice", conn["alice"], m)
      /\ cmd' = [cmd EXCEPT !["alice"] = [pc |-> "deciding", conn |-> conn["alice"],
                                          id |-> id, match |-> match]]
      /\ UNCHANGED <<gate, conn, dual, resume, guard, reader>>
      /\ UNCHANGED <<task, asked, approved, ping, recovered>>
  BY <1>1, <1>2, <1>3 DEF Confirm, OfEither, aliceVars
<1>5. /\ cmd'["alice"].pc = "deciding" /\ cmd'["alice"].match = match /\ cmd'["bob"] = cmd["bob"]
  BY <1>4, AliceUpParts DEF CommandOK, Role
<1>6. BobStands /\ sessions' = sessions /\ OfAlice
  BY <1>1, <1>4, <1>5 DEF BobStands, OfEither, OfAlice, bounds
<1>7. task["measure"] \in {"request", "ready"} /\ ping # "sent"
  BY <1>4 DEF AliceUp, AsksOK, Responding, AliceStands, Firm, Role
<1>8. Utters(m)
  BY <1>4, <1>6, <1>7 DEF Utters, On
<1>9. ToAlice(conn["alice"])' = ToAlice(conn["alice"])
  BY <1>8, UttersWires
<1>10. AliceStands'
  BY <1>4 DEF AliceUp, AliceStands
<1>11. AliceHeard' /\ Got' = Got /\ GotMatch' = GotMatch
  BY <1>4, <1>9, HeardStays DEF AliceUp
<1>12. Answered("alice")' /\ ~Answered("alice") /\ (Matches("alice")' => m.flag)
  BY <1>2, <1>4, <1>5 DEF Answered, Matches
<1>13. ASSUME NEW n \in Frames, NEW t \in Frames, NEW i \in 0 .. MaxIds, NEW f \in BOOLEAN,
              Line(n, t, i, f)
       PROVE  /\ t \in 0 .. 3 /\ Frame(m, t + 1, i, f) /\ AliceAt(t + 1, i, f)'
              /\ t = 2 /\ i # 0 /\ n < 3 =>
                   n >= 1 /\ Reply(ToBob(conn["alice"]), n) /\ Matches("bob")
              /\ t = 1 /\ i # 0 /\ Matches("alice")' => m.flag
              /\ Hears(ToAlice(conn["alice"]), n, t + 1, i, f)'
  <2>1. AliceAt(t, i, f) /\ Hears(ToAlice(conn["alice"]), n, t, i, f)
    BY <1>13 DEF Line
  <2>2. t = 1 /\ i # 0 /\ Asking(i, f) /\ t + 1 = 2
    BY <1>7, <1>12, <2>1 DEF AliceAt, Asking, Going
  <2>3. AliceAt(t + 1, i, f)' /\ Frame(m, t + 1, i, f)
    BY <1>2, <1>4, <1>12, <2>2 DEF AliceAt, Asking, Frame
  <2>4. Matches("bob")' = Matches("bob") /\ Answered("bob")' = Answered("bob")
    BY <1>6, BobSame
  <2>5. Hears(ToAlice(conn["alice"]), n, t + 1, i, f)'
    BY <1>9, <1>11, <2>1, <2>2, <2>4 DEF Hears
  <2> QED BY <1>12, <2>2, <2>3, <2>5
<1> QED BY <1>8, <1>10, <1>11, <1>13, UttersOn

(* It counts locally too.                                                     *)
LEMMA DecideOn ==
  ASSUME AliceUp, Decide("alice") /\ OfEither
  PROVE  GoesOn
<1> DEFINE d == dual["alice"]
<1>1. ~Restricts("alice", link) /\ "alice" \in Role /\ d \in Dual /\ cmd["alice"].match \in BOOLEAN
  <2>1. "measure" \in Tasks /\ link \in Links
    BY AliceUpParts DEF Tasks
  <2>2. ~Restricts("alice", link)
    BY <2>1, AliceUpParts
  <2>3. "alice" \in Role
    BY DEF Role
  <2> QED BY <2>2, <2>3, AliceUpParts DEF CoreOK, CommandOK, Commands
<1>2. /\ cmd["alice"].pc = "deciding" /\ d # NoDual /\ cmd["alice"].id = d.id
      /\ d.decisions["alice"] = "none" /\ task["measure"] \in {"request", "ready"}
  BY <1>1 DEF Decide, AliceUp, Firm, Deciding, AsksOK, Responding
<1>3. /\ dual' = [dual EXCEPT !["alice"] = Decided(@, "alice", cmd["alice"].match)]
      /\ cmd' = [cmd EXCEPT !["alice"] = NoCommand]
      /\ UNCHANGED <<gate, conn, link, guard, reader, resume>>
      /\ UNCHANGED <<task, asked, approved, ping, recovered>>
  BY <1>1, <1>2 DEF Decide, OfEither, aliceVars
<1>4. /\ dual'["alice"] = Decided(d, "alice", cmd["alice"].match) /\ dual'["bob"] = dual["bob"]
      /\ cmd'["alice"] = NoCommand /\ cmd'["bob"] = cmd["bob"] /\ NoCommand.pc = "idle"
  BY <1>3, AliceUpParts DEF CommandOK, CoreOK, Role, NoCommand
<1>5. /\ dual'["alice"].id = d.id /\ dual'["alice"].decisions["bob"] = d.decisions["bob"]
      /\ dual'["alice"].decisions["alice"] = IF cmd["alice"].match THEN "MATCH" ELSE "other"
  <2>1. "bob" \in Role /\ "bob" # "alice"
    BY DEF Role
  <2> QED BY <1>1, <1>4, <2>1, DecidedOK
<1>6. dual'["alice"] # NoDual
  BY <1>1, <1>5 DEF NoDual, Role
<1>7. BobStands /\ sessions' = sessions
  BY <1>3, <1>4 DEF BobStands, OfEither, Decide, bounds
<1>8. Matches("alice")' = Matches("alice") /\ Answered("alice") /\ Answered("alice")'
  BY <1>2, <1>4, <1>5 DEF Matches, Answered
<1>9. Got' = Got /\ GotMatch' = GotMatch
  BY <1>3, <1>5 DEF Got, GotMatch
<1>10. ToBob(conn["alice"])' = ToBob(conn["alice"]) /\ ToAlice(conn["alice"])' = ToAlice(conn["alice"])
  BY <1>3 DEF ToBob, ToAlice
<1>11. AliceHeard'
  BY <1>2, <1>3, <1>5, <1>6, <1>9, <1>10 DEF AliceUp, AliceHeard
<1>12. AliceStands'
  BY <1>2, <1>3, <1>5 DEF AliceUp, AliceStands, Going, Resuming
<1>13. ASSUME NEW n \in Frames, NEW t \in Frames, NEW i \in 0 .. MaxIds, NEW f \in BOOLEAN,
              Line(n, t, i, f)
       PROVE  Advances(n, t, i, f)
  <2>1. AliceAt(t, i, f)
    BY <1>13 DEF Line
  <2>2. t \in {1, 2} /\ i # 0 /\ AliceAt(t, i, f)'
    BY <1>2, <1>3, <1>5, <1>8, <2>1 DEF AliceAt, Asking, Going
  <2>3. On' => On
    BY <1>3 DEF On
  <2>4. Line(n, t, i, f)'
    BY <1>7, <1>8, <1>9, <1>10, <1>13, <2>2, <2>3, LineStays
  <2> QED BY <1>7, <1>13, <2>4, AdvanceTo
<1>14. ~Approves
  BY <1>2 DEF Approves
<1>15. Advancing
  BY <1>10, <1>13, <1>14 DEF Advancing
<1> QED BY <1>3, <1>11, <1>12, <1>15 DEF GoesOn

-------------------------------------------------------------------------------
(* She leaves                                                                 *)

(* The notice that she leaves follows the script, wherever she is.            *)
LEMMA ShutdownOn ==
  ASSUME AliceUp, AliceStops, OfAlice
  PROVE  GoesOn
<1>1. /\ cmd["alice"].pc = "stopping" /\ task["measure"] = "off"
      /\ cmd' = [cmd EXCEPT !["alice"] = [NoCommand EXCEPT !.pc = "notice"]]
      /\ link' = IF CanControl("alice") THEN Put(link, "alice", conn["alice"], Notice("shutdown"))
                 ELSE link
      /\ UNCHANGED <<gate, conn, dual, resume, guard, reader>>
      /\ UNCHANGED <<task, asked, approved, ping, recovered>>
  BY DEF AliceStops, SendShutdown, AliceUp, IdleOK, Idle, Tasks, aliceVars
<1>2. cmd'["alice"].pc = "notice" /\ cmd'["bob"] = cmd["bob"]
  BY <1>1, AliceUpParts DEF CommandOK, Role, NoCommand
<1>3. BobStands /\ sessions' = sessions
  BY <1>1, <1>2 DEF BobStands, OfAlice, bounds
<1>4. AliceStands'
  BY <1>1 DEF AliceUp, AliceStands
<1>5. \A t, i, f : AliceAt(t, i, f) => AliceAt(t, i, f)' /\ t # 2
  BY <1>1 DEF AliceAt, Asking, Going
<1>6. ASSUME link' = link PROVE GoesOn
  <2>1. ToBob(conn["alice"])' = ToBob(conn["alice"]) /\ ToAlice(conn["alice"])' = ToAlice(conn["alice"])
    BY <1>1, <1>6 DEF ToBob, ToAlice
  <2> QED BY <1>1, <1>2, <1>3, <1>4, <1>5, <2>1, SilentOn DEF AliceUp, On
<1>7. ASSUME link' # link PROVE GoesOn
  <2>1. PICK m \in Message : m = Notice("shutdown") /\ m.type = "shutdown"
    BY ValuesOK
  <2>2. link' = Put(link, "alice", conn["alice"], m)
    BY <1>1, <1>7, <2>1
  <2>3. /\ Up("bob", conn["alice"]) => ToBob(conn["alice"])' = Append(ToBob(conn["alice"]), m)
        /\ ToAlice(conn["alice"])' = ToAlice(conn["alice"])
    BY <1>1, <2>2, AliceUpParts, AliceSends DEF AliceUp
  <2>4. AliceHeard' /\ Got' = Got /\ GotMatch' = GotMatch
    BY <1>1, <2>3, HeardStays DEF AliceUp
  <2>5. ASSUME Up("bob", conn["alice"]), NEW n \in Frames, NEW t \in Frames,
               NEW i \in 0 .. MaxIds, NEW f \in BOOLEAN, Line(n, t, i, f)
        PROVE  Advances(n, t, i, f)
    <3>1. PICK s \in Seq(Message) : s = ToBob(conn["alice"])
      BY AliceUpParts
    <3>2. /\ AliceAt(t, i, f)' /\ t # 2 /\ Said(s, n, t, i, f) /\ Sound(s, n, t, i)
          /\ Hears(ToAlice(conn["alice"]), n, t, i, f)
      BY <1>5, <2>5, <3>1 DEF Line
    <3>0. PICK u : u = Append(s, m)
      OBVIOUS
    <3>3. ToBob(conn["alice"])' = u
      BY <2>3, <2>5, <3>0, <3>1
    <3>4. Said(u, n, t, i, f)
      BY <2>1, <3>0, <3>2, SaidEnds
    <3>5. Sound(u, n, t, i)
      <4>1. ASSUME t >= 3 PROVE Reply(u, n) <=> Reply(s, n)
        <5>1. n < 2 => Len(s) >= 2 - n
          BY <3>2, <4>1, EmptySeq DEF Said, Frames
        <5> QED BY <3>0, <5>1, ReplyAppend
      <4> QED BY <3>2, <4>1 DEF Sound
    <3>6. Sound(u, n, t, i)'
      BY <1>3, <3>5, BobSame
    <3>7. Hears(ToAlice(conn["alice"]), n, t, i, f)'
      <4>1. Answered("bob")' = Answered("bob") /\ Matches("bob")' = Matches("bob")
        BY <1>3, BobSame
      <4> QED BY <1>1, <2>3, <2>4, <3>2, <4>1 DEF Hears
    <3>8. Line(n, t, i, f)'
      BY <1>1, <3>2, <3>3, <3>4, <3>6, <3>7 DEF Line, On, Said
    <3> QED BY <1>3, <3>8, AdvanceTo
  <2>6. ~Approves
    BY <1>1 DEF Approves
  <2> QED BY <1>1, <1>4, <2>3, <2>4, <2>5, <2>6 DEF GoesOn, Advancing
<1> QED BY <1>6, <1>7

(* disconnect cancels her tasks.                                              *)
LEMMA DisconnectOn ==
  ASSUME AliceUp, AliceDisconnectBegins, OfAlice
  PROVE  GoesOn
<1>1. link' # Shut(link, "alice", conn["alice"])
  BY AliceStaysUp DEF AliceDisconnectBegins
<1>2. ~Guarding /\ task["measure"] \notin {"ping", "demo", "resume", "proof"} /\ ~Responding
  BY <1>1 DEF AliceDisconnectBegins, Tasks, Guarding
<1>3. task["measure"] \in {"off", "loop", "sleep", "pong", "assess", "wait", "next"}
  <2>1. task["measure"] \in Places
    BY AliceUpParts DEF TaskOK, Tasks
  <2>2. task["measure"] \notin {"failed", "close", "establish"}
    BY AliceUpParts
  <2> QED BY <1>2, <2>1, <2>2 DEF Places, Guarding, Responding
<1>4. /\ task'["measure"] = "off" /\ cmd["alice"].pc = "idle" /\ link' = link
      /\ cmd' = [cmd EXCEPT !["alice"] = [NoCommand EXCEPT !.pc = "stopping"]]
      /\ UNCHANGED <<gate, conn, dual, resume, guard, reader, approved, ping>>
  BY <1>1, <1>2 DEF AliceDisconnectBegins, Tasks
<1>5. cmd'["alice"].pc = "stopping" /\ cmd'["bob"] = cmd["bob"]
  BY <1>4, AliceUpParts DEF CommandOK, Role, NoCommand
<1>6. BobStands /\ sessions' = sessions
  BY <1>4, <1>5 DEF BobStands, OfAlice, bounds
<1>7. AliceStands'
  BY <1>4 DEF AliceUp, AliceStands, Going, Resuming
<1>8. \A t, i, f : AliceAt(t, i, f) => AliceAt(t, i, f)'
  BY <1>3, <1>4 DEF AliceAt, Asking, Going
<1>9. ToBob(conn["alice"])' = ToBob(conn["alice"]) /\ ToAlice(conn["alice"])' = ToAlice(conn["alice"])
  BY <1>4 DEF ToBob, ToAlice
<1> QED BY <1>3, <1>4, <1>5, <1>6, <1>7, <1>8, <1>9, SilentOn DEF AliceUp, On

(* Her command comes to an end.                                               *)
LEMMA CommandEndsOn ==
  ASSUME AliceUp, cmd["alice"].pc # "deciding", cmd' = [cmd EXCEPT !["alice"] = NoCommand],
         UNCHANGED <<core, reader, aliceVars>>, sessions' = sessions
  PROVE  GoesOn
<1>1. /\ UNCHANGED <<gate, conn, link, dual, resume, guard, reader>>
      /\ UNCHANGED <<task, asked, approved, ping, recovered>>
  BY DEF core, aliceVars
<1>2. cmd'["alice"].pc = "idle" /\ cmd'["bob"] = cmd["bob"]
  BY AliceUpParts DEF CommandOK, Role, NoCommand
<1>3. BobStands
  BY <1>1, <1>2 DEF BobStands
<1>4. AliceStands'
  BY <1>1 DEF AliceUp, AliceStands
<1>5. \A t, i, f : AliceAt(t, i, f) => AliceAt(t, i, f)'
  BY <1>1, <1>2 DEF AliceAt, Asking, Answered
<1>6. ToBob(conn["alice"])' = ToBob(conn["alice"]) /\ ToAlice(conn["alice"])' = ToAlice(conn["alice"])
  BY <1>1 DEF ToBob, ToAlice
<1> QED BY <1>1, <1>2, <1>3, <1>4, <1>5, <1>6, SilentOn DEF AliceUp, On

-------------------------------------------------------------------------------
(* She hears what came for her                                                *)

(* A frame that she reads leaves her place; what she waits for is what comes. *)
LEMMA ReadOn ==
  ASSUME AliceUp, BobStands, sessions' = sessions, conn' = conn, UNCHANGED <<task, asked, approved>>,
         ToBob(conn["alice"])' = ToBob(conn["alice"]), AliceHeard', AliceStands',
         ToAlice(conn["alice"]) = <<>> =>
            ToAlice(conn["alice"])' = <<>> /\ recovered' = recovered,
         Matches("alice")' => Matches("alice"),
         \A n, t \in Frames, i \in 0 .. MaxIds, f \in BOOLEAN :
            AliceAt(t, i, f) /\ Hears(ToAlice(conn["alice"]), n, t, i, f) =>
               AliceAt(t, i, f)' /\ Hears(ToAlice(conn["alice"]), n, t, i, f)'
  PROVE  GoesOn
<1>1. ASSUME NEW n \in Frames, NEW t \in Frames, NEW i \in 0 .. MaxIds, NEW f \in BOOLEAN,
             Line(n, t, i, f)
      PROVE  Advances(n, t, i, f)
  <2>1. PICK s : s = ToBob(conn["alice"])
    OBVIOUS
  <2>2. /\ AliceAt(t, i, f)' /\ Said(s, n, t, i, f) /\ Sound(s, n, t, i) /\ (On => Len(s) = t - n)
        /\ t = 2 /\ i # 0 /\ Matches("alice") => Reply(s, n)
        /\ Hears(ToAlice(conn["alice"]), n, t, i, f)'
    BY <1>1, <2>1 DEF Line
  <2>3. Sound(s, n, t, i)' /\ (Reply(s, n)' <=> Reply(s, n))
    BY <2>2, BobSame
  <2>4. On' => On
    BY DEF On
  <2>5. ToBob(conn["alice"])' = s
    BY <2>1
  <2>6. Line(n, t, i, f)'
    BY <2>2, <2>3, <2>4, <2>5 DEF Line, Said
  <2> QED BY <2>6, AdvanceTo
<1>2. Approves /\ ToAlice(conn["alice"]) = <<>> => Approves'
  BY DEF Approves
<1> QED BY <1>1, <1>2 DEF GoesOn, Advancing

(* Bob's answer counts, or waits for her own to be sent.                      *)
LEMMA AnswerHeard ==
  ASSUME AliceUp, AliceReads, OfAlice, NEW m \in Message, NEW l \in Links, m.type = "verify_response",
         l[conn["alice"]].wire["bob"] = ToBob(conn["alice"]),
         Ended(l[conn["alice"]].wire["alice"]), m.id = dual["alice"].id,
         dual["alice"] # NoDual, dual["alice"].decisions["bob"] = "none",
         AliceHandle(m, l) \/ (Postpones("alice", l) /\ reader'["alice"].pc = "lock"
                                 /\ reader'["alice"].msg = m /\ UNCHANGED <<ping, recovered>>),
         \/ reader["alice"].pc # "lock" /\ Head(ToAlice(conn["alice"])) = m
            /\ ToAlice(conn["alice"]) # <<>>
         \/ reader["alice"].pc = "lock" /\ reader["alice"].msg = m /\ l = link
  PROVE  GoesOn
<1> DEFINE d == dual["alice"]
           w == ToAlice(conn["alice"])
<1>1. /\ UNCHANGED <<cmd, task, asked, approved>> /\ sessions' = sessions
      /\ Still("bob") /\ BobStands
  <2>1. OwnStep("alice")
    BY DEF OwnStep, Reads
  <2>2. "alice" \in Role /\ "bob" \in Role \ {"alice"}
    BY DEF Role
  <2>3. Still("bob")
    BY <2>1, <2>2, OwnStepStill DEF AliceUp, IType
  <2> QED BY <2>3 DEF Still, CoreStill, RestStill, BobStands, OfAlice, bounds, AliceReads,
                      AliceReceives, AliceGetsLock
<1>2. /\ link' = l /\ UNCHANGED <<gate, conn, resume, guard>> /\ UNCHANGED <<ping, recovered>>
      /\ \/ /\ dual' = [dual EXCEPT !["alice"] = Decided(d, "bob", m.flag)]
            /\ ReaderLoops("alice")
         \/ dual' = dual /\ reader'["alice"].pc = "lock" /\ reader'["alice"].msg = m
  BY DEF AliceHandle, HandleResponse, Postpones, Peer
<1>3. d \in Dual /\ "bob" \in Role /\ "alice" \in Role /\ m.flag \in BOOLEAN
  BY AliceUpParts DEF CoreOK, Role, Message
<1>0. ReaderLoops("alice") => reader'["alice"].pc # "lock"
  <2>1. reader["alice"].pc # "off" /\ ReaderOK
    BY TypeParts DEF AliceReads, AliceReceives, AliceGetsLock, AliceUp, IType, EndpointOK
  <2> QED BY <1>3, <2>1, ReaderLoopsMoves DEF Stopped, Moved
<1>4. /\ dual'["alice"].id = d.id /\ dual'["alice"].decisions["alice"] = d.decisions["alice"]
      /\ dual'["alice"] # NoDual /\ Got' /\ (GotMatch' => m.flag)
      /\ d.ready # "waiting" => dual'["alice"].ready = d.ready
  <2>1. CASE dual' = dual /\ reader'["alice"].pc = "lock" /\ reader'["alice"].msg = m
    BY <2>1 DEF Got, GotMatch
  <2>2. CASE dual' = [dual EXCEPT !["alice"] = Decided(d, "bob", m.flag)] /\ ReaderLoops("alice")
    <3>1. dual'["alice"] = Decided(d, "bob", m.flag)
      BY <2>2, AliceUpParts DEF CoreOK, Role
    <3>2. /\ dual'["alice"].id = d.id /\ dual'["alice"].decisions["alice"] = d.decisions["alice"]
          /\ dual'["alice"].decisions["bob"] = IF m.flag THEN "MATCH" ELSE "other"
          /\ d.ready # "waiting" => dual'["alice"].ready = d.ready
      BY <1>3, <3>1, DecidedOK
    <3>3. reader'["alice"].pc # "lock"
      BY <1>0, <2>2
    <3> QED BY <1>3, <3>2, <3>3 DEF Got, GotMatch, NoDual
  <2> QED BY <1>2, <2>1, <2>2
<1>5. ToBob(conn["alice"])' = ToBob(conn["alice"]) /\ ToAlice(conn["alice"])' = l[conn["alice"]].wire["alice"]
  BY <1>2 DEF ToBob, ToAlice
<1>6. AliceHeard'
  <2>1. reader'["alice"].pc = "lock" => reader'["alice"].msg = m /\ dual'["alice"] = d
    BY <1>0, <1>2
  <2> QED BY <1>2, <1>4, <1>5, <2>1 DEF AliceHeard
<1>7. AliceStands'
  <2>1. task["measure"] \in {"result", "notice"} => d.ready = "yes"
    BY DEF AliceUp, AliceStands
  <2> QED BY <1>1, <1>2, <1>4, <2>1 DEF AliceUp, AliceStands, Going, Resuming
<1>8. Matches("alice")' <=> Matches("alice")
  BY <1>1, <1>4 DEF Matches
<1>9. Answered("alice")' <=> Answered("alice")
  BY <1>1, <1>4 DEF Answered
<1>10. \A t, i, f : AliceAt(t, i, f) => AliceAt(t, i, f)'
  BY <1>1, <1>2, <1>4, <1>9 DEF AliceAt, Asking
<1>11. Matches("bob")' = Matches("bob") /\ Answered("bob")' = Answered("bob")
  BY <1>1, BobSame
<1>12. ASSUME NEW n, NEW t, NEW i, NEW f, Hears(w, n, t, i, f)
       PROVE  Hears(ToAlice(conn["alice"]), n, t, i, f)'
  <2>1. ASSUME reader["alice"].pc = "lock", reader["alice"].msg = m, l = link
        PROVE  Hears(ToAlice(conn["alice"]), n, t, i, f)'
    <3>1. Got /\ (GotMatch' => GotMatch)
      BY <1>4, <2>1 DEF Got, GotMatch
    <3>2. ToAlice(conn["alice"])' = w
      BY <1>5, <2>1 DEF ToAlice
    <3> QED BY <1>2, <1>4, <1>11, <1>12, <3>1, <3>2 DEF Hears
  <2>2. ASSUME reader["alice"].pc # "lock", Head(w) = m, w # <<>>
        PROVE  Hears(ToAlice(conn["alice"]), n, t, i, f)'
    <3>1. ~Ended(w) /\ (\A type, j : Brings(w, type, j) => type = "verify_response" /\ j = m.id)
      BY <2>2 DEF Ended, Brings
    <3>2. /\ t \in {1, 2} /\ i # 0 /\ n # 0 /\ Answered("bob")
          /\ (m.flag => Matches("bob"))
      BY <1>12, <2>2, <3>1 DEF Hears
    <3>3. Ended(ToAlice(conn["alice"])')
      BY <1>5
    <3> QED BY <1>4, <1>11, <3>2, <3>3 DEF Hears
  <2> QED BY <2>1, <2>2
<1>13. w = <<>> => ToAlice(conn["alice"])' = <<>> /\ recovered' = recovered
  BY <1>2, <1>5 DEF ToAlice
<1> QED BY <1>1, <1>2, <1>5, <1>6, <1>7, <1>8, <1>10, <1>12, <1>13, ReadOn

(* Another frame that she waits for.                                          *)
LEMMA NoticeHeard ==
  ASSUME AliceUp, AliceReads, OfAlice, NEW m \in Message, NEW l \in Links,
         m.type \in {"ready", "pong"}, Head(ToAlice(conn["alice"])) = m,
         ToAlice(conn["alice"]) # <<>>, l[conn["alice"]].wire["bob"] = ToBob(conn["alice"]),
         Ended(l[conn["alice"]].wire["alice"]), AliceHears(m, l), reader["alice"].pc = "recv"
  PROVE  GoesOn
<1> DEFINE w == ToAlice(conn["alice"])
<1>1. /\ UNCHANGED <<cmd, task, asked, approved>> /\ sessions' = sessions /\ BobStands
  <2>1. OwnStep("alice")
    BY DEF OwnStep, Reads
  <2>2. "alice" \in Role /\ "bob" \in Role \ {"alice"}
    BY DEF Role
  <2>3. Still("bob")
    BY <2>1, <2>2, OwnStepStill DEF AliceUp, IType
  <2> QED BY <2>3 DEF Still, CoreStill, RestStill, BobStands, OfAlice, bounds, AliceReads,
                      AliceReceives, AliceGetsLock
<1>2. /\ link' = l /\ UNCHANGED <<gate, conn, dual, resume, guard>> /\ ReaderLoops("alice")
      /\ \/ m.type = "ready" /\ recovered' = "done" /\ ping' = ping
         \/ m.type = "pong" /\ ping' = "done" /\ recovered' = recovered
  BY DEF AliceHears
<1>3. reader'["alice"].pc # "lock"
  <2>1. "alice" \in Role /\ ReaderOK
    BY TypeParts DEF AliceUp, IType, EndpointOK, Role
  <2> QED BY <1>2, <2>1, ReaderLoopsMoves DEF Stopped, Moved
<1>4. ToBob(conn["alice"])' = ToBob(conn["alice"]) /\ ToAlice(conn["alice"])' = l[conn["alice"]].wire["alice"]
  BY <1>2 DEF ToBob, ToAlice
<1>5. AliceHeard'
  BY <1>2, <1>3, <1>4 DEF AliceHeard
<1>6. AliceStands'
  BY <1>1, <1>2 DEF AliceUp, AliceStands
<1>7. Matches("alice")' <=> Matches("alice")
  BY <1>1, <1>2 DEF Matches
<1>8. ~Ended(w) /\ (\A type, j : Brings(w, type, j) => type = m.type)
  BY DEF Ended, Brings
<1>9. ASSUME NEW n, NEW t \in Frames, NEW i, NEW f, AliceAt(t, i, f), Hears(w, n, t, i, f)
      PROVE  AliceAt(t, i, f)' /\ Hears(ToAlice(conn["alice"]), n, t, i, f)'
  <2>1. \/ t = 2 /\ i = 0 /\ m.type = "ready"
        \/ t = 0 /\ f /\ m.type = "pong"
    BY <1>8, <1>9 DEF Hears
  <2>2. Ended(ToAlice(conn["alice"])')
    BY <1>4
  <2>3. Hears(ToAlice(conn["alice"]), n, t, i, f)'
    BY <1>2, <2>1, <2>2 DEF Hears
  <2>4. AliceAt(t, i, f)'
    BY <1>1, <1>2, <1>9, <2>1 DEF AliceAt, Asking
  <2> QED BY <2>3, <2>4
<1> QED BY <1>1, <1>2, <1>4, <1>5, <1>6, <1>7, <1>9, ReadOn

(* Her reader does nothing else while her end stays open.                     *)
LEMMA ReadsOn ==
  ASSUME AliceUp, AliceReads, OfAlice
  PROVE  GoesOn
<1> DEFINE w == ToAlice(conn["alice"])
           d == dual["alice"]
<1>1. "measure" \in Tasks /\ link \in Links /\ conn["alice"] \in Conns /\ "alice" \in Role /\ "bob" \in Role
      /\ w \in Seq(Message)
  BY AliceUpParts, AliceStaysUp DEF Tasks
<1>2. reader["alice"].conn = conn["alice"]
  BY DEF AliceUp, Slots, AliceReads, AliceReceives, AliceGetsLock
<1>3. ASSUME AliceReceives PROVE GoesOn
  <2>1. PICK m : m = Head(w)
    OBVIOUS
  <2>2. PICK l : l = Take(link, "alice", conn["alice"])
    OBVIOUS
  <2>3. /\ reader["alice"].pc = "recv" /\ w # <<>>
        /\ IF m.type \in VerifyTypes /\ ~LockFree("alice")
           THEN /\ link' = l
                /\ reader' = [reader EXCEPT !["alice"].pc = "lock", !["alice"].msg = m]
                /\ UNCHANGED <<gate, conn, dual, resume, guard, ping, recovered, hist>>
           ELSE AliceHandle(m, l)
    BY <1>2, <1>3, <2>1, <2>2 DEF AliceReceives, ToAlice
  <2>4. /\ l \in Links /\ m \in Message /\ l[conn["alice"]].wire["bob"] = ToBob(conn["alice"])
        /\ l[conn["alice"]].wire["alice"] = Tail(w)
    BY <1>1, <2>1, <2>2, <2>3, TakeElse, TakeOK DEF ToAlice, ToBob, Role
  <2>5. m.type # "shutdown"
    <3>1. ASSUME m.type = "shutdown" PROVE FALSE
      <4>1. Restricts("alice", l)
        BY <2>3, <3>1 DEF VerifyTypes, AliceHandle, HandleShutdown
      <4> QED BY <1>1, <2>4, <4>1, AliceUpParts
    <3> QED BY <3>1
  <2>6. /\ Ended(Tail(w))
        /\ \/ m.type = "verify_response" /\ m.id = d.id /\ d # NoDual /\ ~Got
           \/ m.type = "pong" /\ ping = "sent"
           \/ m.type = "ready" /\ recovered = "waiting"
    BY <2>1, <2>3, <2>5 DEF AliceUp, AliceHeard, Ended, Brings
  <2>7. ASSUME m.type = "verify_response" PROVE GoesOn
    <3>1. m.id = d.id /\ d # NoDual /\ d.decisions["bob"] = "none"
      BY <2>6, <2>7 DEF Got
    <3>2. \/ AliceHandle(m, l)
          \/ /\ Postpones("alice", l) /\ reader'["alice"].pc = "lock"
             /\ reader'["alice"].msg = m /\ UNCHANGED <<ping, recovered>>
      <4>1. ReaderOK
        BY TypeParts DEF AliceUp, IType, EndpointOK
      <4>2. ASSUME reader' = [reader EXCEPT !["alice"].pc = "lock", !["alice"].msg = m]
            PROVE  /\ reader'["alice"].pc = "lock" /\ reader'["alice"].msg = m
                   /\ \E k : reader' = [reader EXCEPT !["alice"].pc = "lock", !["alice"].msg = k]
        <5>1. reader["alice"] \in Readers
          BY <1>1, <4>1 DEF ReaderOK
        <5> QED BY <1>1, <4>1, <4>2, <5>1 DEF ReaderOK, Readers
      <4> QED BY <2>3, <4>2 DEF Postpones
    <3> QED BY <2>1, <2>3, <2>4, <2>6, <2>7, <3>1, <3>2, AnswerHeard
  <2>8. ASSUME m.type \in {"ready", "pong"} PROVE GoesOn
    <3>1. AliceHandle(m, l)
      BY <2>3, <2>8 DEF VerifyTypes
    <3>2. AliceHears(m, l)
      BY <2>6, <2>8, <3>1 DEF AliceHandle, AliceHears
    <3> QED BY <2>1, <2>3, <2>4, <2>6, <2>8, <3>2, NoticeHeard
  <2> QED BY <2>6, <2>7, <2>8
<1>4. ASSUME AliceGetsLock PROVE GoesOn
  <2>1. PICK m : m = reader["alice"].msg
    OBVIOUS
  <2>2. reader["alice"].pc = "lock" /\ AliceHandle(m, link)
    BY <1>4, <2>1 DEF AliceGetsLock
  <2>3. /\ m.type = "verify_response" /\ m.id = d.id /\ d # NoDual
        /\ d.decisions["bob"] = "none" /\ Ended(w)
    BY <2>1, <2>2 DEF AliceUp, AliceHeard
  <2>4. m \in Message
    BY <2>1, TypeParts, <1>1 DEF AliceUp, IType, EndpointOK, ReaderOK, Readers
  <2>5. link[conn["alice"]].wire["bob"] = ToBob(conn["alice"]) /\ link[conn["alice"]].wire["alice"] = w
    BY DEF ToBob, ToAlice
  <2> QED BY <1>1, <2>1, <2>2, <2>3, <2>4, <2>5, AnswerHeard
<1> QED BY <1>3, <1>4 DEF AliceReads

-------------------------------------------------------------------------------
(* Every step of hers while her end is open and stays open                    *)

(* A step of her runtime goes on with the script.                             *)
LEMMA OwnOn ==
  ASSUME AliceUp, OwnStep("alice")
  PROVE  GoesOn
<1>1. "measure" \in Tasks /\ link \in Links /\ ~Restricts("alice", link)
  BY AliceUpParts DEF Tasks
<1>2. conn' = conn
  BY OwnStepConn DEF AliceUp, IType, Role
<1>3. link' # Shut(link, "alice", conn["alice"])
  BY <1>2, AliceStaysUp
<1>4. reader["alice"].pc # "off" => reader["alice"].conn = conn["alice"]
  BY DEF AliceUp, Slots
<1>5. CASE Answers("alice")
  BY <1>5, ConfirmOn
<1>6. CASE CommandStep("alice")
  <2>1. ASSUME AliceStops, OfAlice PROVE GoesOn
    BY <2>1, ShutdownOn
  <2>2. ~AliceDisconnectEnds
    BY <1>3 DEF AliceDisconnectEnds, DisconnectEnds
  <2> QED BY <1>6, <2>1, <2>2, DecideOn DEF CommandStep
<1>7. CASE Reads("alice")
  <2>1. ~ReaderSeesClose("alice")
    BY <1>4 DEF ReaderSeesClose, AliceUp
  <2>2. ~ReaderSent("alice")
    BY DEF ReaderSent, AliceUp, Slots
  <2>3. ~EndOfStream("alice")
    BY <1>3, <1>4 DEF EndOfStream, LinkFails
  <2> QED BY <1>7, <2>1, <2>2, <2>3, ReadsOn DEF Reads
<1>8. CASE TabCloses("alice")
  <2>1. ~ConfirmAbandoned("alice")
    BY <1>3 DEF ConfirmAbandoned, AliceUp, Firm, Deciding
  <2>2. ~DisconnectAbandoned("alice")
    BY <1>3 DEF DisconnectAbandoned
  <2>3. StopAbandoned /\ OfAlice
    BY <1>8, <2>1, <2>2 DEF TabCloses
  <2> QED BY <2>3, CommandEndsOn DEF StopAbandoned, OfAlice, bounds
<1>9. CASE Timeouts("alice")
  BY <1>1, <1>9 DEF Timeouts, VerificationEnds
<1>10. CASE LinkFails("alice", conn["alice"])
  BY <1>3, <1>10 DEF LinkFails
<1> QED BY <1>5, <1>6, <1>7, <1>8, <1>9, <1>10 DEF OwnStep

(* So does every step of hers that keeps the connection.                      *)
LEMMA StepOn ==
  ASSUME AliceUp, MaxBursts = 0, AliceStep, ~Dialled
  PROVE  GoesOn
<1>1. "measure" \in Tasks /\ link \in Links /\ ~Restricts("alice", link)
  BY AliceUpParts DEF Tasks
<1>2. task["burst"] = "off" /\ task["measure"] # "establish"
  BY AliceUpParts DEF AliceUp, NoBurst
<1>3. CASE Connects
  <2>1. conn'["alice"] = 0
    BY <1>3, AliceUpParts DEF Connects, Connect, CoreOK, Role
  <2> QED BY <2>1 DEF AliceUp, Up
<1>4. ~Bursts
  BY TypeParts DEF Bursts, AliceUp, IType, BoundOK
<1>5. CASE DialFails
  <2>1. ConnectAbandoned /\ sessions' = sessions
    BY <1>1, <1>5 DEF DialFails, ConnectFails, bounds
  <2> QED BY <2>1, CommandEndsOn DEF ConnectAbandoned
<1>6. CASE Measures
  <2>1. ~Redialled("measure") /\ ~RedialFails("measure")
    BY <1>2 DEF Redialled, RedialFails, Reconnected, EstablishFails
  <2> QED BY <1>6, <2>1, MeasureOn DEF Measures
<1>7. ~Replaces
  BY <1>2 DEF Replaces, BurstStep, BurstNext, BurstReconnects, RecoveryStep, RecoverBegins,
      ProofSent,
              Recovered, Resumed, Redialled, RedialFails, Reconnected, EstablishFails
<1>8. CASE AliceDisconnectBegins /\ OfAlice
  BY <1>8, DisconnectOn
<1>9. CASE OwnStep("alice")
  BY <1>9, OwnOn
<1> QED BY <1>3, <1>4, <1>5, <1>6, <1>7, <1>8, <1>9 DEF AliceStep

-------------------------------------------------------------------------------
(* What she says, as Bob's runtime finds it                                   *)

(* A step of hers leaves his runtime alone.                                   *)
LEMMA AliceLeavesBob ==
  ASSUME IType, AliceStep
  PROVE  /\ BobStands /\ conn'["bob"] = conn["bob"] /\ sessions'["bob"] = sessions["bob"]
         /\ matched'["bob"] = matched["bob"]
         /\ UNCHANGED bobVars \/ \E c \in Conns : Established(c)
<1>1. Still("bob") /\ (UNCHANGED bobVars \/ \E c \in Conns : Established(c))
  BY AliceStepStill DEF IType
<1> QED BY <1>1 DEF Still, CoreStill, RestStill, BobStands

(* Before a step of hers that leaves her connection open, it is open too.     *)
LEMMA AliceWires ==
  ASSUME IType, NoBurst, NumbersOK, MaxBursts = 0, AliceStep
  PROVE  /\ \A c \in Conns : c <= conns =>
               /\ link'[c].up["bob"] => link[c].up["bob"]
               /\ link'[c].up["alice"] => link[c].up["alice"]
               /\ \/ ToBob(c)' = ToBob(c)
                  \/ /\ c = conn["alice"] /\ conn'["alice"] = conn["alice"]
                     /\ Up("alice", conn["alice"]) /\ Up("alice", conn["alice"])'
         /\ \A c \in Conns : ToAlice(c) = <<>> => ToAlice(c)' = <<>>
         /\ \A c \in Conns : c > conns /\ FreshWires =>
               \/ ToBob(c)' = <<>>
               \/ /\ ToBob(c)' = <<Msg("verification_result", approved, TRUE)>>
                  /\ task'["measure"] = "proof"
<1> USE DEF ToBob, ToAlice
<1>1. /\ conns \in Nat /\ link \in Links /\ conn["alice"] \in Refs /\ CoreOK /\ Conns \subseteq Nat
      /\ "alice" \in Role /\ "bob" \in Role
  BY TypeParts, EndpointAssumption DEF IType, EndpointOK, CoreOK, CountOK, Refs, Role, Conns
<1>2. CASE SaysNothing
  BY <1>2 DEF SaysNothing, SameForBob, FreshWires
<1>3. ASSUME NEW m \in Message, Says(m)
      PROVE  /\ \A d \in Conns :
                   /\ link'[d].up = link[d].up /\ link'[d].wire["alice"] = link[d].wire["alice"]
                   /\ d # conn["alice"] => link'[d].wire["bob"] = link[d].wire["bob"]
             /\ Up("alice", conn["alice"]) /\ Up("alice", conn["alice"])'
             /\ conn'["alice"] = conn["alice"] /\ conn["alice"] <= conns /\ conn["alice"] \in Conns
  <2>1. /\ conn["alice"] \in Conns /\ conn'["alice"] = conn["alice"] /\ Up("alice", conn["alice"])
        /\ link' = Put(link, "alice", conn["alice"], m)
    BY <1>3 DEF Says
  <2>2. \A d \in Conns, q \in Role :
           /\ d # conn["alice"] \/ q = "alice" => link'[d].wire[q] = link[d].wire[q]
           /\ link'[d].up[q] = link[d].up[q]
    <3>1. PICK k : k = Put(link, "alice", conn["alice"], m)
      OBVIOUS
    <3>2. PICK r : r = "alice"
      OBVIOUS
    <3>3. PICK c \in Conns : c = conn["alice"]
      BY <2>1
    <3>4. k = Put(link, r, c, m) /\ r \in Role
      BY <1>1, <3>1, <3>2, <3>3
    <3>5. \A d \in Conns, q \in Role :
             /\ d # c \/ q = r => Put(link, r, c, m)[d].wire[q] = link[d].wire[q]
             /\ Put(link, r, c, m)[d].up[q] = link[d].up[q]
      <4>1. link \in Links /\ r \in Role
        BY <1>1, <3>4
      <4> QED BY <4>1, PutElse
    <3> QED BY <2>1, <3>1, <3>2, <3>3, <3>4, <3>5
  <2>3. link' \in Links
    BY <1>1, <2>1, PutElse
  <2>4. \A d \in Conns : link'[d].up = link[d].up
    BY <1>1, <2>2, <2>3 DEF Links, Ends
  <2>5. Up("alice", conn["alice"])'
    BY <1>1, <2>1, <2>2 DEF Up
  <2> QED BY <1>1, <2>1, <2>2, <2>4, <2>5 DEF NumbersOK
<1>4. ASSUME NEW m \in Message, Says(m)
      PROVE  /\ \A c \in Conns : c <= conns =>
                   /\ link'[c].up["bob"] => link[c].up["bob"]
                   /\ link'[c].up["alice"] => link[c].up["alice"]
                   /\ \/ ToBob(c)' = ToBob(c)
                      \/ /\ c = conn["alice"] /\ conn'["alice"] = conn["alice"]
                         /\ Up("alice", conn["alice"]) /\ Up("alice", conn["alice"])'
             /\ \A c \in Conns : ToAlice(c) = <<>> => ToAlice(c)' = <<>>
             /\ \A c \in Conns : c > conns /\ FreshWires => ToBob(c)' = <<>>
  <2>1. \A c \in Conns : c > conns => c # conn["alice"]
    BY <1>1, <1>3, <1>4
  <2> QED BY <1>1, <1>3, <1>4, <2>1 DEF FreshWires
<1>5. ASSUME NEW d \in Conns, Dials(d)
      PROVE  /\ \A c \in Conns : c <= conns =>
                   /\ link'[c].up["bob"] => link[c].up["bob"]
                   /\ link'[c].up["alice"] => link[c].up["alice"]
                   /\ ToBob(c)' = ToBob(c)
             /\ \A c \in Conns : ToAlice(c) = <<>> => ToAlice(c)' = <<>>
             /\ \A c \in Conns : c > conns /\ FreshWires =>
                  \/ ToBob(c)' = <<>>
                  \/ /\ ToBob(c)' = <<Msg("verification_result", approved, TRUE)>>
                     /\ task'["measure"] = "proof"
  <2>1. d > conns
    BY <1>1, <1>5 DEF Dials, Established
  <2>2. \A c \in Conns \ {d} : /\ link'[c].wire["bob"] = link[c].wire["bob"]
                               /\ link'[c].up["bob"] = link[c].up["bob"]
                               /\ link'[c].up["alice"] => link[c].up["alice"]
    BY <1>5 DEF Dials
  <2>3. \A c \in Conns : c <= conns => c # d
    BY <1>1, <2>1
  <2>4. FreshWires => link[d].wire["bob"] = <<>>
    BY <2>1 DEF FreshWires
  <2>5. ASSUME FreshWires
        PROVE  \/ ToBob(d)' = <<>>
               \/ /\ ToBob(d)' = <<Msg("verification_result", approved, TRUE)>>
                  /\ task'["measure"] = "proof"
    <3>1. PICK m : m = Msg("verification_result", approved, TRUE)
      OBVIOUS
    <3>2. \/ link'[d].wire["bob"] = link[d].wire["bob"]
          \/ link'[d].wire["bob"] = Append(link[d].wire["bob"], m) /\ task'["measure"] = "proof"
      BY <1>5, <3>1 DEF Dials
    <3>3. Append(<<>>, m) = <<m>>
      OBVIOUS
    <3> QED BY <2>4, <2>5, <3>1, <3>2, <3>3
  <2>6. \A c \in Conns \ {d} : c > conns /\ FreshWires => ToBob(c)' = <<>>
    BY <2>2 DEF FreshWires
  <2>7. \A c \in Conns : ToAlice(c) = <<>> => ToAlice(c)' = <<>>
    BY <1>5 DEF Dials
  <2> QED BY <2>2, <2>3, <2>5, <2>6, <2>7
<1>6. SaysNothing \/ (\E m \in Message : Says(m)) \/ (\E c \in Conns : Dials(c))
  BY AliceSpeaks
<1> QED BY <1>2, <1>4, <1>5, <1>6

(* The sessions are counted up.                                               *)
LEMMA SessionsGrow ==
  ASSUME TypeOK, [Next]_vars, First'
  PROVE  First
<1>1. sessions \in [Role -> Nat]
  BY SessionAssumption DEF TypeOK
<1>2. \/ sessions' = sessions
      \/ \E r \in Role : sessions' = [sessions EXCEPT ![r] = @ + 1]
  <2>1. CASE Next
    <3>1. CASE \E c \in Conns : Admission(c)
      BY <3>1 DEF Admission, CountSession, bounds, Role
    <3>2. CASE Dialled
      BY <3>2 DEF Dialled, CountSession, Role
    <3> QED BY <2>1, <3>1, <3>2 DEF Next, Connects, Listens, Bursts, DialFails, Measures, Replaces,
                 Disconnects, Answers, CommandStep, Reads, TabCloses, Timeouts, OfAlice, OfBob,
                 OfEither, Redialled, RedialFails, bounds
  <2> QED BY <2>1 DEF vars, bounds
<1>3. \A r \in Role : sessions[r] <= sessions'[r]
  BY <1>1, <1>2
<1>4. sessions' \in [Role -> Nat]
  BY <1>1, <1>2
<1> QED BY <1>1, <1>3, <1>4 DEF First

(* She dials only for a connection of her own.                                *)
LEMMA DialledMoves ==
  ASSUME IType, NumbersOK, conn'["alice"] = conn["alice"]
  PROVE  ~Dialled
<1>1. ASSUME NEW c \in Conns, Established(c), Connected(c) PROVE FALSE
  <2>1. conn'["alice"] = c /\ c = conns + 1
    BY <1>1, TypeParts DEF Connected, Established, IType, EndpointOK, CoreOK, Role
  <2>2. conn["alice"] <= conns /\ conns \in Nat
    BY TypeParts, EndpointAssumption DEF NumbersOK, Role, IType, EndpointOK, CountOK, Refs
  <2> QED BY <2>1, <2>2
<1> QED BY <1>1 DEF Dialled

(* A connection that a step of hers brings before Bob's runtime is a new one. *)
LEMMA OldCand ==
  ASSUME IType, AliceStep, NEW c \in Conns, c <= conns, cand'[c].pc # "none"
  PROVE  cand[c].pc # "none"
<1>1. conns \in Nat /\ c \in Nat /\ BobTypeOK
  BY TypeParts, EndpointAssumption DEF IType, EndpointOK, CountOK, Refs, Conns
<1>2. CASE UNCHANGED bobVars
  BY <1>2 DEF bobVars
<1>3. CASE \E d \in Conns : Established(d)
  <2>1. PICK d \in Conns : Established(d)
    BY <1>3
  <2>2. d # c
    BY <1>1, <2>1 DEF Established
  <2> QED BY <1>1, <2>1, <2>2 DEF Established, Arrives, BobTypeOK
<1> QED BY <1>2, <1>3, AliceLeavesBob

(* What she does keeps what Bob hears on the slot.                            *)
LEMMA AliceBobHears ==
  ASSUME MaxBursts = 0, IPend, Speaking, AliceStep
  PROVE  BobHears'
<1>1. IType /\ NoBurst /\ NumbersOK /\ IdleOK /\ AsksOK /\ Recovers
  BY DEF IPend, IFresh, IBoth, AInv, Precedes
<1>2. BobStands /\ conn'["bob"] = conn["bob"]
  BY <1>1, AliceLeavesBob
<1>3. conn["bob"] \in Refs /\ conn["bob"] <= conns /\ \A c \in Refs : c # 0 => c \in Conns
  BY <1>1, TypeParts, EndpointAssumption DEF IType, EndpointOK, CoreOK, Refs, NumbersOK, Role, Conns
<1>4. SUFFICES ASSUME Up("bob", conn["bob"])'
               PROVE  \E n, t \in Frames, i \in 0 .. MaxIds, f \in BOOLEAN :
                         Seated(ToBob(conn["bob"]), n, t, i, f)'
  BY DEF BobHears
<1>5. conn["bob"] \in Conns /\ link'[conn["bob"]].up["bob"]
  BY <1>2, <1>3, <1>4 DEF Up
<1>6. /\ Up("bob", conn["bob"])
      /\ \/ ToBob(conn["bob"])' = ToBob(conn["bob"])
         \/ /\ conn["bob"] = conn["alice"] /\ conn'["alice"] = conn["alice"]
            /\ Up("alice", conn["alice"]) /\ Up("alice", conn["alice"])'
  <2>1. PICK c \in Conns : c = conn["bob"] /\ c <= conns
    BY <1>3, <1>5
  <2>2. /\ link'[c].up["bob"] => link[c].up["bob"]
        /\ \/ link'[c].wire["bob"] = link[c].wire["bob"]
           \/ /\ c = conn["alice"] /\ conn'["alice"] = conn["alice"]
              /\ Up("alice", conn["alice"]) /\ Up("alice", conn["alice"])'
    BY <1>1, <2>1, AliceWires DEF ToBob
  <2> QED BY <1>2, <1>5, <2>1, <2>2 DEF Up, Conns, ToBob
<1>7. CASE ToBob(conn["bob"])' = ToBob(conn["bob"])
  <2>1. PICK n, t \in Frames, i \in 0 .. MaxIds, f \in BOOLEAN :
           Seated(ToBob(conn["bob"]), n, t, i, f)
    BY <1>6 DEF Speaking, BobHears
  <2>2. BobAt(n, i, f) /\ Said(ToBob(conn["bob"]), n, t, i, f) /\ Sound(ToBob(conn["bob"]), n, t, i)
    BY <2>1 DEF Seated
  <2>3. PICK s : s = ToBob(conn["bob"])
    OBVIOUS
  <2>4. BobAt(n, i, f)' /\ Sound(s, n, t, i)'
    BY <1>2, <2>2, <2>3, BobSame
  <2>5. ToBob(conn["bob"])' = s
    BY <1>7, <2>3
  <2>6. Seated(ToBob(conn["bob"]), n, t, i, f)'
    BY <2>2, <2>3, <2>4, <2>5 DEF Seated
  <2> QED BY <2>6
<1>8. CASE ToBob(conn["bob"])' # ToBob(conn["bob"])
  <2>1. /\ conn["bob"] = conn["alice"] /\ conn'["alice"] = conn["alice"]
        /\ Up("alice", conn["alice"]) /\ Up("alice", conn["alice"])'
    BY <1>6, <1>8
  <2>2. AliceUp
    BY <1>1, <2>1 DEF AliceUp, Speaking
  <2>3. ~Dialled
    BY <1>1, <2>1, DialledMoves
  <2>4. Advancing
    BY <2>2, <2>3, StepOn DEF GoesOn
  <2>5. PICK n, t \in Frames, i \in 0 .. MaxIds, f \in BOOLEAN : BobAt(n, i, f) /\ Line(n, t, i, f)
    BY <1>6, <2>1 DEF Speaking, Talk
  <2>6. Advances(n, t, i, f)
    BY <1>6, <2>1, <2>4, <2>5 DEF Advancing
  <2>7. PICK n2, t2 \in Frames, i2 \in 0 .. MaxIds, f2 \in BOOLEAN :
           Line(n2, t2, i2, f2)' /\ BobAt(n2, i2, f2)'
    BY <2>5, <2>6 DEF Advances
  <2>8. Said(ToBob(conn["alice"]), n2, t2, i2, f2)' /\ Sound(ToBob(conn["alice"]), n2, t2, i2)'
    BY <2>7 DEF Line
  <2>9. conn'["bob"] = conn'["alice"]
    BY <1>2, <2>1
  <2>10. Said(ToBob(conn["bob"]), n2, t2, i2, f2)' /\ Sound(ToBob(conn["bob"]), n2, t2, i2)'
    BY <2>8, <2>9
  <2> QED BY <2>7, <2>10 DEF Seated
<1> QED BY <1>7, <1>8

(* What she does keeps what waits for the slot.                               *)
LEMMA AliceCandHears ==
  ASSUME MaxBursts = 0, IPend, IPend', Speaking, AliceStep
  PROVE  CandHears'
<1>1. /\ IType /\ NoBurst /\ NumbersOK /\ IdleOK /\ AsksOK /\ Recovers /\ FreshWires
      /\ AliceBased' /\ TypeOK
  BY DEF IPend, IFresh, IBoth, AInv, Precedes, IType
<1>2. /\ BobStands /\ sessions'["bob"] = sessions["bob"] /\ matched'["bob"] = matched["bob"]
      /\ UNCHANGED bobVars \/ \E c \in Conns : Established(c)
  BY <1>1, AliceLeavesBob
<1>3. /\ conns \in Nat /\ sessions["bob"] \in Nat /\ Conns \subseteq Nat
      /\ \A c \in Conns : cand[c].pc # "none" => c <= conns
  BY <1>1, TypeParts, EndpointAssumption, SessionAssumption
     DEF EndpointOK, CountOK, BoundOK, Refs, NumbersOK, Role, Conns
<1>4. SUFFICES ASSUME NEW c \in Conns, cand'[c].pc # "none", link'[c].up["bob"]
               PROVE  Opening(ToBob(c))' \/ (sessions'["bob"] >= 1 /\ Proof(ToBob(c))')
  BY DEF CandHears
<1>5. CASE c > conns
  <2>1. CASE ToBob(c)' = <<>>
    <3>1. Opening(<<>>)
      <4>1. 0 \in Frames /\ 0 \in 0 .. 2 /\ 0 \in 0 .. MaxIds
        BY EndpointAssumption DEF Frames
      <4>2. Said(<<>>, 0, 0, 0, FALSE)
        BY <4>1, SaidNil
      <4>3. 0 = 2 => 0 # 0
        OBVIOUS
      <4> QED BY <4>1, <4>2, <4>3, Zenon DEF Opening
    <3>2. PICK s : s = <<>> /\ ToBob(c)' = s
      BY <2>1
    <3>3. Opening(s)
      BY <3>1, <3>2
    <3> QED BY <3>2, <3>3
  <2>2. CASE /\ ToBob(c)' = <<Msg("verification_result", approved, TRUE)>>
             /\ task'["measure"] = "proof"
    <3>1. PICK s : s = <<Msg("verification_result", approved, TRUE)>> /\ ToBob(c)' = s
      BY <2>2
    <3>2. Proof(s)
      BY <3>1 DEF Proof, Ended, Msg
    <3>3. basis'["alice"].id \in Both(matched')
      BY <1>1, <2>2 DEF AliceBased, Based, Committed
    <3>4. matched["bob"] # {}
      BY <1>2, <3>3 DEF Both
    <3>5. sessions'["bob"] >= 1
      BY <1>2, <1>3, <3>4 DEF Speaking, Once
    <3> QED BY <3>1, <3>2, <3>5
  <2> QED BY <1>1, <1>5, <2>1, <2>2, AliceWires
<1>6. CASE ~(c > conns)
  <2>1. c <= conns /\ cand[c].pc # "none"
    <3>1. c <= conns
      BY <1>3, <1>6
    <3> QED BY <1>1, <1>4, <3>1, OldCand
  <2>2. link[c].up["bob"]
    BY <1>1, <1>4, <2>1, AliceWires
  <2>3. CASE ToBob(c)' = ToBob(c)
    <3>1. PICK s : s = ToBob(c) /\ ToBob(c)' = s
      BY <2>3
    <3>2. Opening(s) \/ (sessions["bob"] >= 1 /\ Proof(s))
      BY <2>1, <2>2, <3>1 DEF Speaking, CandHears
    <3> QED BY <1>2, <3>1, <3>2
  <2>4. CASE ToBob(c)' # ToBob(c)
    <3>1. /\ c = conn["alice"] /\ conn'["alice"] = conn["alice"]
          /\ Up("alice", conn["alice"]) /\ Up("alice", conn["alice"])'
      BY <1>1, <2>1, <2>4, AliceWires
    <3>2. AliceUp
      BY <1>1, <3>1 DEF AliceUp, Speaking
    <3>3. ~Dialled
      BY <1>1, <3>1, DialledMoves
    <3>4. Advancing
      BY <3>2, <3>3, StepOn DEF GoesOn
    <3>5. Up("bob", conn["alice"])
      BY <2>2, <3>1 DEF Up, Conns
    <3>6. ToAlice(c) = <<>> /\ (Opens \/ Approves)
      BY <2>1, <3>1, <3>5 DEF Speaking, Talk
    <3>7. CASE Opens
      <4>1. PICK t \in 0 .. 2, i \in 0 .. MaxIds : (t = 2 => i # 0) /\ Line(0, t, i, FALSE)
        BY <3>7 DEF Opens
      <4>2. 0 \in Frames /\ t \in Frames /\ Fits(0, t, i, FALSE)
        BY <4>1 DEF Frames, Fits
      <4>3. Advances(0, t, i, FALSE) /\ Fits(0, t, i, FALSE)
        BY <3>4, <3>5, <4>1, <4>2 DEF Advancing
      <4>4. PICK n2, t2 \in Frames, i2 \in 0 .. MaxIds, f2 \in BOOLEAN :
               Line(n2, t2, i2, f2)' /\ Fits(n2, t2, i2, f2)
        BY <4>3 DEF Advances
      <4>5. n2 = 0 /\ f2 = FALSE /\ t2 \in 0 .. 2 /\ (t2 = 2 => i2 # 0)
        BY <4>4 DEF Fits, Frames
      <4>6. Said(ToBob(conn["alice"]), n2, t2, i2, f2)'
        BY <4>4 DEF Line
      <4>7. PICK s : s = ToBob(c)'
        OBVIOUS
      <4>8. Said(s, n2, t2, i2, f2)
        BY <3>1, <4>6, <4>7
      <4>9. Opening(s)
        BY <4>5, <4>8 DEF Opening
      <4> QED BY <4>7, <4>9
    <3>8. CASE Approves
      <4>1. Approves'
        BY <3>1, <3>4, <3>5, <3>6, <3>8 DEF Advancing
      <4>2. /\ sessions'["bob"] >= 1 /\ Len(ToBob(conn["alice"])') = 1
            /\ Head(ToBob(conn["alice"])').type = "verification_result"
        BY <4>1 DEF Approves
      <4>3. PICK s : s = ToBob(c)'
        OBVIOUS
      <4>4. Len(s) = 1 /\ Head(s).type = "verification_result"
        BY <3>1, <4>2, <4>3
      <4>5. s \in Seq(Message)
        BY <4>3, TypeParts DEF IPend, IFresh, IBoth, IType, EndpointOK, CoreOK, Links, Ends, ToBob,
            Role
      <4>6. s # <<>> /\ Tail(s) = <<>>
        <5>1. s # <<>>
          BY <4>4
        <5>2. Tail(s) \in Seq(Message) /\ Len(Tail(s)) = 0
          BY <4>4, <4>5, <5>1, EmptySeq
        <5> QED BY <5>1, <5>2, EmptySeq
      <4>7. Proof(s)
        BY <4>4, <4>6 DEF Proof, Ended
      <4> QED BY <4>2, <4>3, <4>7
    <3> QED BY <3>6, <3>7, <3>8
  <2> QED BY <2>3, <2>4
<1> QED BY <1>5, <1>6

-------------------------------------------------------------------------------
(* The script begins anew on a new connection                                 *)

(* She redials for a recovery.                                                *)
Redials(c) ==
    /\ Established(c) /\ task["measure"] = "establish" /\ gate["alice"] = "RECONNECTING"
    /\ Reconnected("measure", c, LinkUp(c)) /\ sessions' = sessions

(* She changes the connection by dialling, for a session or a recovery.       *)
LEMMA AliceMoves ==
  ASSUME IType, NoBurst, MaxBursts = 0, AliceStep, Up("alice", conn["alice"])',
         conn'["alice"] # conn["alice"]
  PROVE  \E c \in Conns :
            /\ conn'["alice"] = c /\ Established(c)
            /\ \/ Redials(c)
               \/ Connected(c) /\ link' = LinkUp(c) /\ CountSession("alice")
<1>1. CoreOK /\ EndpointOK /\ conns \in Nat /\ conn'["alice"] # 0 /\ "measure" \in Tasks
  BY TypeParts, EndpointAssumption DEF IType, EndpointOK, CountOK, Refs, Up, Tasks
<1>2. \A t, l : ~Raises(t, l) /\ ~Restricts("alice", l)
  BY DEF Raises, Restricts
<1>3. CASE Connects
  BY <1>1, <1>3 DEF Connects, Connect, CoreOK, Role
<1>4. CASE Dialled
  <2>1. PICK c \in Conns : Established(c) /\ Connected(c) /\ link' = LinkUp(c)
    BY <1>4 DEF Dialled
  <2>2. conn'["alice"] = c /\ CountSession("alice")
    BY <1>1, <1>4, <2>1 DEF Dialled, Connected, CoreOK, Role
  <2> QED BY <2>1, <2>2
<1>5. ~Bursts /\ ~DialFails /\ ~AliceDisconnectBegins
  BY <1>2 DEF Bursts, StartBurst, endpointVars, core, DialFails, ConnectFails, ConnectAbandoned,
              AliceDisconnectBegins
<1>6. CASE Measures \/ Replaces
  <2>1. conn' = conn \/ conn'["alice"] = 0 \/ conns' = conns + 1
    <3>1. CASE MeasureStep
      BY <3>1, MeasureCounted DEF Counted
    <3>2. CASE RecoveryStep("measure") \/ Redialled("measure") \/ RedialFails("measure")
      BY <3>2, RecoveryCounted DEF Counted
    <3> QED BY <1>6, <3>1, <3>2, OnlyMeasures
  <2>2. ~MeasureStep /\ ~RecoveryStep("measure")
    <3>1. MeasureStep => conns' = conns
      BY <1>1, MeasureStepStill
    <3>2. RecoveryStep("measure") => conns' = conns
      BY <1>1, RecoveryStepStill
    <3> QED BY <1>1, <2>1, <3>1, <3>2
  <2>3. ~RedialFails("measure")
    BY <1>2 DEF RedialFails, EstablishFails
  <2>4. Redialled("measure")
    BY <1>6, <2>2, <2>3, OnlyMeasures
  <2>5. PICK c \in Conns : Established(c) /\ Reconnected("measure", c, LinkUp(c))
    BY <2>4 DEF Redialled
  <2>6. gate["alice"] = "RECONNECTING" /\ task["measure"] = "establish" /\ conn'["alice"] = c
    BY <1>1, <1>2, <2>5 DEF Reconnected, CoreOK, Role
  <2>7. sessions' = sessions
    BY <2>4 DEF Redialled, bounds
  <2> QED BY <2>5, <2>6, <2>7 DEF Redials
<1>7. ~OwnStep("alice")
  BY OwnStepConn DEF IType, Role
<1> QED BY <1>3, <1>4, <1>5, <1>6, <1>7 DEF AliceStep

(* The ends and the wires of a new connection                                 *)
LEMMA FreshLink ==
  ASSUME link \in Links, NEW c \in Conns
  PROVE  /\ LinkUp(c) \in Links
         /\ LinkUp(c)[c].up["alice"] /\ LinkUp(c)[c].up["bob"]
         /\ LinkUp(c)[c].wire = link[c].wire
<1>1. link[c] \in Ends
  BY DEF Links
<1>2. LinkUp(c) = [link EXCEPT ![c] = [link[c] EXCEPT !.up = [r \in Role |-> TRUE]]]
  BY DEF LinkUp
<1>3. LinkUp(c)[c] = [link[c] EXCEPT !.up = [r \in Role |-> TRUE]]
  BY <1>2 DEF Links
<1>4. LinkUp(c)[c].up = [r \in Role |-> TRUE] /\ LinkUp(c)[c].wire = link[c].wire
  BY <1>1, <1>3 DEF Ends
<1> QED BY <1>4, LinkUpOK DEF Role

(* On a new connection nobody has said anything, and Bob has not taken it.    *)
LEMMA FreshEnds ==
  ASSUME IType, NumbersOK, FreshWires, Slots, AliceStep, NEW c \in Conns, Established(c)
  PROVE  /\ c > conns /\ ToAlice(c) = <<>> /\ ToBob(c) = <<>> /\ conn'["bob"] # c
         /\ link[c].wire["alice"] = <<>> /\ link[c].wire["bob"] = <<>>
<1>1. c > conns /\ conns \in Nat /\ conn["bob"] \in Nat /\ conn["bob"] <= conns
  BY TypeParts, EndpointAssumption
     DEF Established, IType, EndpointOK, CoreOK, CountOK, Refs, NumbersOK, Role
<1>2. conn'["bob"] = conn["bob"]
  BY AliceLeavesBob
<1> QED BY <1>1, <1>2 DEF Slots, FreshWires, ToAlice, ToBob

(* A new session begins a line on an empty connection.                        *)
LEMMA DialledTalks ==
  ASSUME IPend, Speaking, First', AliceStep, NEW c \in Conns, Established(c), Connected(c),
         link' = LinkUp(c), CountSession("alice")
  PROVE  AliceHeard' /\ AliceStands' /\ Talk'
<1>1. IType /\ NoBurst /\ NumbersOK /\ IdleOK /\ AsksOK /\ FreshWires /\ Slots /\ Once /\ CoreOK /\ ReaderOK
      /\ link \in Links /\ TaskOK /\ BoundOK /\ "alice" \in Role /\ "bob" \in Role /\ WaitOK
  BY TypeParts DEF IPend, IFresh, IBoth, AInv, Precedes, Speaking, IType, EndpointOK, CoreOK,
      AliceOK, Role
<1>2. c > conns /\ ToAlice(c) = <<>> /\ ToBob(c) = <<>> /\ conn'["bob"] # c
      /\ link[c].wire["alice"] = <<>> /\ link[c].wire["bob"] = <<>>
  BY <1>1, FreshEnds
<1>3. sessions["alice"] = 0
  BY <1>1, SessionAssumption DEF First, CountSession, BoundOK
<1>4. approved' = 0 /\ ping' # "sent" /\ task["measure"] = "off" /\ dual'["alice"] = NoDual
  <2>1. task["measure"] = "off"
    BY <1>1 DEF Connected, IdleOK, Idle, Tasks
  <2>2. dual["alice"] = NoDual
    BY <1>1, <2>1 DEF AsksOK, Responding
  <2> QED BY <1>1, <1>3, <2>1, <2>2 DEF Once, Connected
<1>5. /\ conn'["alice"] = c /\ gate'["alice"] = "VERIFYING" /\ guard' = "unverified"
      /\ reader'["alice"].pc = "recv" /\ task'["measure"] = "assess"
  BY <1>1 DEF Connected, Goto, CoreOK, ReaderOK, TaskOK, NewGuard, Tasks
<1>6. link'[c].wire["alice"] = <<>> /\ link'[c].wire["bob"] = <<>>
  <2>1. PICK l : l = LinkUp(c)
    OBVIOUS
  <2>2. l[c].wire = link[c].wire
    BY <1>1, <2>1, FreshLink
  <2> QED BY <1>2, <2>1, <2>2
<1>7. ToAlice(conn["alice"])' = <<>> /\ ToBob(conn["alice"])' = <<>>
  BY <1>5, <1>6 DEF ToAlice, ToBob
<1>8. AliceHeard'
  BY <1>5, <1>7 DEF AliceHeard, Ended
<1>9. AliceStands'
  BY <1>4, <1>5 DEF AliceStands, Going, Resuming
<1>10. Opens'
  <2>1. 0 \in 0 .. 2 /\ 0 \in 0 .. MaxIds /\ 0 \in Frames /\ 0 - 0 = 0 /\ ~(0 >= 3) /\ 0 # 2
        /\ 0 \notin {1, 2, 3, 4}
    BY EndpointAssumption DEF Frames
  <2>2. AliceAt(0, 0, FALSE)'
    BY <1>5 DEF AliceAt
  <2>3. PICK s : s = <<>>
    OBVIOUS
  <2>4. Said(s, 0, 0, 0, FALSE) /\ Len(s) = 0
    BY <2>1, <2>3, SaidNil
  <2>5. Sound(s, 0, 0, 0)'
    BY <2>1 DEF Sound
  <2>6. Hears(ToAlice(conn["alice"]), 0, 0, 0, FALSE)'
    BY <1>7 DEF Hears, Ended
  <2>7. ToBob(conn["alice"])' = s
    BY <1>7, <2>3
  <2>8. Said(ToBob(conn["alice"]), 0, 0, 0, FALSE)' /\ Sound(ToBob(conn["alice"]), 0, 0, 0)'
        /\ Len(ToBob(conn["alice"]))' = 0 - 0
    BY <2>1, <2>4, <2>5, <2>7
  <2>9. Line(0, 0, 0, FALSE)'
    BY <2>1, <2>2, <2>6, <2>8 DEF Line
  <2> QED BY <2>1, <2>9 DEF Opens
<1>11. Talk'
  BY <1>2, <1>5, <1>7, <1>10 DEF Talk
<1> QED BY <1>8, <1>9, <1>11

(* A recovery begins one with the proof.                                      *)
LEMMA RedialledTalks ==
  ASSUME IPend, IPend', Speaking, AliceStep, NEW c \in Conns, Redials(c)
  PROVE  AliceHeard' /\ AliceStands' /\ Talk'
<1>1. IType /\ NoBurst /\ NumbersOK /\ IdleOK /\ AsksOK /\ Recovers /\ FreshWires /\ Slots /\ Once /\ Paced
      /\ CoreOK /\ ReaderOK /\ link \in Links /\ TaskOK /\ BoundOK /\ "alice" \in Role /\ "bob" \in Role
      /\ RetryOK /\ AliceBased'
  BY TypeParts DEF IPend, IFresh, IBoth, AInv, Precedes, Speaking, IType, EndpointOK, CoreOK,
      AliceOK, Role
<1>2. c > conns /\ ToAlice(c) = <<>> /\ ToBob(c) = <<>> /\ conn'["bob"] # c
      /\ link[c].wire["alice"] = <<>> /\ link[c].wire["bob"] = <<>>
  BY <1>1, FreshEnds DEF Redials
<1>3. /\ guard = "verified" /\ ping # "sent" /\ approved # 0 /\ dual["alice"] = NoDual
  BY <1>1 DEF Redials, Paced, Recovers, AsksOK, Responding
<1>4. /\ conn'["alice"] = c /\ gate'["alice"] = "VERIFYING" /\ reader'["alice"].pc = "recv"
      /\ recovered' = "waiting" /\ guard' = guard /\ ping' = ping /\ approved' = approved
      /\ dual' = dual /\ Sends("measure", "proof", Msg("verification_result", approved, TRUE), LinkUp(c))
  <2>1. PICK m : m = Msg("verification_result", approved, TRUE)
    OBVIOUS
  <2>2. PICK l : l = LinkUp(c)
    OBVIOUS
  <2>3. Reconnected("measure", c, l) /\ gate["alice"] = "RECONNECTING"
    BY <2>2 DEF Redials
  <2>4. /\ gate' = [gate EXCEPT !["alice"] = "VERIFYING"]
        /\ conn' = [conn EXCEPT !["alice"] = c]
        /\ reader' = [reader EXCEPT !["alice"] = [pc |-> "recv", conn |-> c, msg |-> NoMsg]]
        /\ recovered' = "waiting" /\ guard' = guard /\ dual' = dual
        /\ Sends("measure", "proof", m, l)
    BY <2>1, <2>3 DEF Reconnected
  <2>5. ping' = ping /\ approved' = approved
    BY <2>3 DEF Reconnected
  <2> QED BY <1>1, <2>1, <2>2, <2>4, <2>5 DEF CoreOK, ReaderOK
<1>5. /\ task'["measure"] = "proof"
      /\ link' = Put(LinkUp(c), "alice", c, Msg("verification_result", approved, TRUE))
  BY <1>1, <1>4 DEF Sends, Goto, TaskOK, Tasks
<1>6. /\ link'[c].wire["bob"] = <<Msg("verification_result", approved, TRUE)>>
      /\ link'[c].wire["alice"] = <<>>
  <2>1. PICK l : l = LinkUp(c)
    OBVIOUS
  <2>2. l \in Links /\ l[c].up["bob"] /\ l[c].wire["bob"] = <<>> /\ l[c].wire["alice"] = <<>>
    BY <1>1, <1>2, <2>1, FreshLink
  <2>3. PICK m \in Message : m = Msg("verification_result", approved, TRUE)
    BY <1>1, ValuesOK DEF RetryOK
  <2>4. Put(l, "alice", c, m)[c].wire["bob"] = Append(l[c].wire["bob"], m)
    BY <2>2, AlicePuts
  <2>5. PICK r \in Role : r = "alice"
    BY <1>1
  <2>6. Put(l, r, c, m)[c].wire[r] = l[c].wire[r]
    BY <2>2, PutElse
  <2>7. Append(<<>>, m) = <<m>>
    OBVIOUS
  <2>8. link' = Put(l, "alice", c, m)
    BY <1>5, <2>1, <2>3
  <2> QED BY <2>2, <2>3, <2>4, <2>5, <2>6, <2>7, <2>8
<1>7. /\ ToAlice(conn["alice"])' = <<>>
      /\ ToBob(conn["alice"])' = <<Msg("verification_result", approved, TRUE)>>
  BY <1>4, <1>6 DEF ToAlice, ToBob
<1>8. AliceHeard'
  BY <1>4, <1>7 DEF AliceHeard, Ended
<1>9. AliceStands'
  BY <1>3, <1>4, <1>5 DEF AliceStands, Going, Resuming
<1>10. sessions'["bob"] >= 1
  <2>1. basis'["alice"].id \in Both(matched')
    BY <1>1, <1>5 DEF AliceBased, Based, Committed
  <2>2. sessions'["bob"] = sessions["bob"] /\ matched'["bob"] = matched["bob"]
    BY <1>1, AliceLeavesBob
  <2>3. matched["bob"] # {}
    BY <2>1, <2>2 DEF Both
  <2>4. sessions["bob"] \in Nat
    BY <1>1, SessionAssumption DEF BoundOK
  <2> QED BY <1>1, <2>2, <2>3, <2>4 DEF Once
<1>11. Approves'
  <2>1. PICK s : s = <<Msg("verification_result", approved, TRUE)>>
    OBVIOUS
  <2>2. Len(s) = 1 /\ Head(s).type = "verification_result"
    BY <2>1 DEF Msg
  <2> QED BY <1>4, <1>5, <1>7, <1>10, <2>1, <2>2 DEF Approves
<1>12. Talk'
  BY <1>2, <1>4, <1>7, <1>11 DEF Talk
<1> QED BY <1>8, <1>9, <1>12

(* Her steps keep the line.                                                   *)
LEMMA AliceTalks ==
  ASSUME MaxBursts = 0, IPend, IPend', First', Speaking, AliceStep
  PROVE  AliceHeard' /\ AliceStands' /\ Talk'
<1>1. IType /\ NoBurst /\ NumbersOK /\ IdleOK /\ AsksOK /\ Recovers /\ TypeOK
  BY DEF IPend, IFresh, IBoth, AInv, Precedes, IType
<1>2. SUFFICES ASSUME Up("alice", conn["alice"])'
               PROVE  AliceHeard' /\ AliceStands' /\ Talk'
  BY DEF AliceHeard, AliceStands, Talk
<1>3. CASE conn'["alice"] # conn["alice"]
  BY <1>1, <1>2, <1>3, AliceMoves, DialledTalks, RedialledTalks
<1>4. CASE conn'["alice"] = conn["alice"]
  <2>1. PICK a \in Conns : a = conn["alice"] /\ conn'["alice"] = a /\ a <= conns
    BY <1>1, <1>2, <1>4, TypeParts, EndpointAssumption
       DEF Up, EndpointOK, CoreOK, Refs, NumbersOK, Role, Conns
  <2>2. /\ link'[a].up["bob"] => link[a].up["bob"]
        /\ link'[a].up["alice"] => link[a].up["alice"]
    BY <1>1, <2>1, AliceWires
  <2>3. Up("alice", conn["alice"]) /\ (Up("bob", conn["alice"])' => Up("bob", conn["alice"]))
    BY <1>2, <2>1, <2>2 DEF Up
  <2>4. AliceUp
    BY <1>1, <1>2, <2>3 DEF AliceUp, Speaking
  <2>5. ~Dialled
    BY <1>1, <1>4, DialledMoves
  <2>6. AliceHeard' /\ AliceStands' /\ Advancing
    BY <2>4, <2>5, StepOn DEF GoesOn
  <2>7. SUFFICES ASSUME Up("bob", conn["alice"])'
                 PROVE  Talk'
    BY <2>6 DEF Talk
  <2>8. Up("bob", conn["alice"]) /\ Talk
    BY <2>3, <2>7 DEF Speaking
  <2>9. conn'["bob"] = conn["bob"]
    BY <1>1, AliceLeavesBob
  <2>10. conn'["alice"] = conn'["bob"] =>
           \E n, t \in Frames, i \in 0 .. MaxIds, f \in BOOLEAN : BobAt(n, i, f)' /\ Line(n, t, i, f)'
    <3>1. SUFFICES ASSUME conn["alice"] = conn["bob"]
                   PROVE  \E n, t \in Frames, i \in 0 .. MaxIds, f \in BOOLEAN :
                             BobAt(n, i, f)' /\ Line(n, t, i, f)'
      BY <1>4, <2>9
    <3>2. PICK n, t \in Frames, i \in 0 .. MaxIds, f \in BOOLEAN : BobAt(n, i, f) /\ Line(n, t, i, f)
      BY <2>3, <2>8, <3>1 DEF Talk
    <3>3. Advances(n, t, i, f)
      BY <2>6, <2>8, <3>2 DEF Advancing
    <3> QED BY <3>2, <3>3 DEF Advances
  <2>11. cand'[a].pc # "none" => ToAlice(conn["alice"])' = <<>> /\ (Opens' \/ Approves')
    <3>1. SUFFICES ASSUME cand'[a].pc # "none"
                   PROVE  ToAlice(conn["alice"])' = <<>> /\ (Opens' \/ Approves')
      OBVIOUS
    <3>2. cand[a].pc # "none"
      BY <1>1, <2>1, <3>1, OldCand
    <3>3. ToAlice(conn["alice"]) = <<>> /\ (Opens \/ Approves)
      BY <2>1, <2>3, <2>8, <3>2 DEF Talk
    <3>4. ToAlice(conn["alice"])' = <<>> /\ (Approves => Approves')
      BY <2>6, <2>8, <3>3 DEF Advancing
    <3>5. Opens => Opens'
      <4>1. ASSUME Opens PROVE Opens'
        <5>1. PICK t \in 0 .. 2, i \in 0 .. MaxIds : (t = 2 => i # 0) /\ Line(0, t, i, FALSE)
          BY <4>1 DEF Opens
        <5>2. 0 \in Frames /\ t \in Frames /\ Fits(0, t, i, FALSE)
          BY <5>1 DEF Frames, Fits
        <5>3. Advances(0, t, i, FALSE)
          BY <2>6, <2>8, <5>1, <5>2 DEF Advancing
        <5>4. PICK n2, t2 \in Frames, i2 \in 0 .. MaxIds, f2 \in BOOLEAN :
                 Line(n2, t2, i2, f2)' /\ Fits(n2, t2, i2, f2)
          BY <5>2, <5>3 DEF Advances
        <5>5. n2 = 0 /\ f2 = FALSE /\ t2 \in 0 .. 2 /\ (t2 = 2 => i2 # 0)
          BY <5>4 DEF Fits, Frames
        <5>6. Line(0, t2, i2, FALSE)'
          BY <5>4, <5>5
        <5> QED BY <5>5, <5>6 DEF Opens
      <4> QED BY <4>1
    <3> QED BY <3>3, <3>4, <3>5
  <2> QED BY <2>1, <2>10, <2>11 DEF Talk
<1> QED BY <1>3, <1>4

-------------------------------------------------------------------------------
(* Her decisions                                                              *)

(* How her runtime moves a comparison: the peer's answer, or her human's.     *)
LEMMA OwnDual ==
  ASSUME IType, OwnStep("alice"), Up("alice", conn["alice"])'
  PROVE  \/ dual'["alice"] = dual["alice"]
         \/ /\ dual["alice"] # NoDual /\ dual["alice"].decisions["bob"] = "none"
            /\ \E b \in BOOLEAN : dual'["alice"] = Decided(dual["alice"], "bob", b)
         \/ Decide("alice")
<1>1. CoreOK /\ EndpointOK /\ "alice" \in Role /\ "bob" \in Role /\ link \in Links
      /\ Peer("alice") = "bob" /\ ReaderOK /\ conn["alice"] \in Refs /\ reader["alice"].conn \in Refs
  BY TypeParts DEF IType, EndpointOK, CoreOK, Role, Peer, ReaderOK, Readers
<1>2. \A l \in Links : ~Restricts("alice", l)
  BY <1>1, RestrictsEnds DEF Restricts, Up
<1>3. \A l \in Links : ReaderRaises("alice", l) => dual' = dual
  BY <1>2 DEF ReaderRaises
<1>4. CASE Answers("alice")
  BY <1>1, <1>2, <1>4 DEF Answers, Confirm
<1>5. CASE CommandStep("alice")
  <2>1. ~DisconnectEnds("alice", link)
    <3>1. ASSUME DisconnectEnds("alice", link) PROVE FALSE
      <4>1. link' = Shut(link, "alice", conn["alice"]) /\ conn' = conn
        BY <3>1 DEF DisconnectEnds
      <4>2. PICK c \in Conns : c = conn["alice"]
        BY <1>1, <4>1 DEF Up, Refs, Conns
      <4>3. Shut(link, "alice", c)[c].up["alice"] = FALSE
        BY <1>1, <4>2, ShutElse DEF Refs, Conns
      <4> QED BY <4>1, <4>2, <4>3 DEF Up
    <3> QED BY <3>1
  <2> QED BY <1>5, <2>1 DEF CommandStep, AliceStops, SendShutdown, AliceDisconnectEnds
<1>6. CASE Reads("alice")
  <2>1. CASE AliceReads
    <3>1. PICK m, l : /\ Delivered("alice", m, l)
                      /\ AliceHandle(m, l) \/ Postpones("alice", l)
      BY <2>1, AliceReadsOne
    <3>2. l \in Links /\ m \in Message
      BY <1>1, <3>1, DeliveredOK
    <3>3. CASE HandleResponse("alice", m, l)
      <4>1. CASE Refuse("alice", l)
        BY <1>3, <3>2, <4>1 DEF Refuse
      <4>2. CASE ~Refuse("alice", l)
        <5>1. /\ dual["alice"] # NoDual /\ dual["alice"].decisions["bob"] = "none"
              /\ dual' = [dual EXCEPT !["alice"] = Decided(dual["alice"], "bob", m.flag)]
          BY <1>1, <3>3, <4>2 DEF HandleResponse
        <5>2. m.flag \in BOOLEAN
          BY <3>2 DEF Message
        <5>3. dual'["alice"] = Decided(dual["alice"], "bob", m.flag)
          BY <1>1, <5>1 DEF CoreOK
        <5> QED BY <5>1, <5>2, <5>3
      <4> QED BY <4>1, <4>2
    <3>4. CASE Refuse("alice", l)
      BY <1>3, <3>2, <3>4 DEF Refuse
    <3>5. ~HandleShutdown("alice", l)
      BY <1>2, <3>2 DEF HandleShutdown
    <3>6. AliceHears(m, l) \/ Postpones("alice", l) => dual' = dual
      BY DEF AliceHears, Postpones
    <3> QED BY <3>1, <3>3, <3>4, <3>5, <3>6, AliceHandleCases
  <2>2. CASE ReaderSeesClose("alice") \/ ReaderSent("alice") \/ EndOfStream("alice")
    BY <1>1, <1>3, <2>2 DEF ReaderSeesClose, ReaderSent, EndOfStream, LinkFails, core
  <2> QED BY <1>6, <2>1, <2>2 DEF Reads
<1>7. CASE TabCloses("alice")
  BY <1>7 DEF TabCloses, ConfirmAbandoned, DisconnectAbandoned, StopAbandoned, core
<1>8. CASE Timeouts("alice")
  BY <1>1, <1>2, <1>8 DEF Timeouts, VerificationEnds
<1>9. CASE LinkFails("alice", conn["alice"])
  BY <1>9 DEF LinkFails
<1> QED BY <1>4, <1>5, <1>6, <1>7, <1>8, <1>9 DEF OwnStep

(* Where a decision under way comes from                                      *)
Clicks(r) ==
    /\ dual[r] # NoDual /\ cmd'[r].id = dual[r].id /\ cmd'[r].conn = conn[r]
    /\ dual[r].decisions[r] = "none" /\ Up(r, conn[r]) /\ gate[r] = "VERIFYING"
    /\ UNCHANGED <<dual, gate>>

(* A decision begins when the human clicks, and is under way until it is      *)
(* counted.                                                                   *)
LEMMA OwnCommand ==
  ASSUME IType, NEW r \in Role, OwnStep(r), cmd'[r].pc = "deciding"
  PROVE  (cmd'[r] = cmd[r] /\ cmd[r].pc = "deciding" /\ ~Decide(r)) \/ Clicks(r)
<1>1. CommandOK /\ EndpointOK
  BY TypeParts DEF IType, EndpointOK
<1>2. CASE Answers(r)
  <2>1. PICK id \in 1 .. ids, match \in BOOLEAN : Confirm(r, id, match)
    BY <1>2 DEF Answers
  <2>2. CASE cmd' = cmd
    BY <2>1, <2>2 DEF Confirm
  <2>3. CASE cmd' # cmd
    BY <1>1, <2>1, <2>3 DEF Confirm, Clicks, CommandOK, CanControl
  <2> QED BY <2>2, <2>3
<1>3. CASE cmd' = cmd /\ ~Decide(r)
  BY <1>3
<1>4. ~CommandStep(r) /\ ~TabCloses(r)
  BY <1>1 DEF CommandStep, TabCloses, Decide, AliceStops, AliceDisconnectEnds, BobDisconnectEnds,
              DisconnectEnds, ConfirmAbandoned, DisconnectAbandoned, StopAbandoned, SendShutdown,
              NoCommand, CommandOK
<1>5. ~Decide(r)
  BY <1>1 DEF Decide, NoCommand, CommandOK
<1>6. Reads(r) \/ Timeouts(r) \/ LinkFails(r, conn[r]) => cmd' = cmd
  BY DEF Reads, AliceReads, BobReads, AliceReceives, AliceGetsLock, BobReceives, BobGetsLock,
         ProofHandled, ReaderSeesClose, ReaderSent, EndOfStream, LinkFails, Timeouts,
         VerificationEnds, ReservationExpires
<1> QED BY <1>2, <1>3, <1>4, <1>5, <1>6 DEF OwnStep

(* A counted answer leaves a comparison.                                      *)
LEMMA DecidedIsDual ==
  ASSUME NEW d \in Dual, NEW r \in Role, NEW b \in BOOLEAN
  PROVE  Decided(d, r, b) # NoDual
<1>1. Decided(d, r, b).decisions[r] # "none"
  BY DecidedOK
<1>2. NoDual.decisions[r] = "none"
  BY DEF NoDual
<1> QED BY <1>1, <1>2

(* No step of hers opens an end of a connection that is there.                *)
LEMMA AliceWasUp ==
  ASSUME IType, NoBurst, NumbersOK, MaxBursts = 0, AliceStep, NEW r \in Role,
         conn'[r] = conn[r], Up(r, conn[r])'
  PROVE  Up(r, conn[r])
<1>1. PICK c \in Conns : c = conn[r] /\ c <= conns
  BY TypeParts DEF IType, EndpointOK, CoreOK, Refs, NumbersOK, Conns, Up
<1>2. link'[c].up[r] => link[c].up[r]
  BY <1>1, AliceWires DEF Role
<1> QED BY <1>1, <1>2 DEF Up, Conns

(* Her task leaves the commands alone.                                        *)
LEMMA MeasuresCommand ==
  ASSUME IType, NoBurst, Measures \/ Replaces
  PROVE  cmd' = cmd
<1>1. EndpointOK /\ "measure" \in Tasks
  BY TypeParts DEF IType, Tasks
<1>2. MeasureStep \/ RecoveryStep("measure") \/ Redialled("measure") \/ RedialFails("measure")
  BY OnlyMeasures
<1> QED BY <1>1, <1>2, MeasureStepStill, RecoveryStepStill
        DEF Redialled, Reconnected, RedialFails, EstablishFails

(* A decision under way outlasts what is not of her runtime.                  *)
LEMMA DecidesOn ==
  ASSUME IType, NoBurst, Firm, MaxBursts = 0, AliceStep, ~OwnStep("alice"),
         cmd'["alice"].pc = "deciding"
  PROVE  /\ cmd'["alice"] = cmd["alice"] /\ conn' = conn
         /\ task'["measure"] \in {"request", "ready", "failed", "off"}
         /\ Up("alice", conn["alice"])' =>
               dual'["alice"] = dual["alice"] /\ Up("alice", conn["alice"])
<1>1. /\ CommandOK /\ EndpointOK /\ CoreOK /\ TaskOK /\ link \in Links /\ "alice" \in Role
      /\ "measure" \in Tasks
  BY TypeParts DEF IType, EndpointOK, CoreOK, Role, Tasks, AliceOK
<1>2. ~Connects /\ ~Dialled /\ ~DialFails /\ ~AliceDisconnectBegins
  <2>1. \A k : cmd' = [cmd EXCEPT !["alice"] = k] => cmd'["alice"] = k
    BY <1>1 DEF CommandOK
  <2>2. NoCommand.pc = "idle" /\ [NoCommand EXCEPT !.pc = "stopping"].pc = "stopping"
    BY DEF NoCommand
  <2>3. cmd' # [cmd EXCEPT !["alice"] = NoCommand]
    BY <2>1, <2>2
  <2>4. ~DialFails /\ ~Dialled
    BY <2>3 DEF DialFails, ConnectFails, ConnectAbandoned, Dialled, Connected
  <2>5. ~AliceDisconnectBegins
    BY <2>1, <2>2 DEF AliceDisconnectBegins
  <2>6. ~Connects
    <3>1. cmd["alice"] \in Commands
      BY <1>1 DEF CommandOK
    <3>2. ASSUME Connects PROVE FALSE
      <4>1. cmd' = [cmd EXCEPT !["alice"].pc = "connecting"]
        BY <3>2 DEF Connects, Connect
      <4>2. cmd'["alice"].pc = "connecting"
        BY <1>1, <3>1, <4>1 DEF CommandOK, Commands
      <4> QED BY <4>2
    <3> QED BY <3>2
  <2> QED BY <2>4, <2>5, <2>6
<1>3. ~Bursts
  BY TypeParts DEF Bursts, IType, BoundOK
<1>4. Measures \/ Replaces
  BY <1>2, <1>3 DEF AliceStep
<1>5. cmd' = cmd
  BY <1>4, MeasuresCommand
<1>6. task["measure"] \in {"request", "ready", "failed", "off"} /\ Deciding("alice")
      /\ (Up("alice", conn["alice"]) /\ dual["alice"].ready = "yes" =>
             dual["alice"].decisions["alice"] = "MATCH")
  BY <1>1, <1>5 DEF Firm
<1>7. MeasureStep
  BY <1>4, <1>6, OnlyMeasures
     DEF RecoveryStep, RecoverBegins, ProofSent, Recovered, Resumed, Redialled, RedialFails,
         Reconnected, EstablishFails
<1>8. GuardFailed \/ RequestSent \/ BothDecided \/ RespondTimesOut
  BY <1>6, <1>7 DEF MeasureStep, LoopHead, Heartbeat, PingSent, HeartbeatStops, Conclude,
      AssessKeeps,
       AssessRotates, AssessVerifies, AtAssess, ResultSent, NoticeSent
<1>9. CASE \E l \in Links : Raises("measure", l)
  <2>1. PICK l \in Links : Raises("measure", l)
    BY <1>9
  <2>2. task'["measure"] \in {"off", "failed"}
    BY <1>1, <2>1, RaisesAlice
  <2>3. ~Up("alice", conn["alice"])' /\ conn' = conn
    BY <1>1, <2>1, RaisesEnds DEF Raises, Restricts
  <2> QED BY <1>5, <2>2, <2>3
<1>10. CASE GuardFailed
  <2>1. task'["measure"] = "off" /\ conn' = conn
    BY <1>1, <1>10 DEF GuardFailed, Goto, TaskOK, Restricts
  <2>2. ~Up("alice", conn["alice"])'
    BY <1>1, <1>10, RestrictsEnds DEF GuardFailed, Restricts, Up
  <2> QED BY <1>5, <2>1, <2>2
<1>11. CASE RequestSent /\ ~\E l \in Links : Raises("measure", l)
  <2>1. task'["measure"] = "ready" /\ UNCHANGED core
    BY <1>1, <1>11 DEF RequestSent, Goto, TaskOK
  <2> QED BY <1>5, <2>1 DEF core, Up
<1>12. CASE BothDecided /\ ~\E l \in Links : Raises("measure", l)
  <2>1. dual["alice"].ready = "yes" /\ CanControl("alice")
    BY <1>1, <1>12 DEF BothDecided
  <2>2. FALSE
    BY <1>5, <1>6, <2>1 DEF CanControl, Deciding
  <2> QED BY <2>2
<1> QED BY <1>1, <1>8, <1>9, <1>10, <1>11, <1>12 DEF RespondTimesOut

(* A decision under way stays about the pending comparison.                   *)
LEMMA AliceDecides ==
  ASSUME IPend, MaxBursts = 0, Speaking, AliceStep, cmd'["alice"].pc = "deciding"
  PROVE  /\ Deciding("alice")'
         /\ task'["measure"] \in {"request", "ready", "failed", "off"}
<1>1. IType /\ NoBurst /\ NumbersOK /\ AsksOK /\ Firm /\ AliceStands /\ "alice" \in Role
  BY DEF IPend, IFresh, IBoth, AInv, Precedes, Speaking, Role
<1>2. dual["alice"] \in Dual /\ CoreOK
  BY <1>1, TypeParts DEF IType, EndpointOK, CoreOK
<1>3. CASE ~OwnStep("alice")
  <2>1. /\ cmd'["alice"] = cmd["alice"] /\ conn' = conn
        /\ task'["measure"] \in {"request", "ready", "failed", "off"}
        /\ Up("alice", conn["alice"])' =>
              dual'["alice"] = dual["alice"] /\ Up("alice", conn["alice"])
    BY <1>1, <1>3, DecidesOn
  <2>2. Deciding("alice")'
    <3>1. cmd["alice"].pc = "deciding" /\ conn'["alice"] = conn["alice"]
      BY <2>1
    <3> QED BY <1>1, <2>1, <3>1 DEF Deciding, Firm
  <2> QED BY <2>1, <2>2
<1>4. CASE OwnStep("alice")
  <2>1. task' = task /\ conn' = conn
    BY <1>1, <1>4, OwnStepPlace
  <2>2. CASE Clicks("alice")
    <3>1. task["measure"] \in {"request", "ready"}
      <4>1. task["measure"] \in {"request", "ready", "result", "notice"}
        BY <1>1, <2>2 DEF Clicks, AsksOK, Responding
      <4>2. dual["alice"].ready # "yes"
        BY <1>1, <2>2 DEF Clicks, Firm
      <4> QED BY <1>1, <2>2, <4>1, <4>2 DEF AliceStands, Clicks
    <3>2. Deciding("alice")'
      BY <2>1, <2>2 DEF Deciding, Clicks
    <3> QED BY <2>1, <3>1, <3>2
  <2>3. CASE cmd'["alice"] = cmd["alice"] /\ cmd["alice"].pc = "deciding" /\ ~Decide("alice")
    <3>1. task'["measure"] \in {"request", "ready", "failed", "off"}
      BY <1>1, <2>1, <2>3 DEF Firm
    <3>2. ASSUME Up("alice", conn["alice"])'
          PROVE  /\ dual'["alice"] # NoDual /\ cmd'["alice"].id = dual'["alice"].id
                 /\ dual'["alice"].decisions["alice"] = "none" /\ cmd'["alice"].conn = conn'["alice"]
      <4>1. Up("alice", conn["alice"])
        BY <1>1, <2>1, <3>2, AliceWasUp
      <4>2. /\ dual["alice"] # NoDual /\ cmd["alice"].id = dual["alice"].id
            /\ dual["alice"].decisions["alice"] = "none" /\ cmd["alice"].conn = conn["alice"]
        BY <1>1, <2>3, <4>1 DEF Firm, Deciding
      <4>3. CASE dual'["alice"] = dual["alice"]
        BY <2>1, <2>3, <4>2, <4>3
      <4>4. ASSUME NEW b \in BOOLEAN, dual'["alice"] = Decided(dual["alice"], "bob", b)
            PROVE  dual'["alice"] # NoDual /\ dual'["alice"].id = dual["alice"].id
                   /\ dual'["alice"].decisions["alice"] = dual["alice"].decisions["alice"]
        <5>1. "bob" \in Role /\ "alice" # "bob"
          BY DEF Role
        <5> QED BY <1>1, <1>2, <4>4, <5>1, DecidedOK, DecidedIsDual
      <4> QED BY <1>1, <1>4, <2>1, <2>3, <3>2, <4>2, <4>3, <4>4, OwnDual
    <3>3. Deciding("alice")'
      BY <3>2 DEF Deciding
    <3> QED BY <3>1, <3>3
  <2> QED BY <1>1, <1>4, <2>2, <2>3, OwnCommand
<1> QED BY <1>3, <1>4

(* Both people answered MATCH when a comparison is said to be done.           *)
LEMMA CountsBoth ==
  ASSUME NEW d \in Dual, NEW M, HonestDual(d, M), NEW r \in Role, NEW b \in BOOLEAN,
         d.decisions[r] = "none", d.ready = "yes" => \A q \in Role : d.decisions[q] = "MATCH",
         Decided(d, r, b).ready = "yes"
  PROVE  \A q \in Role : Decided(d, r, b).decisions[q] = "MATCH"
<1>1. Peer(r) \in Role /\ Peer(r) # r /\ \A q \in Role : q = r \/ q = Peer(r)
  BY PeerOK DEF Role, Peer
<1>2. d.ready = "waiting"
  BY DecidedOK
<1>3. b /\ d.decisions[Peer(r)] # "none"
  BY <1>2, DecidedOK
<1>4. d.decisions[Peer(r)] = "MATCH"
  BY <1>1, <1>2, <1>3 DEF HonestDual, Dual
<1>5. Decided(d, r, b).decisions[r] = "MATCH" /\ Decided(d, r, b).decisions[Peer(r)] = d.decisions[Peer(r)]
  <2>1. \A q \in Role : Decided(d, r, b).decisions[q] =
               IF q # r THEN d.decisions[q] ELSE IF b THEN "MATCH" ELSE "other"
    BY DecidedOK
  <2> QED BY <1>1, <1>3, <2>1
<1> QED BY <1>1, <1>4, <1>5

(* A comparison that is ready to confirm has two MATCHes.                     *)
LEMMA AliceReadyYes ==
  ASSUME MaxBursts = 0, IPend, Speaking, AliceStep, Up("alice", conn["alice"])',
         dual'["alice"].ready = "yes"
  PROVE  \A r \in Role : dual'["alice"].decisions[r] = "MATCH"
<1>1. IType /\ NoBurst /\ NumbersOK /\ AsksOK /\ IdleOK /\ Firm /\ "alice" \in Role /\ "bob" \in Role
      /\ "measure" \in Tasks /\ AnswersOK
  BY DEF IPend, IFresh, IBoth, AInv, Precedes, Speaking, Role, Tasks
<1>2. dual["alice"] \in Dual /\ CoreOK /\ HonestDual(dual["alice"], matched) /\ NoDual.ready = "no"
  BY <1>1, TypeParts DEF IType, EndpointOK, CoreOK, AnswersOK, NoDual
<1>3. CASE conn'["alice"] # conn["alice"]
  <2>1. dual' = dual /\ ~Responding
    <3>1. PICK c \in Conns : Redials(c) \/ Connected(c)
      BY <1>1, <1>3, AliceMoves
    <3>2. CASE Redials(c)
      BY <3>2 DEF Redials, Reconnected, Responding
    <3>3. CASE Connected(c)
      BY <1>1, <3>3 DEF Connected, IdleOK, Idle, Responding
    <3> QED BY <3>1, <3>2, <3>3
  <2> QED BY <1>1, <1>2, <2>1 DEF AsksOK
<1>4. CASE conn'["alice"] = conn["alice"]
  <2>1. Up("alice", conn["alice"])
    BY <1>1, <1>4, AliceWasUp
  <2>2. dual["alice"].ready = "yes" => \A q \in Role : dual["alice"].decisions[q] = "MATCH"
    BY <1>1, <2>1 DEF Firm
  <2>3. CASE dual'["alice"] = dual["alice"]
    BY <2>2, <2>3
  <2>4. CASE ~OwnStep("alice") /\ dual'["alice"] # dual["alice"]
    <3>1. NewDual(ids + 1, guard = "verified").ready = "waiting"
      BY DEF NewDual
    <3> QED BY <1>1, <1>2, <2>4, <3>1, AliceStepDual DEF Kept
  <2>5. ASSUME NEW r \in Role, NEW b \in BOOLEAN, dual["alice"].decisions[r] = "none",
               dual'["alice"] = Decided(dual["alice"], r, b)
        PROVE  \A q \in Role : dual'["alice"].decisions[q] = "MATCH"
    <3>1. PICK d \in Dual : d = dual["alice"]
      BY <1>2
    <3>2. \A q \in Role : Decided(d, r, b).decisions[q] = "MATCH"
      BY <1>2, <2>2, <2>5, <3>1, CountsBoth
    <3> QED BY <2>5, <3>1, <3>2
  <2>6. CASE OwnStep("alice") /\ Decide("alice") /\ dual'["alice"] # dual["alice"]
    <3>1. ~Restricts("alice", link)
      BY <1>1, <1>2, TypeParts, RestrictsEnds DEF CoreOK, Restricts, Up
    <3>2. dual' = [dual EXCEPT !["alice"] = Decided(@, "alice", cmd["alice"].match)]
      BY <2>6, <3>1 DEF Decide, core
    <3>3. dual'["alice"] = Decided(dual["alice"], "alice", cmd["alice"].match)
      BY <1>1, <1>2, <3>2 DEF CoreOK
    <3>4. cmd["alice"].match \in BOOLEAN
      BY <1>1, TypeParts DEF IType, EndpointOK, CommandOK, Commands
    <3>5. dual["alice"].decisions["alice"] = "none"
      BY <1>1, <2>1, <2>6 DEF Decide, Firm, Deciding
    <3> QED BY <1>1, <2>5, <3>3, <3>4, <3>5
  <2> QED BY <1>1, <2>3, <2>4, <2>5, <2>6, OwnDual
<1> QED BY <1>3, <1>4

(* Her steps keep Firm.                                                       *)
LEMMA AliceFirm ==
  ASSUME MaxBursts = 0, IPend, Speaking, AliceStep
  PROVE  Firm'
<1>1. IType /\ NoBurst /\ NumbersOK /\ Firm
  BY DEF IPend, IFresh, IBoth, Speaking
<1>2. BobStands /\ conn'["bob"] = conn["bob"]
  BY <1>1, AliceLeavesBob
<1>3. Up("bob", conn["bob"])' => Up("bob", conn["bob"])
  BY <1>1, <1>2, AliceWasUp DEF Role
<1>4. Deciding("bob")' /\ (cmd'["bob"].pc = "deciding" => gate'["bob"] \in {"VERIFYING", "RESTRICTED", "CLOSED"})
  BY <1>1, <1>2, <1>3 DEF Firm, Deciding, BobStands
<1>5. Deciding("alice")' /\ (cmd'["alice"].pc = "deciding" =>
                                task'["measure"] \in {"request", "ready", "failed", "off"})
  BY AliceDecides DEF Deciding
<1>6. Up("alice", conn["alice"])' /\ dual'["alice"].ready = "yes" =>
          \A r \in Role : dual'["alice"].decisions[r] = "MATCH"
  BY AliceReadyYes
<1> QED BY <1>4, <1>5, <1>6 DEF Firm

-------------------------------------------------------------------------------
(* Her reader                                                                 *)

(* A reader starts on the connection of an assessment, or goes on reading.    *)
Attaches ==
    /\ reader'["alice"].pc = "recv" /\ reader'["alice"].conn = conn'["alice"]
    /\ gate'["alice"] = "VERIFYING"
    /\ guard' = "unverified" \/ (task["measure"] = "establish" /\ guard' = guard)
ReadsOnwards ==
    /\ reader["alice"].pc # "off" /\ reader'["alice"].pc \in {"recv", "lock"}
    /\ reader'["alice"].conn = reader["alice"].conn

(* A measuring step does not change the connection.                           *)
LEMMA MeasureConn ==
  ASSUME MeasureStep
  PROVE  conn' = conn
<1>1. \A t, l : Raises(t, l) => conn' = conn
  BY DEF Raises, Restricts
<1> QED
    BY <1>1 DEF MeasureStep, GuardFailed, Restricts, LoopHead, Heartbeat, PingSent, HeartbeatStops,
     Conclude, Concludes, AssessKeeps, AssessRotates, AssessVerifies, RequestSent, BothDecided,
     RespondTimesOut, ResultSent, NoticeSent, core

(* How a step of her runtime moves her reader.                                *)
LEMMA OwnReader ==
  ASSUME IType, Slots, OwnStep("alice")
  PROVE  /\ reader'["alice"] = reader["alice"] \/ reader'["alice"].pc = "off" \/ ReadsOnwards
         /\ AliceDisconnectEnds => reader'["alice"].pc = "off"
<1>1. ReaderOK /\ EndpointOK /\ reader["alice"].pc \in {"off", "recv", "lock"} /\ "alice" \in Role
  BY TypeParts DEF IType, EndpointOK, Slots, Role
<1>2. reader' = [reader EXCEPT !["alice"] = NoReader] => reader'["alice"].pc = "off"
  BY <1>1 DEF ReaderOK, NoReader
<1>3. AliceDisconnectEnds => reader'["alice"].pc = "off"
  BY <1>2 DEF AliceDisconnectEnds, DisconnectEnds
<1>4. ReaderLoops("alice") /\ reader["alice"].pc # "off" => reader'["alice"].pc = "off" \/ ReadsOnwards
  <2>1. reader["alice"] \in Readers
    BY <1>1 DEF ReaderOK
  <2>2. [reader["alice"] EXCEPT !.pc = "recv", !.msg = NoMsg].pc = "recv"
        /\ [reader["alice"] EXCEPT !.pc = "recv", !.msg = NoMsg].conn = reader["alice"].conn
    BY <2>1 DEF Readers
  <2> QED BY <1>1, <2>2 DEF ReaderLoops, ReaderOK, NoReader, ReadsOnwards
<1>5. CASE Reads("alice")
  <2>1. CASE AliceReads
    <3>1. PICK m, l : /\ Delivered("alice", m, l)
                      /\ AliceHandle(m, l) \/ Postpones("alice", l)
      BY <2>1, AliceReadsOne
    <3>2. reader["alice"].pc # "off"
      BY <3>1 DEF Delivered
    <3>3. CASE Postpones("alice", l)
      <4>1. PICK n : reader' = [reader EXCEPT !["alice"].pc = "lock", !["alice"].msg = n]
        BY <3>3 DEF Postpones
      <4>2. reader["alice"] \in Readers
        BY <1>1 DEF ReaderOK
      <4>3. reader'["alice"] = [reader["alice"] EXCEPT !.pc = "lock", !.msg = n]
        BY <1>1, <4>1 DEF ReaderOK
      <4>4. ReadsOnwards
        BY <3>2, <4>2, <4>3 DEF ReadsOnwards, Readers
      <4> QED BY <1>3, <4>4
    <3>4. CASE AliceHandle(m, l)
      <4>1. ReaderLoops("alice") \/ ReaderRaises("alice", l)
        BY <3>4, AliceHandleCases DEF AliceHears, HandleResponse, HandleShutdown, Refuse
      <4> QED BY <1>2, <1>3, <1>4, <3>2, <4>1 DEF ReaderRaises
    <3> QED BY <3>1, <3>3, <3>4
  <2>2. CASE ReaderSeesClose("alice") \/ ReaderSent("alice") \/ EndOfStream("alice")
    BY <1>1, <1>2, <1>3, <2>2 DEF ReaderSeesClose, ReaderSent, EndOfStream, LinkFails, ReaderRaises
  <2> QED BY <1>5, <2>1, <2>2 DEF Reads
<1>6. CASE ~Reads("alice")
  BY <1>3, <1>6
     DEF OwnStep, Answers, Confirm, CommandStep, Decide, AliceStops, SendShutdown,
         TabCloses, ConfirmAbandoned, DisconnectAbandoned, StopAbandoned, Timeouts,
         VerificationEnds, LinkFails
<1> QED BY <1>5, <1>6

(* How any step of hers moves it.                                             *)
LEMMA AliceReader ==
  ASSUME IType, NoBurst, MaxBursts = 0, Slots, AliceStep
  PROVE  \/ reader'["alice"] = reader["alice"] \/ reader'["alice"].pc = "off"
         \/ (ReadsOnwards /\ OwnStep("alice")) \/ Attaches
<1>1. ReaderOK /\ EndpointOK /\ CoreOK /\ "measure" \in Tasks
  BY TypeParts DEF IType, EndpointOK, Tasks
<1>2. CASE OwnStep("alice")
  BY <1>2, OwnReader
<1>3. CASE Connects \/ DialFails \/ AliceDisconnectBegins
  BY <1>3 DEF Connects, Connect, DialFails, ConnectFails, ConnectAbandoned, AliceDisconnectBegins
<1>4. ASSUME NEW c, Connected(c) PROVE Attaches
  BY <1>1, <1>4 DEF Connected, Attaches, ReaderOK, CoreOK, NewGuard, Role
<1>5. ~Bursts
  BY TypeParts DEF Bursts, IType, BoundOK
<1>6. CASE Measures \/ Replaces
  <2>1. CASE MeasureStep
    BY <1>1, <2>1, MeasureStepStill
  <2>2. CASE RecoveryStep("measure")
    BY <1>1, <2>2 DEF RecoveryStep, RecoverBegins, ProofSent, Recovered, Resumed, ReaderOK,
        NoReader, Role
  <2>3. CASE Redialled("measure")
    <3>1. PICK c \in Conns : Reconnected("measure", c, LinkUp(c))
      BY <2>3 DEF Redialled
    <3>2. CASE gate["alice"] = "RECONNECTING"
      <4>1. /\ gate' = [gate EXCEPT !["alice"] = "VERIFYING"]
            /\ conn' = [conn EXCEPT !["alice"] = c]
            /\ reader' = [reader EXCEPT !["alice"] = [pc |-> "recv", conn |-> c, msg |-> NoMsg]]
            /\ guard' = guard /\ task["measure"] = "establish"
        BY <3>1, <3>2 DEF Reconnected
      <4> QED BY <1>1, <4>1 DEF Attaches, ReaderOK, CoreOK, Role
    <3>3. CASE gate["alice"] # "RECONNECTING"
      BY <3>1, <3>3 DEF Reconnected
    <3> QED BY <3>2, <3>3
  <2>4. CASE RedialFails("measure")
    BY <2>4 DEF RedialFails, EstablishFails
  <2> QED BY <1>6, <2>1, <2>2, <2>3, <2>4, OnlyMeasures
<1> QED BY <1>2, <1>3, <1>4, <1>5, <1>6 DEF AliceStep, Dialled

(* A step of hers leaves her connection alone, or it lets go of one.          *)
LEMMA AliceConn ==
  ASSUME IType, NoBurst, MaxBursts = 0, Slots, AliceStep, reader'["alice"].pc # "off"
  PROVE  conn'["alice"] = conn["alice"] \/ Attaches
<1>1. ReaderOK /\ EndpointOK /\ CoreOK /\ "measure" \in Tasks
  BY TypeParts DEF IType, EndpointOK, Tasks
<1>2. \A t, l : Raises(t, l) => conn' = conn
  BY DEF Raises, Restricts
<1>3. CASE OwnStep("alice")
  BY <1>3, OwnStepConn DEF IType, Role
<1>4. CASE Connects
  <2>1. reader["alice"].pc = "off"
    BY <1>4 DEF Connects, Connect, Slots
  <2> QED BY <1>4, <2>1 DEF Connects, Connect
<1>5. CASE DialFails \/ AliceDisconnectBegins
  BY <1>5 DEF DialFails, ConnectFails, ConnectAbandoned, AliceDisconnectBegins, Restricts, core
<1>6. ASSUME NEW c, Connected(c) PROVE Attaches
  BY <1>1, <1>6 DEF Connected, Attaches, ReaderOK, CoreOK, NewGuard, Role
<1>7. ~Bursts
  BY TypeParts DEF Bursts, IType, BoundOK
<1>8. CASE Measures \/ Replaces
  <2>1. CASE MeasureStep
    BY <2>1, MeasureConn
  <2>2. CASE RecoveryStep("measure")
    BY <1>2, <2>2 DEF RecoveryStep, RecoverBegins, ProofSent, Recovered, Resumed, core
  <2>3. CASE Redialled("measure")
    <3>1. PICK c \in Conns : Reconnected("measure", c, LinkUp(c))
      BY <2>3 DEF Redialled
    <3>2. CASE gate["alice"] = "RECONNECTING"
      <4>1. /\ gate' = [gate EXCEPT !["alice"] = "VERIFYING"]
            /\ conn' = [conn EXCEPT !["alice"] = c]
            /\ reader' = [reader EXCEPT !["alice"] = [pc |-> "recv", conn |-> c, msg |-> NoMsg]]
            /\ guard' = guard /\ task["measure"] = "establish"
        BY <3>1, <3>2 DEF Reconnected
      <4> QED BY <1>1, <4>1 DEF Attaches, ReaderOK, CoreOK, Role
    <3>3. CASE gate["alice"] # "RECONNECTING"
      BY <1>2, <3>1, <3>3 DEF Reconnected
    <3> QED BY <3>2, <3>3
  <2>4. CASE RedialFails("measure")
    BY <1>2, <2>4 DEF RedialFails, EstablishFails
  <2> QED BY <1>8, <2>1, <2>2, <2>3, <2>4, OnlyMeasures
<1> QED BY <1>3, <1>4, <1>5, <1>6, <1>7, <1>8 DEF AliceStep, Dialled

-------------------------------------------------------------------------------
(* Her gate and her heartbeat                                                 *)

(* Her runtime only restricts the gate.                                       *)
LEMMA OwnGate ==
  ASSUME IType, OwnStep("alice"), ~AliceDisconnectEnds
  PROVE  gate'["alice"] \in {gate["alice"], "RESTRICTED"}
<1>1. CoreOK /\ "alice" \in Role
  BY TypeParts DEF IType, EndpointOK, Role
<1>2. \A l : Restricts("alice", l) => gate'["alice"] \in {gate["alice"], "RESTRICTED"}
  BY <1>1 DEF Restricts, CoreOK
<1>3. \A l : ReaderRaises("alice", l) => gate'["alice"] \in {gate["alice"], "RESTRICTED"}
  BY <1>2 DEF ReaderRaises
<1>4. CASE AliceReads
  <2>1. PICK m, l : AliceHandle(m, l) \/ Postpones("alice", l)
    BY <1>4, AliceReadsOne
  <2>2. \/ AliceHears(m, l) \/ HandleResponse("alice", m, l) \/ HandleShutdown("alice", l)
        \/ Refuse("alice", l) \/ Postpones("alice", l)
    BY <2>1, AliceHandleCases
  <2> QED BY <1>2, <1>3, <2>2 DEF AliceHears, HandleResponse, HandleShutdown, Refuse, Postpones
<1>5. CASE ~AliceReads
  BY <1>2, <1>3, <1>5
     DEF OwnStep, Answers, Confirm, CommandStep, Decide, AliceStops, SendShutdown, Reads,
         ReaderSeesClose, ReaderSent, EndOfStream, TabCloses, ConfirmAbandoned,
         DisconnectAbandoned, StopAbandoned, Timeouts, VerificationEnds, LinkFails, core
<1> QED BY <1>4, <1>5

(* She keeps recovering only with the guard as it is.                         *)
LEMMA OwnRecovers ==
  ASSUME IType, OwnStep("alice"), gate'["alice"] = "RECONNECTING"
  PROVE  gate["alice"] = "RECONNECTING" /\ guard' = guard
<1>1. CoreOK /\ "alice" \in Role
  BY TypeParts DEF IType, EndpointOK, Role
<1>2. \A l : ~Restricts("alice", l)
  BY <1>1 DEF Restricts, CoreOK
<1>3. ~AliceDisconnectEnds
  BY <1>1 DEF AliceDisconnectEnds, DisconnectEnds, CoreOK
<1>4. \A l : ReaderRaises("alice", l) => guard' = guard
  BY <1>2 DEF ReaderRaises
<1>5. gate["alice"] = "RECONNECTING"
  BY <1>3, OwnGate
<1>6. CASE AliceReads
  <2>1. PICK m, l : AliceHandle(m, l) \/ Postpones("alice", l)
    BY <1>6, AliceReadsOne
  <2>2. \/ AliceHears(m, l) \/ HandleResponse("alice", m, l) \/ HandleShutdown("alice", l)
        \/ Refuse("alice", l) \/ Postpones("alice", l)
    BY <2>1, AliceHandleCases
  <2> QED
      BY <1>2, <1>4, <1>5, <2>2 DEF AliceHears, HandleResponse, HandleShutdown, Refuse, Postpones
<1>7. CASE ~AliceReads
  BY <1>2, <1>3, <1>4, <1>5, <1>7
     DEF OwnStep, Answers, Confirm, CommandStep, Decide, AliceStops, SendShutdown, Reads,
         ReaderSeesClose, ReaderSent, EndOfStream, TabCloses, ConfirmAbandoned,
         DisconnectAbandoned, StopAbandoned, Timeouts, VerificationEnds, LinkFails, core
<1> QED BY <1>6, <1>7

(* A heartbeat is answered, not sent, by what she reads.                      *)
LEMMA OwnPing ==
  ASSUME IType, OwnStep("alice")
  PROVE  ping' = ping \/ (ping = "sent" /\ ping' = "done")
<1>1. CASE AliceReads
  <2>1. PICK m, l : AliceHandle(m, l) \/ (Postpones("alice", l) /\ UNCHANGED <<ping, recovered>>)
    BY <1>1, AliceReadsOne
  <2> QED BY <2>1, AliceHandleCases DEF AliceHears
<1>2. CASE ~AliceReads
  BY <1>2 DEF OwnStep, Answers, CommandStep, AliceStops, AliceDisconnectEnds, Reads, TabCloses,
              StopAbandoned, Timeouts, OfEither, aliceVars
<1> QED BY <1>1, <1>2

(* A heartbeat is not under way once its task failed.                         *)
LEMMA FailsPaced ==
  ASSUME IType, NoBurst, Paced, Measures \/ Replaces, NEW l \in Links, Raises("measure", l),
         task'["measure"] = "failed"
  PROVE  ping' # "sent"
<1>1. TaskOK /\ "measure" \in Tasks
  BY TypeParts DEF IType, AliceOK, Tasks
<1>2. Guarding \/ AtAssess
  BY <1>1 DEF Raises, Goto, TaskOK
<1>3. ping # "sent"
  BY <1>2 DEF Paced, Guarding, Responding, AtAssess
<1>4. ping' \in {ping, "none"}
  <2>1. ~Heartbeat
    BY <1>2 DEF Heartbeat, Guarding, Responding, AtAssess
  <2>2. MeasureStep => ping' \in {ping, "none"}
    BY <2>1 DEF MeasureStep, GuardFailed, LoopHead, PingSent, HeartbeatStops, Conclude, AssessKeeps,
          AssessRotates, AssessVerifies, RequestSent, BothDecided, RespondTimesOut, ResultSent,
          NoticeSent, Assessed
  <2>3. RecoveryStep("measure") \/ Redialled("measure") \/ RedialFails("measure") => ping' = ping
    BY DEF RecoveryStep, RecoverBegins, ProofSent, Recovered, Resumed, Redialled, Reconnected,
           RedialFails, EstablishFails
  <2> QED BY <2>2, <2>3, OnlyMeasures
<1> QED BY <1>3, <1>4

(* A task that does not fail keeps Paced.                                     *)
LEMMA MeasuresPaced ==
  ASSUME IType, NoBurst, Paced, Measures \/ Replaces, ~\E l \in Links : Raises("measure", l)
  PROVE  Paced'
<1>1. TaskOK /\ "measure" \in Tasks /\ CoreOK /\ link \in Links
  BY TypeParts DEF IType, AliceOK, EndpointOK, CoreOK, Tasks
<1>2. \A pc : Goto("measure", pc) => task'["measure"] = pc
  BY <1>1 DEF Goto, TaskOK
<1>3. \A pc, m, l : Sends("measure", pc, m, l) => task'["measure"] = pc
  BY <1>2 DEF Sends
<1>4. ~Raises("measure", link)
  BY <1>1
<1>5. CASE GuardFailed \/ LoopHead \/ RequestSent
  BY <1>2, <1>4, <1>5 DEF GuardFailed, LoopHead, RequestSent, Paced
<1>6. CASE Heartbeat \/ PingSent \/ HeartbeatStops
  BY <1>2, <1>3, <1>4, <1>6 DEF Heartbeat, PingSent, HeartbeatStops, Paced
<1>7. Concludes => \/ task'["measure"] = "loop"
                   \/ task'["measure"] \in {"resume", "off"}
  BY <1>2, <1>3 DEF Concludes
<1>8. CASE Conclude \/ AssessKeeps
  BY <1>7, <1>8 DEF Conclude, AssessKeeps, Paced, Assessed, AtAssess
<1>9. CASE AssessVerifies
  BY <1>3, <1>4, <1>9 DEF AssessVerifies, Paced, Assessed, AtAssess
<1>10. CASE BothDecided \/ ResultSent
  BY <1>2, <1>3, <1>4, <1>10 DEF BothDecided, ResultSent, Paced
<1>11. CASE NoticeSent
  BY <1>2, <1>4, <1>11 DEF NoticeSent, Paced
<1>12. ~AssessRotates /\ ~RespondTimesOut
  BY <1>4 DEF AssessRotates, RespondTimesOut
<1>13. CASE RecoveryStep("measure")
  <2>1. CASE RecoverBegins("measure")
    BY <1>2, <1>4, <2>1 DEF RecoverBegins, Paced, core
  <2>2. CASE ProofSent("measure") \/ Recovered("measure") \/ Resumed("measure")
    BY <1>2, <1>3, <1>4, <2>2 DEF ProofSent, Recovered, Resumed, Paced
  <2> QED BY <1>13, <2>1, <2>2 DEF RecoveryStep
<1>14. CASE Redialled("measure")
  <2>1. PICK c \in Conns : Reconnected("measure", c, LinkUp(c))
    BY <1>14 DEF Redialled
  <2>2. LinkUp(c) \in Links
    BY <1>1, FreshLink
  <2>3. task["measure"] = "establish" /\ task'["measure"] = "proof" /\ ping' = ping
    BY <1>3, <2>1, <2>2 DEF Reconnected
  <2> QED BY <2>3 DEF Paced
<1>15. CASE RedialFails("measure")
  <2>1. /\ task["measure"] = "establish" /\ ping' = ping
        /\ (UNCHANGED <<gate, guard, task>> \/ \E l \in Links : Raises("measure", l))
    <3>1. \A l \in Links : EstablishFails("measure", l) =>
             /\ task["measure"] = "establish" /\ ping' = ping
             /\ (UNCHANGED <<gate, guard, task>> \/ \E k \in Links : Raises("measure", k))
      BY DEF EstablishFails
    <3> QED BY <1>1, <1>15, <3>1, HalfUpOK DEF RedialFails
  <2> QED BY <2>1 DEF Paced
<1>16. CASE MeasureStep
  BY <1>5, <1>6, <1>8, <1>9, <1>10, <1>11, <1>12, <1>16 DEF MeasureStep
<1> QED BY <1>13, <1>14, <1>15, <1>16, OnlyMeasures

(* Her steps keep Slots.                                                      *)
LEMMA AliceSlots ==
  ASSUME MaxBursts = 0, IPend, Speaking, AliceStep
  PROVE  Slots'
<1>1. /\ IType /\ NoBurst /\ NumbersOK /\ IdleOK /\ Slots /\ "alice" \in Role
      /\ "measure" \in Tasks
  BY DEF IPend, IFresh, IBoth, AInv, Speaking, Role, Tasks
<1>2. /\ conns \in Nat /\ Conns \subseteq Nat /\ EndpointOK /\ CoreOK
      /\ reader["alice"].pc \in {"off", "recv", "lock"}
  BY <1>1, TypeParts, EndpointAssumption
     DEF IType, EndpointOK, CountOK, Refs, Conns, Slots
<1>3. \/ reader'["alice"] = reader["alice"] \/ reader'["alice"].pc = "off"
      \/ (ReadsOnwards /\ OwnStep("alice")) \/ Attaches
  BY <1>1, AliceReader
<1>4. \A c \in Conns : c > conns' => ToAlice(c)' = <<>>
  <2>1. conns' = conns \/ conns' = conns + 1
    BY <1>1, AliceCounted DEF Counted
  <2>2. \A c \in Conns : c > conns' => c > conns
    BY <1>2, <2>1
  <2> QED BY <1>1, <2>2, AliceWires DEF Slots
<1>5. reader'["alice"].pc \in {"off", "recv", "lock"}
  BY <1>2, <1>3 DEF ReadsOnwards, Attaches
<1>6. reader'["alice"].pc # "off" => reader'["alice"].conn = conn'["alice"]
  BY <1>1, <1>3, AliceConn DEF ReadsOnwards, Attaches, Slots
<1>7. ASSUME gate'["alice"] \in {"LOCKED", "CLOSED"} \/ guard' = "none",
             reader'["alice"].pc # "off"
      PROVE  FALSE
  <2>1. ~Attaches
    BY <1>1, <1>7 DEF Attaches, IdleOK, Idle
  <2>2. reader["alice"].pc # "off"
    BY <1>3, <1>7, <2>1 DEF ReadsOnwards
  <2>3. gate["alice"] \notin {"LOCKED", "CLOSED"} /\ guard # "none"
    BY <1>1, <2>2 DEF Slots
  <2>4. CASE OwnStep("alice")
    <3>1. guard' # "none"
      BY <1>1, <2>3, <2>4, OwnStepAlice
    <3>2. ~AliceDisconnectEnds
      BY <1>1, <1>7, <2>4, OwnReader
    <3>3. gate' # [gate EXCEPT !["alice"] = "CLOSED"] => gate'["alice"] \in {gate["alice"], "RESTRICTED"}
      BY <1>1, <2>4, <3>2, OwnGate
    <3> QED BY <1>1, <1>7, <2>3, <2>4, <3>1, <3>2, OwnGate
  <2>5. CASE Measures \/ Replaces
    <3>1. TaskWorks("measure")
      BY <1>1, <2>5, OnlyMeasures DEF TaskWorks
    <3>2. Working
      BY <1>1, <3>1, TaskWorking
    <3> QED BY <1>7, <2>3, <3>2 DEF Working
  <2>6. CASE Connects \/ DialFails \/ AliceDisconnectBegins
    BY <1>2, <1>7, <2>3, <2>6
       DEF Connects, Connect, DialFails, ConnectFails, ConnectAbandoned, AliceDisconnectBegins,
           Restricts, core, CoreOK, Role
  <2>7. ~Dialled
    <3>1. ASSUME NEW c, Connected(c) PROVE FALSE
      BY <1>2, <1>7, <3>1 DEF Connected, CoreOK, NewGuard, Role
    <3> QED BY <3>1 DEF Dialled
  <2>8. ~Bursts
    BY <1>1, TypeParts DEF Bursts, IType, BoundOK
  <2> QED BY <2>4, <2>5, <2>6, <2>7, <2>8 DEF AliceStep
<1> QED BY <1>4, <1>5, <1>6, <1>7 DEF Slots

(* They keep Once.                                                            *)
LEMMA AliceOnce ==
  ASSUME MaxBursts = 0, IPend, Speaking, AliceStep
  PROVE  Once'
<1>1. /\ IType /\ NoBurst /\ IdleOK /\ Once /\ "alice" \in Role /\ "bob" \in Role
      /\ "measure" \in Tasks /\ TypeOK
  BY DEF IPend, IFresh, IBoth, AInv, Speaking, Role, Tasks, IType
<1>2. sessions["alice"] \in Nat /\ sessions \in [Role -> Nat] /\ EndpointOK
  BY <1>1, TypeParts, SessionAssumption DEF BoundOK, Role
<1>3. Still("bob")
  BY <1>1, AliceStepStill DEF IType
<1>4. sessions'["bob"] = 0 => matched'["bob"] = {} /\ dual'["bob"] = NoDual /\ reader'["bob"].pc = "off"
  BY <1>1, <1>3 DEF Once, Still, CoreStill, RestStill
<1>5. ASSUME sessions'["alice"] = 0
      PROVE  approved' = 0 /\ guard' = "none" /\ ping' = "none"
  <2>1. ~Dialled
    BY <1>2, <1>5 DEF Dialled, CountSession, Role
  <2>2. sessions' = sessions
    BY <2>1 DEF AliceStep, Connects, Bursts, DialFails, Measures, Replaces, OwnStep, Answers,
        CommandStep,
         Reads, TabCloses, Timeouts, OfAlice, OfBob, OfEither, Redialled, RedialFails, bounds
  <2>3. approved = 0 /\ guard = "none" /\ ping = "none" /\ \A t \in Tasks : task[t] = "off"
    BY <1>1, <1>5, <2>2 DEF Once, IdleOK, Idle
  <2>4. ~Measures /\ ~Replaces
    <3>1. ASSUME TaskWorks("measure") PROVE FALSE
      BY <1>1, <2>3, <3>1, TaskIsOn
    <3> QED BY <1>1, <3>1, OnlyMeasures DEF TaskWorks
  <2>5. CASE OwnStep("alice")
    <3>1. approved' = approved /\ guard' = "none"
      BY <1>1, <2>3, <2>5, OwnStepPlace, OwnStepAlice
    <3>2. ping' = ping
      BY <1>1, <2>3, <2>5, OwnPing
    <3> QED BY <2>3, <3>1, <3>2
  <2>6. CASE Connects \/ DialFails
    BY <2>3, <2>6 DEF Connects, Connect, DialFails, ConnectFails, ConnectAbandoned, Restricts,
        core, aliceVars
  <2>7. CASE AliceDisconnectBegins
    BY <1>1, <2>3, <2>7 DEF AliceDisconnectBegins, Guarding, Responding
  <2>8. ~Bursts
    BY <1>1, TypeParts DEF Bursts, IType, BoundOK
  <2> QED BY <2>1, <2>4, <2>5, <2>6, <2>7, <2>8 DEF AliceStep
<1> QED BY <1>4, <1>5 DEF Once

(* They keep Paced.                                                           *)
LEMMA AlicePaced ==
  ASSUME MaxBursts = 0, IPend, Speaking, First', AliceStep
  PROVE  Paced'
<1>1. /\ IType /\ NoBurst /\ IdleOK /\ Once /\ Paced /\ "alice" \in Role /\ "measure" \in Tasks
  BY DEF IPend, IFresh, IBoth, AInv, Speaking, Role, Tasks
<1>2. CoreOK /\ TaskOK /\ BoundOK /\ EndpointOK /\ sessions["alice"] \in Nat
  BY <1>1, TypeParts, SessionAssumption DEF IType, EndpointOK, AliceOK, BoundOK, Role
<1>3. CASE OwnStep("alice")
  <2>1. task' = task /\ guard' \in {guard, "unverified"}
    BY <1>1, <1>3, OwnStepPlace, OwnStepAlice
  <2>2. ping' = "sent" => ping = "sent"
    BY <1>1, <1>3, OwnPing
  <2>3. gate'["alice"] = "RECONNECTING" => gate["alice"] = "RECONNECTING" /\ guard' = guard
    BY <1>1, <1>3, OwnRecovers
  <2> QED BY <1>1, <2>1, <2>2, <2>3 DEF Paced
<1>4. CASE Dialled
  <2>1. PICK c \in Conns : Connected(c) /\ CountSession("alice")
    BY <1>4 DEF Dialled
  <2>2. sessions["alice"] = 0
    BY <1>1, <1>2, <2>1, SessionAssumption DEF First, CountSession, BoundOK
  <2>3. ping' = ping /\ gate'["alice"] = "VERIFYING"
    BY <1>1, <1>2, <2>1 DEF Connected, CoreOK
  <2> QED BY <1>1, <2>2, <2>3 DEF Once, Paced
<1>5. CASE Connects \/ DialFails \/ AliceDisconnectBegins
  <2>1. CASE Connects \/ DialFails
    <3>1. task' = task /\ ping' = ping
      BY <2>1 DEF Connects, Connect, DialFails, ConnectFails, ConnectAbandoned, aliceVars
    <3>2. gate'["alice"] = "RECONNECTING" => gate["alice"] = "RECONNECTING" /\ guard' = guard
      BY <1>1, <1>2, <2>1 DEF Connects, Connect, DialFails, ConnectFails, ConnectAbandoned,
          Restricts, core,
                         CoreOK
    <3> QED BY <1>1, <3>1, <3>2 DEF Paced
  <2>2. CASE AliceDisconnectBegins
    <3>1. task'["measure"] = "off"
      BY <1>1, <2>2 DEF AliceDisconnectBegins
    <3> QED BY <3>1 DEF Paced
  <2> QED BY <1>5, <2>1, <2>2
<1>6. CASE Measures \/ Replaces
  <2>1. CASE \E l \in Links : Raises("measure", l)
    <3>1. PICK l \in Links : Raises("measure", l)
      BY <2>1
    <3>2. task'["measure"] \in {"off", "failed"}
      BY <1>1, <3>1, RaisesAlice
    <3>3. task'["measure"] = "failed" => ping' # "sent"
      BY <1>1, <1>6, <3>1, FailsPaced
    <3> QED BY <3>2, <3>3 DEF Paced
  <2>2. CASE ~\E l \in Links : Raises("measure", l)
    BY <1>1, <1>6, <2>2, MeasuresPaced
  <2> QED BY <2>1, <2>2
<1>7. ~Bursts
  BY <1>1, TypeParts DEF Bursts, IType, BoundOK
<1> QED BY <1>3, <1>4, <1>5, <1>6, <1>7 DEF AliceStep

-------------------------------------------------------------------------------
(* She refuses none of his frames.                                            *)

(* She refuses no frame that she reads, for it is one that she waits for.     *)
LEMMA AliceReadsRight ==
  ASSUME Slots, AliceHeard, AliceReads
  PROVE  refused' = refused
<1> DEFINE d == dual["alice"]
           w == ToAlice(conn["alice"])
<1>1. reader["alice"].conn = conn["alice"]
  BY DEF Slots, AliceReads, AliceReceives, AliceGetsLock
<1>2. ASSUME NEW m, NEW l, AliceHandle(m, l),
             \/ m.type = "shutdown"
             \/ m.type = "verify_response" /\ m.id = d.id /\ d # NoDual /\ d.decisions["bob"] = "none"
             \/ m.type = "pong" /\ ping = "sent"
             \/ m.type = "ready" /\ recovered = "waiting"
      PROVE  refused' = refused
  BY <1>2 DEF AliceHandle, HandleResponse, HandleShutdown, Peer, hist
<1>3. CASE AliceReceives
  <2>1. PICK m : m = Head(w)
    OBVIOUS
  <2>2. PICK l : l = Take(link, "alice", conn["alice"])
    OBVIOUS
  <2>3. /\ Up("alice", conn["alice"]) /\ w # <<>> /\ reader["alice"].pc = "recv"
        /\ AliceHandle(m, l) \/ UNCHANGED hist
    BY <1>1, <1>3, <2>1, <2>2 DEF AliceReceives, ToAlice
  <2>4. \/ m.type = "shutdown"
        \/ m.type = "verify_response" /\ m.id = d.id /\ d # NoDual /\ d.decisions["bob"] = "none"
        \/ m.type = "pong" /\ ping = "sent"
        \/ m.type = "ready" /\ recovered = "waiting"
    BY <2>1, <2>3 DEF AliceHeard, Ended, Brings, Got
  <2> QED BY <1>2, <2>3, <2>4 DEF hist
<1>4. CASE AliceGetsLock
  <2>1. PICK m : m = reader["alice"].msg
    OBVIOUS
  <2>2. reader["alice"].pc = "lock" /\ AliceHandle(m, link)
    BY <1>4, <2>1 DEF AliceGetsLock
  <2>3. CASE Up("alice", conn["alice"])
    <3>1. m.type = "verify_response" /\ m.id = d.id /\ d # NoDual /\ d.decisions["bob"] = "none"
      BY <2>1, <2>2, <2>3 DEF AliceHeard
    <3> QED BY <1>2, <2>2, <3>1
  <2>4. CASE ~Up("alice", conn["alice"])
    <3>1. Refuse("alice", link) => refused' = refused
      BY <1>1, <2>4 DEF Refuse
    <3> QED BY <2>2, <3>1, AliceHandleCases DEF AliceHears, HandleResponse, HandleShutdown, hist
  <2> QED BY <2>3, <2>4
<1> QED BY <1>3, <1>4 DEF AliceReads

(* No other step of hers refuses one.                                         *)
LEMMA AliceRight ==
  ASSUME IType, NoBurst, MaxBursts = 0, Slots, AliceHeard, AliceStep
  PROVE  refused' = refused
<1>1. CASE OwnStep("alice")
  <2>1. CASE Answers("alice") \/ CommandStep("alice") \/ TabCloses("alice") \/ Timeouts("alice")
    BY <2>1 DEF Answers, Confirm, CommandStep, Decide, AliceStops, SendShutdown,
        AliceDisconnectEnds,
         DisconnectEnds, TabCloses, ConfirmAbandoned, DisconnectAbandoned, StopAbandoned, Timeouts,
         VerificationEnds, hist
  <2>2. CASE Reads("alice")
    <3>1. CASE AliceReads
      BY <3>1, AliceReadsRight
    <3> QED BY <2>2, <3>1 DEF Reads, ReaderSeesClose, ReaderSent, EndOfStream, LinkFails, hist
  <2>3. CASE LinkFails("alice", conn["alice"])
    BY <2>3 DEF LinkFails, hist
  <2> QED BY <1>1, <2>1, <2>2, <2>3 DEF OwnStep
<1>2. CASE Connects \/ DialFails \/ AliceDisconnectBegins \/ Dialled
  BY <1>2 DEF Connects, Connect, DialFails, ConnectFails, ConnectAbandoned, AliceDisconnectBegins,
      Dialled,
       Connected, hist
<1>3. CASE Measures \/ Replaces
  <2>1. EndpointOK
    BY TypeParts DEF IType
  <2>2. CASE MeasureStep
    BY <2>1, <2>2, MeasureStepStill
  <2>3. CASE RecoveryStep("measure")
    <3>1. "measure" \in Tasks
      BY DEF Tasks
    <3> QED BY <2>1, <2>3, <3>1, RecoveryStepStill
  <2>4. CASE Redialled("measure") \/ RedialFails("measure")
    BY <2>4 DEF Redialled, Reconnected, RedialFails, EstablishFails, hist
  <2> QED BY <1>3, <2>2, <2>3, <2>4, OnlyMeasures
<1>4. ~Bursts
  BY TypeParts DEF Bursts, IType, BoundOK
<1> QED BY <1>1, <1>2, <1>3, <1>4 DEF AliceStep

(* Her steps keep the invariant.                                              *)
LEMMA AliceSpeaking ==
  ASSUME MaxBursts = 0, IPend, IPend', First', Speaking, AliceStep
  PROVE  Speaking'
<1>1. refused' = refused
  BY AliceRight DEF IPend, IFresh, IBoth, Speaking
<1>2. BobHears' /\ CandHears'
  BY AliceBobHears, AliceCandHears
<1>3. AliceHeard' /\ AliceStands' /\ Talk'
  BY AliceTalks
<1>4. Firm' /\ Slots' /\ Once' /\ Paced'
  BY AliceFirm, AliceSlots, AliceOnce, AlicePaced
<1> QED BY <1>1, <1>2, <1>3, <1>4 DEF Speaking

-------------------------------------------------------------------------------
(* What Bob's steps leave of Alice's side, and where a step may take the two. *)

(* What Bob's steps leave of Alice's side.                                    *)
AliceStays == Still("alice") /\ UNCHANGED aliceVars /\ conn'["alice"] = conn["alice"]

(* Her place is as it was.                                                    *)
LEMMA AliceSame ==
  ASSUME AliceStays
  PROVE  /\ Got' = Got /\ GotMatch' = GotMatch /\ On' = On
         /\ Matches("alice")' = Matches("alice") /\ Answered("alice")' = Answered("alice")
         /\ \A t, i, f : AliceAt(t, i, f)' <=> AliceAt(t, i, f)
<1>1. /\ UNCHANGED <<task, asked, approved, ping, recovered>>
      /\ dual'["alice"] = dual["alice"] /\ reader'["alice"] = reader["alice"]
      /\ cmd'["alice"] = cmd["alice"]
  BY DEF AliceStays, Still, CoreStill, RestStill, aliceVars
<1>2. Got' = Got /\ GotMatch' = GotMatch /\ On' = On
  BY <1>1 DEF Got, GotMatch, On
<1>3. Matches("alice")' = Matches("alice") /\ Answered("alice")' = Answered("alice")
  BY <1>1 DEF Matches, Answered
<1>4. \A t, i, f : AliceAt(t, i, f)' <=> AliceAt(t, i, f)
  BY <1>1, <1>3 DEF AliceAt, Asking
<1> QED BY <1>2, <1>3, <1>4

(* What she hears is what she awaits, however far he has come.                *)
LEMMA HearsOn ==
  ASSUME AliceStays, Matches("bob") => Matches("bob")', Answered("bob")' = Answered("bob"),
         NEW n, NEW n2, n # 0 => n2 # 0, n = 0 /\ n2 # 0 => ~Answered("bob"),
         ToAlice(conn["alice"]) \in Seq(Message),
         \/ ToAlice(conn["alice"])' = ToAlice(conn["alice"])
         \/ \E m \in Message : m.type = "shutdown"
               /\ ToAlice(conn["alice"])' = Append(ToAlice(conn["alice"]), m),
         NEW t, NEW i, NEW f, Hears(ToAlice(conn["alice"]), n, t, i, f)
  PROVE  Hears(ToAlice(conn["alice"]), n2, t, i, f)'
<1> DEFINE w == ToAlice(conn["alice"])
<1>1. Got' = Got /\ GotMatch' = GotMatch /\ recovered' = recovered /\ ping' = ping
  BY AliceSame DEF AliceStays, aliceVars
<1>2. PICK v : v = ToAlice(conn["alice"])'
  OBVIOUS
<1>3. /\ Ended(w) => Ended(v)
      /\ \A type, j : Brings(w, type, j) => Brings(v, type, j) /\ Head(v) = Head(w)
  <2>1. CASE v = w
    BY <2>1
  <2>2. ASSUME NEW m \in Message, m.type = "shutdown", v = Append(w, m)
        PROVE  /\ Ended(w) => Ended(v)
               /\ \A type, j : Brings(w, type, j) => Brings(v, type, j) /\ Head(v) = Head(w)
    <3>1. /\ Ended(w) => Ended(v)
          /\ \A type, j : Brings(w, type, j) => Brings(v, type, j)
          /\ w # <<>> => Head(v) = Head(w)
      BY <2>2, EndedStays
    <3> QED BY <3>1 DEF Brings
  <2> QED BY <1>2, <2>1, <2>2
<1>4. Hears(v, n2, t, i, f)' <=> Hears(ToAlice(conn["alice"]), n2, t, i, f)'
  BY <1>2
<1> HIDE DEF w
<1>5. Hears(w, n, t, i, f)
  BY DEF w
<1> QED BY <1>1, <1>2, <1>3, <1>5 DEF Hears

(* A step of Bob takes his place to one of the same script, or of the next.   *)
Follows(n, t, i, f) ==
    \E n2, t2 \in Frames, i2 \in 0 .. MaxIds, f2 \in BOOLEAN :
       /\ Seated(ToBob(conn["bob"]), n2, t2, i2, f2)'
       /\ conn["alice"] = conn["bob"] /\ Up("alice", conn["alice"]) /\ Line(n, t, i, f) =>
             Line(n2, t2, i2, f2)'
BobOn ==
    \A n, t \in Frames, i \in 0 .. MaxIds, f \in BOOLEAN :
       Seated(ToBob(conn["bob"]), n, t, i, f) => Follows(n, t, i, f)

(* To follow it is enough to give his new place in the same script.           *)
LEMMA FollowTo ==
  ASSUME AliceStays, conn'["bob"] = conn["bob"], NEW n \in Frames, NEW n2 \in Frames, NEW t \in Frames,
         NEW i \in 0 .. MaxIds, NEW f \in BOOLEAN, BobAt(n2, i, f)',
         Said(ToBob(conn["bob"]), n2, t, i, f)', Sound(ToBob(conn["bob"]), n2, t, i)',
         Len(ToBob(conn["bob"]))' + n2 = Len(ToBob(conn["bob"])) + n,
         Len(ToBob(conn["bob"]))' \in Int, Len(ToBob(conn["bob"])) \in Int,
         t = 2 /\ i # 0 /\ Reply(ToBob(conn["bob"]), n) => Reply(ToBob(conn["bob"]), n2)',
         conn["alice"] = conn["bob"] /\ Hears(ToAlice(conn["alice"]), n, t, i, f) =>
            Hears(ToAlice(conn["alice"]), n2, t, i, f)'
  PROVE  Follows(n, t, i, f)
<1>1. Seated(ToBob(conn["bob"]), n2, t, i, f)'
  BY DEF Seated
<1>2. ASSUME conn["alice"] = conn["bob"], Line(n, t, i, f)
      PROVE  Line(n2, t, i, f)'
  <2>1. conn'["alice"] = conn'["bob"] /\ ToBob(conn["alice"])' = ToBob(conn["bob"])'
        /\ ToBob(conn["alice"]) = ToBob(conn["bob"])
    BY <1>2 DEF AliceStays, ToBob
  <2>2. AliceAt(t, i, f)' /\ On' = On /\ Matches("alice")' = Matches("alice")
    BY <1>2, AliceSame DEF Line
  <2>3. On => Len(ToBob(conn["alice"]))' = t - n2
    <3>1. PICK x \in Int : x = Len(ToBob(conn["bob"]))
      OBVIOUS
    <3>2. PICK y \in Int : y = Len(ToBob(conn["bob"]))'
      OBVIOUS
    <3>3. y + n2 = x + n /\ n \in Int /\ n2 \in Int /\ t \in Int
      BY <3>1, <3>2 DEF Frames
    <3>4. On => x = t - n
      BY <1>2, <2>1, <3>1 DEF Line
    <3>5. On => y = t - n2
      BY <3>1, <3>2, <3>3, <3>4
    <3> QED BY <2>1, <3>2, <3>5
  <2>4. Hears(ToAlice(conn["alice"]), n2, t, i, f)'
    BY <1>2 DEF Line
  <2>5. t = 2 /\ i # 0 /\ Matches("alice")' => Reply(ToBob(conn["alice"]), n2)'
    BY <1>2, <2>1, <2>2 DEF Line
  <2>6. Said(ToBob(conn["alice"]), n2, t, i, f)' /\ Sound(ToBob(conn["alice"]), n2, t, i)'
    BY <2>1
  <2> QED BY <2>2, <2>3, <2>4, <2>5, <2>6 DEF Line
<1> QED BY <1>1, <1>2 DEF Follows

-------------------------------------------------------------------------------
(* What reaches Alice                                                         *)

(* A frame that waits for Bob's lock belongs to a comparison, and he owes     *)
(* nothing for a recovery.                                                    *)
Holds ==
    reader["bob"].pc = "lock" => reader["bob"].msg.type \in VerifyTypes /\ resume = NoResume

(* What the steps of Bob leave of the wires to Alice: everything, or all but  *)
(* one frame more on the slot's connection.                                   *)
Spares(l, k) ==
    \A c \in Conns : k[c].wire["alice"] = l[c].wire["alice"] /\ k[c].up["alice"] = l[c].up["alice"]
Sends1(l, k) ==
    \/ Spares(l, k)
    \/ conn["bob"] \in Conns /\ l[conn["bob"]].up["bob"]
       /\ \E m \in Message : k = Put(l, "bob", conn["bob"], m)

(* Shutting his end and taking a frame spare her wires.                       *)
LEMMA BobSpares ==
  ASSUME NEW l \in Links
  PROVE  /\ \A c \in Refs : Spares(l, Shut(l, "bob", c))
         /\ \A c \in Conns : l[c].wire["bob"] # <<>> => Spares(l, Take(l, "bob", c))
<1>1. "bob" \in Role /\ "alice" \in Role \ {"bob"}
  BY DEF Role
<1>2. ASSUME NEW c \in Refs PROVE Spares(l, Shut(l, "bob", c))
  BY <1>1, ShutElse DEF Spares
<1>3. ASSUME NEW c \in Conns, l[c].wire["bob"] # <<>> PROVE Spares(l, Take(l, "bob", c))
  BY <1>1, <1>3, TakeElse DEF Spares
<1> QED BY <1>2, <1>3

(* A frame of his is the last on her wire, if she reads it.                   *)
LEMMA BobPutsAlice ==
  ASSUME NEW l \in Links, NEW c \in Conns, NEW m \in Message, NEW k, k = Put(l, "bob", c, m)
  PROVE  /\ \A d \in Conns : /\ k[d].up = l[d].up
                             /\ d # c => k[d].wire["alice"] = l[d].wire["alice"]
                             /\ k[d].wire["bob"] = l[d].wire["bob"]
         /\ l[c].up["alice"] => k[c].wire["alice"] = Append(l[c].wire["alice"], m)
         /\ ~l[c].up["alice"] => k = l
<1>1. "bob" \in Role /\ Peer("bob") = "alice" /\ "alice" \in Role
  BY DEF Role, Peer
<1>2. /\ Put(l, "bob", c, m) \in Links
      /\ \A d \in Conns, q \in Role : Put(l, "bob", c, m)[d].up = l[d].up
  BY <1>1, PutOK
<1>3. /\ l[c].up["alice"] => k[c].wire["alice"] = Append(l[c].wire["alice"], m)
      /\ \A d \in Conns, q \in Role : d # c \/ q = "bob" => k[d].wire[q] = l[d].wire[q]
  <2>1. PICK r \in Role : r = "bob"
    BY <1>1
  <2>2. /\ l[c].up[Peer(r)] => Put(l, r, c, m)[c].wire[Peer(r)] = Append(l[c].wire[Peer(r)], m)
        /\ \A d \in Conns, q \in Role :
              d # c \/ q = r => Put(l, r, c, m)[d].wire[q] = l[d].wire[q]
    BY PutElse
  <2>3. /\ l[c].up[Peer(r)] => k[c].wire[Peer(r)] = Append(l[c].wire[Peer(r)], m)
        /\ \A d \in Conns, q \in Role : d # c \/ q = r => k[d].wire[q] = l[d].wire[q]
    BY <2>1, <2>2, Zenon
  <2> QED BY <1>1, <2>1, <2>3
<1>4. ~l[c].up["alice"] => k = l
  BY <1>1 DEF Put
<1>5. \A d \in Conns : k[d].up = l[d].up
  BY <1>1, <1>2
<1> QED BY <1>1, <1>3, <1>4, <1>5

(* A restriction sends nothing.                                               *)
LEMMA BobRestrictsSpares ==
  ASSUME CoreOK, ReaderOK, NEW l \in Links, Restricts("bob", l) \/ ReaderRaises("bob", l)
  PROVE  Spares(l, link')
<1>1. conn["bob"] \in Refs /\ reader["bob"].conn \in Refs
  BY DEF CoreOK, ReaderOK, Readers, Role
<1> QED BY <1>1, BobSpares DEF Restricts, ReaderRaises

(* Handling a frame sends at most one, and one of a comparison none.          *)
LEMMA BobHandleSends ==
  ASSUME CoreOK, ReaderOK, NEW m \in Message, NEW l \in Links, BobHandle(m, l),
         m.type \notin {"none", "pong"}, conn["bob"] \in Conns
  PROVE  \/ Spares(l, link')
         \/ \E k \in Message : link' = Put(l, "bob", conn["bob"], k)
            /\ (m.type \notin VerifyTypes \/ resume # NoResume)
<1>1. link' = l => Spares(l, link')
  BY DEF Spares
<1>2. Refuse("bob", l) => Spares(l, link')
  BY BobRestrictsSpares DEF Refuse
<1>3. Notice("pong") \in Message /\ Notice("ready") \in Message
  BY ValuesOK
<1>4. CASE m.type = "verify_request" /\ BobVerifyRequest(m, l)
  BY <1>1, <1>2, <1>4 DEF BobVerifyRequest
<1>5. CASE m.type = "verify_response" /\ HandleResponse("bob", m, l)
  BY <1>1, <1>2, <1>5, BobRestrictsSpares DEF HandleResponse
<1>6. CASE m.type = "verification_result" /\ BobResult(m, l)
  BY <1>1, <1>2, <1>3, <1>6 DEF BobResult, Proves
<1>7. CASE m.type = "demo_mode" /\ BobBurst(m, l)
  BY <1>1, <1>2, <1>7 DEF BobBurst
<1>8. CASE m.type = "ping" /\ BobPing(l)
  BY <1>3, <1>8, BobRestrictsSpares DEF BobPing, VerifyTypes
<1>9. CASE m.type = "reconnect" /\ BobReconnect(l)
  BY <1>1, <1>2, <1>9 DEF BobReconnect
<1>10. CASE m.type = "ready" /\ BobReady(l)
  BY <1>1, <1>2, <1>10 DEF BobReady
<1>11. CASE m.type = "shutdown" /\ HandleShutdown("bob", l)
  BY <1>11, BobRestrictsSpares DEF HandleShutdown
<1> QED BY <1>4, <1>5, <1>6, <1>7, <1>8, <1>9, <1>10, <1>11, BobHandleCases

(* So does reading.                                                           *)
LEMMA BobReadsSends ==
  ASSUME IType, Holds, BobReceives \/ BobGetsLock
  PROVE  \E l \in Links :
            /\ Spares(link, l) /\ \A c \in Conns : l[c].up = link[c].up
            /\ Sends1(l, link')
<1>1. PICK m, l : Delivered("bob", m, l) /\ (BobHandle(m, l) \/ Postpones("bob", l))
  BY BobReadsOne
<1>2. /\ m \in Message /\ l \in Links /\ m.type \notin {"none", "pong"}
      /\ conn["bob"] \in Conns /\ reader["bob"].conn = conn["bob"]
  BY <1>1, DeliveredSpoken
<1>3. CoreOK /\ ReaderOK /\ link \in Links /\ "bob" \in Role
  BY TypeParts DEF IType, EndpointOK, CoreOK, Role
<1>4. /\ Spares(link, l) /\ \A c \in Conns : l[c].up = link[c].up
      /\ l[conn["bob"]].up["bob"] \/ (m.type \in VerifyTypes /\ resume = NoResume)
  <2>1. CASE l = link /\ reader["bob"].pc = "lock" /\ m = reader["bob"].msg
    BY <2>1 DEF Spares, Holds
  <2>2. CASE /\ Up("bob", conn["bob"]) /\ link[conn["bob"]].wire["bob"] # <<>>
             /\ l = Take(link, "bob", conn["bob"])
    <3>1. Spares(link, l)
      BY <1>2, <1>3, <2>2, BobSpares
    <3>2. \A c \in Conns : l[c].up = link[c].up
      BY <1>2, <1>3, <2>2, TakeOK
    <3> QED BY <1>2, <2>2, <3>1, <3>2 DEF Up
  <2> QED BY <1>1, <1>2, <2>1, <2>2 DEF Delivered
<1>5. Sends1(l, link')
  <2>1. CASE Postpones("bob", l)
    BY <2>1 DEF Postpones, Spares, Sends1
  <2>2. CASE BobHandle(m, l)
    BY <1>2, <1>3, <1>4, <2>2, BobHandleSends DEF Sends1
  <2> QED BY <1>1, <2>1, <2>2
<1> QED BY <1>2, <1>4, <1>5

(* Such a step leaves every wire to her but the slot's.                       *)
LEMMA SentWires ==
  ASSUME NumbersOK, NEW l \in Links, Spares(link, l), \A c \in Conns : l[c].up = link[c].up,
         Sends1(l, link'), conn'["bob"] = conn["bob"]
  PROVE  \A c \in Conns :
            /\ link'[c].up["alice"] = link[c].up["alice"]
            /\ ToAlice(c)' = ToAlice(c) \/ (c = conn'["bob"] /\ c <= conns /\ link'[c].up["bob"])
<1>1. "bob" \in Role
  BY DEF Role
<1>2. CASE Spares(l, link')
  BY <1>2 DEF Spares, ToAlice
<1>3. ASSUME NEW m \in Message, conn["bob"] \in Conns, l[conn["bob"]].up["bob"],
             link' = Put(l, "bob", conn["bob"], m)
      PROVE  \A c \in Conns :
                /\ link'[c].up["alice"] = link[c].up["alice"]
                /\ \/ ToAlice(c)' = ToAlice(c)
                   \/ c = conn'["bob"] /\ c <= conns /\ link'[c].up["bob"]
  <2>1. \A d \in Conns : /\ link'[d].up = l[d].up
                         /\ d # conn["bob"] => link'[d].wire["alice"] = l[d].wire["alice"]
    BY <1>3, BobPutsAlice
  <2>2. conn["bob"] <= conns
    BY <1>1 DEF NumbersOK
  <2> QED BY <1>3, <2>1, <2>2 DEF Spares, ToAlice
<1> QED BY <1>2, <1>3 DEF Sends1

(* So does every step of Bob.                                                 *)
LEMMA BobWires ==
  ASSUME IType, NumbersOK, Holds, BobStep
  PROVE  \A c \in Conns :
            /\ link'[c].up["alice"] = link[c].up["alice"]
            /\ ToAlice(c)' = ToAlice(c) \/ (c = conn'["bob"] /\ c <= conns /\ link'[c].up["bob"])
<1>1. /\ CoreOK /\ ReaderOK /\ CommandOK /\ link \in Links /\ "bob" \in Role /\ conn["bob"] \in Refs
      /\ BobTypeOK /\ TypeOK
  BY TypeParts DEF IType, EndpointOK, CoreOK, Role
<1>2. Spares(link, link) /\ (CanControl("bob") => conn["bob"] \in Conns /\ link[conn["bob"]].up["bob"])
  BY <1>1 DEF Spares, CanControl, Up, Refs, Conns
<1> DEFINE Fine == \A c \in Conns :
               /\ link'[c].up["alice"] = link[c].up["alice"]
               /\ ToAlice(c)' = ToAlice(c) \/ (c = conn'["bob"] /\ c <= conns /\ link'[c].up["bob"])
<1>3. Spares(link, link') => Fine
  BY DEF Spares, ToAlice
<1>4. conn'["bob"] = conn["bob"] /\ Sends1(link, link') => Fine
  BY <1>1, <1>2, SentWires
<1>5. ASSUME OwnStep("bob"), ~(BobReceives \/ BobGetsLock) PROVE Fine
  <2>1. conn' = conn
    BY <1>1, <1>5, OwnStepConn DEF IType
  <2>2. CASE Restricts("bob", link) \/ ReaderRaises("bob", link)
    BY <1>1, <1>3, <2>2, BobRestrictsSpares
  <2>3. CASE link' = link
    BY <1>2, <1>3, <2>3
  <2>4. CASE Answers("bob")
    <3>1. PICK id \in 1 .. ids, match \in BOOLEAN : Confirm("bob", id, match)
      BY <2>4 DEF Answers
    <3>2. Msg("verify_response", id, match) \in Message
      BY <1>1, ValuesOK, TypeParts, EndpointAssumption DEF EndpointOK, CountOK
    <3>3. Restricts("bob", link)
          \/ (CanControl("bob") /\ link' = Put(link, "bob", conn["bob"], Msg("verify_response", id, match)))
      BY <3>1 DEF Confirm
    <3>4. Restricts("bob", link) \/ Sends1(link, link')
      BY <1>2, <3>2, <3>3 DEF Sends1
    <3> QED BY <1>4, <2>1, <2>2, <3>4
  <2>5. CASE CommandStep("bob")
    <3>1. CASE Decide("bob")
      BY <2>2, <2>3, <3>1 DEF Decide, core
    <3>2. CASE BobDisconnectEnds
      <4>1. link' = Shut(AcceptsCancelled, "bob", conn["bob"])
        BY <3>2 DEF BobDisconnectEnds, DisconnectEnds, AcceptsCancelled
      <4>2. AcceptsCancelled \in Links
        BY <1>1, AcceptsCancelledOK
      <4>3. Spares(link, AcceptsCancelled)
        <5>1. ASSUME NEW c \in Conns
              PROVE  /\ AcceptsCancelled[c].wire["alice"] = link[c].wire["alice"]
                     /\ AcceptsCancelled[c].up["alice"] = link[c].up["alice"]
          <6>1. c \in Refs
            BY DEF Refs, Conns
          <6> QED BY <1>1, <6>1, BobSpares DEF Spares, AcceptsCancelled
        <5> QED BY <5>1 DEF Spares
      <4>4. Spares(AcceptsCancelled, link')
        BY <1>1, <4>1, <4>2, BobSpares
      <4> QED BY <1>3, <4>3, <4>4 DEF Spares
    <3> QED BY <2>5, <3>1, <3>2 DEF CommandStep
  <2>6. CASE TabCloses("bob")
    <3>1. \E c \in Refs : link' = Shut(link, "bob", c)
      BY <1>1, <2>6 DEF TabCloses, ConfirmAbandoned, DisconnectAbandoned, CommandOK, Commands
    <3> QED BY <1>1, <1>3, <3>1, BobSpares
  <2>7. CASE Timeouts("bob")
    BY <2>2, <2>7 DEF Timeouts, VerificationEnds, ReservationExpires
  <2>8. CASE Reads("bob")
    <3>1. CASE ProofHandled \/ ReaderSeesClose("bob") \/ ReaderSent("bob")
      BY <2>2, <2>3, <3>1 DEF ProofHandled, ReaderSeesClose, ReaderSent, core
    <3>2. CASE EndOfStream("bob")
      <4>1. \E c \in Refs : link' = Shut(link, "bob", c)
        BY <1>1, <3>2 DEF EndOfStream, LinkFails, ReaderOK, Readers
      <4> QED BY <1>1, <1>3, <4>1, BobSpares
    <3> QED BY <1>5, <2>8, <3>1, <3>2 DEF Reads, BobReads
  <2>9. CASE LinkFails("bob", conn["bob"])
    BY <1>1, <1>3, <2>9, BobSpares DEF LinkFails
  <2> QED BY <1>5, <2>4, <2>5, <2>6, <2>7, <2>8, <2>9 DEF OwnStep
<1>6. ASSUME BobReceives \/ BobGetsLock, OwnStep("bob") PROVE Fine
  <2>1. conn' = conn
    BY <1>1, <1>6, OwnStepConn DEF IType
  <2>2. PICK l \in Links : /\ Spares(link, l) /\ \A c \in Conns : l[c].up = link[c].up
                           /\ Sends1(l, link')
    BY <1>6, BobReadsSends
  <2> QED BY <2>1, <2>2, SentWires
<1>7. CASE Listens
  BY <1>2, <1>3, <1>7 DEF Listens, StartServer
<1>8. CASE BobDisconnectBegins
  <2>1. link' = link \/ (CanControl("bob") /\ link' = Put(link, "bob", conn["bob"], Notice("shutdown")))
    BY <1>8 DEF BobDisconnectBegins, SendShutdown
  <2>2. Notice("shutdown") \in Message /\ conn'["bob"] = conn["bob"]
    BY <1>8, ValuesOK DEF BobDisconnectBegins, SendShutdown
  <2> QED BY <1>2, <1>3, <1>4, <2>1, <2>2 DEF Sends1
<1>9. ASSUME NEW c \in Conns, Admission(c) PROVE Fine
  <2>1. c \in Refs
    BY DEF Refs, Conns
  <2>2. CASE Accept(c) \/ CandidateEnds(c)
    BY <1>1, <1>2, <1>3, <2>1, <2>2, BobSpares DEF Accept, CandidateEnds
  <2>3. CASE Admit(c)
    <3>1. PICK l : l = Take(link, "bob", c)
      OBVIOUS
    <3>2. l \in Links /\ Spares(link, l) /\ (\A d \in Conns : l[d].up = link[d].up) /\ link[c].up["bob"]
          /\ c <= conns
      <4>1. link[c].wire["bob"] # <<>> /\ link[c].up["bob"] /\ cand[c].pc # "none"
        BY <2>3 DEF Admit, Up
      <4> QED BY <1>1, <3>1, <4>1, BobSpares, TakeOK DEF NumbersOK
    <3>3. CASE link' = Shut(l, "bob", c)
      <4>1. Spares(l, link')
        BY <2>1, <3>2, <3>3, BobSpares
      <4> QED BY <1>3, <3>2, <4>1 DEF Spares
    <3>4. CASE conn'["bob"] = c /\ link' = Put(l, "bob", c, Notice("ready"))
      <4>1. Notice("ready") \in Message
        BY ValuesOK
      <4>2. \A d \in Conns : /\ link'[d].up = l[d].up
                             /\ d # c => link'[d].wire["alice"] = l[d].wire["alice"]
        BY <3>2, <3>4, <4>1, BobPutsAlice
      <4> QED BY <3>2, <3>4, <4>2 DEF Spares, ToAlice
    <3>5. (conn'["bob"] = c /\ link' = Put(l, "bob", c, Notice("ready"))) \/ link' = Shut(l, "bob", c)
      BY <1>1, <2>3, <3>1 DEF Admit, AttachBob, Proves, CoreOK
    <3> QED BY <3>3, <3>4, <3>5
  <2> QED BY <1>9, <2>2, <2>3 DEF Admission, Admits
<1> QED BY <1>5, <1>6, <1>7, <1>8, <1>9 DEF BobStep

-------------------------------------------------------------------------------
(* Bob's reader                                                               *)

(* The slot's connection is up and its reader at a place of the script.       *)
SeatUp == IPend /\ Firm /\ Holds /\ Up("bob", conn["bob"])

(* The reader has taken m from the wire, which l leaves.                      *)
Receiving(m, l) ==
    /\ reader["bob"].pc = "recv" /\ reader["bob"].conn = conn["bob"]
    /\ ToBob(conn["bob"]) # <<>> /\ m = Head(ToBob(conn["bob"]))
    /\ l \in Links /\ l[conn["bob"]].wire["bob"] = Tail(ToBob(conn["bob"]))
    /\ l[conn["bob"]].wire["alice"] = ToAlice(conn["bob"])
    /\ cmd' = cmd /\ conn' = conn /\ AliceStays

(* The step refuses nothing and follows the script.                           *)
Good(n, t, i, f) == refused' = refused /\ (Up("bob", conn["bob"])' => Follows(n, t, i, f))

(* What a step of his on an open connection may rest on.                      *)
LEMMA SeatUpParts ==
  ASSUME SeatUp
  PROVE  /\ CoreOK /\ ReaderOK /\ HistOK /\ CommandOK /\ link \in Links /\ conn["bob"] \in Conns
         /\ "bob" \in Role /\ "alice" \in Role /\ WaitsAlone /\ BInv /\ NumbersOK /\ AsksOK
         /\ ToBob(conn["bob"]) \in Seq(Message) /\ ToAlice(conn["bob"]) \in Seq(Message)
         /\ \A l \in Links : Restricts("bob", l) => ~Up("bob", conn["bob"])'
         /\ cmd["bob"].pc = "deciding" => /\ dual["bob"] # NoDual /\ cmd["bob"].id = dual["bob"].id
                                          /\ dual["bob"].decisions["bob"] = "none"
                                          /\ cmd["bob"].conn = conn["bob"]
<1>1. /\ CoreOK /\ ReaderOK /\ HistOK /\ CommandOK /\ "bob" \in Role /\ "alice" \in Role
      /\ WaitsAlone /\ BInv /\ NumbersOK /\ AsksOK
  BY TypeParts DEF SeatUp, IPend, IFresh, IBoth, IType, EndpointOK, Role, Precedes
<1>2. conn["bob"] \in Conns /\ link \in Links
  BY <1>1 DEF SeatUp, Up, CoreOK, Refs, Conns
<1>3. ToBob(conn["bob"]) \in Seq(Message) /\ ToAlice(conn["bob"]) \in Seq(Message)
  BY <1>1, <1>2 DEF ToBob, ToAlice, Links, Ends
<1>4. \A l \in Links : Restricts("bob", l) => ~Up("bob", conn["bob"])'
  BY <1>1, RestrictsEnds
<1> QED BY <1>1, <1>2, <1>3, <1>4 DEF SeatUp, Firm, Deciding

(* What he takes: the next frame of the script, or the notice that she leaves.*)
LEMMA ReadsFrame ==
  ASSUME SeatUp, NEW m, NEW l, Receiving(m, l), NEW n \in Frames, NEW t \in Frames, NEW i, NEW f,
         Said(ToBob(conn["bob"]), n, t, i, f)
  PROVE  /\ n = t => m.type = "shutdown"
         /\ n # t => n + 1 \in Frames /\ Frame(m, n + 1, i, f) /\ n < t
<1>1. ToBob(conn["bob"]) \in Seq(Message)
  BY SeatUpParts
<1>2. n = t => m.type = "shutdown"
  BY <1>1, SaidNone DEF Receiving
<1>3. n # t => n + 1 \in Frames /\ Frame(m, n + 1, i, f)
  BY <1>1, SaidHead DEF Receiving
<1>4. n <= t
  BY DEF Said
<1> QED BY <1>2, <1>3, <1>4 DEF Frames

(* What she hears after her third frame does not depend on Bob's place.       *)
LEMMA HearsLate ==
  ASSUME AliceStays, NEW n, NEW n2, NEW t \in Frames, t >= 3, NEW i, NEW f,
         ToAlice(conn["alice"])' = ToAlice(conn["alice"]),
         Hears(ToAlice(conn["alice"]), n, t, i, f)
  PROVE  Hears(ToAlice(conn["alice"]), n2, t, i, f)'
<1>1. t \in {3, 4} /\ t # 0 /\ t # 2 /\ t \notin {1, 2}
  BY DEF Frames
<1>2. Ended(ToAlice(conn["alice"]))
  BY <1>1 DEF Hears
<1>3. Ended(ToAlice(conn["alice"]))'
  BY <1>2
<1> QED BY <1>1, <1>3 DEF Hears

(* A frame is taken: he is after the next frame of the script.                *)
LEMMA TakesOn ==
  ASSUME SeatUp, NEW m, NEW l, Receiving(m, l), link' = l,
         NEW n \in Frames, NEW n2 \in Frames, n2 = n + 1, NEW t \in Frames, n # t,
         NEW i \in 0 .. MaxIds, NEW f \in BOOLEAN, Seated(ToBob(conn["bob"]), n, t, i, f),
         BobAt(n2, i, f)',
         n2 >= 3 \/ ((Matches("bob") => Matches("bob")') /\ Answered("bob")' = Answered("bob")),
         n = 0 => ~Answered("bob"),
         i # 0 /\ t >= 2 /\ n2 < 3 /\ Reply(ToBob(conn["bob"]), n) => Reply(ToBob(conn["bob"]), n2)'
  PROVE  Follows(n, t, i, f)
<1> DEFINE s == ToBob(conn["bob"])
<1>1. s \in Seq(Message) /\ ToAlice(conn["bob"]) \in Seq(Message) /\ s # <<>>
      /\ ToBob(conn["bob"])' = Tail(s) /\ ToAlice(conn["bob"])' = ToAlice(conn["bob"])
      /\ AliceStays /\ conn' = conn
  BY SeatUpParts DEF Receiving, ToBob, ToAlice
<1>2. /\ Said(Tail(s), n2, t, i, f) /\ Len(Tail(s)) = Len(s) - 1 /\ Len(s) \in Nat /\ n <= t
  <2>1. Said(s, n, t, i, f)
    BY DEF Seated
  <2>2. Said(Tail(s), n + 1, t, i, f) /\ Len(Tail(s)) = Len(s) - 1
    BY <1>1, <2>1, SaidHead
  <2>3. n <= t
    BY <2>1 DEF Said
  <2> QED BY <1>1, <2>2, <2>3
<1>3. Said(ToBob(conn["bob"]), n2, t, i, f)'
  BY <1>1, <1>2
<1>4. n \in Int /\ n2 \in Int /\ t \in Int /\ n < t
  BY <1>2 DEF Frames
<1>5. Sound(ToBob(conn["bob"]), n2, t, i)'
  <2>1. ASSUME t >= 3, i # 0, n2 < 3
        PROVE  n2 >= 1 /\ Reply(ToBob(conn["bob"]), n2)' /\ Matches("bob")'
    <3>1. n >= 1 /\ Reply(s, n) /\ Matches("bob")
      BY <1>4, <2>1 DEF Seated, Sound
    <3> QED BY <1>4, <2>1, <3>1
  <2> QED BY <2>1 DEF Sound
<1>6. Len(ToBob(conn["bob"]))' + n2 = Len(s) + n /\ Len(ToBob(conn["bob"]))' \in Int /\ Len(s) \in Int
  BY <1>1, <1>2, <1>4
<1>7. t = 2 /\ i # 0 /\ Reply(s, n) => Reply(ToBob(conn["bob"]), n2)'
  BY <1>4
<1>8. ASSUME conn["alice"] = conn["bob"], Hears(ToAlice(conn["alice"]), n, t, i, f)
      PROVE  Hears(ToAlice(conn["alice"]), n2, t, i, f)'
  <2>1. ToAlice(conn["alice"])' = ToAlice(conn["alice"]) /\ ToAlice(conn["alice"]) \in Seq(Message)
    BY <1>1, <1>8
  <2>2. CASE t >= 3
    BY <1>1, <1>8, <2>1, <2>2, HearsLate
  <2>3. CASE t < 3
    <3>1. (Matches("bob") => Matches("bob")') /\ Answered("bob")' = Answered("bob")
          /\ (n # 0 => n2 # 0) /\ (n = 0 /\ n2 # 0 => ~Answered("bob"))
      BY <1>4, <2>3 DEF Frames
    <3> QED BY <1>1, <1>8, <2>1, <3>1, HearsOn
  <2> QED BY <1>4, <2>2, <2>3
<1> QED BY <1>1, <1>3, <1>5, <1>6, <1>7, <1>8, FollowTo

(* A reader that goes on reading holds no frame.                              *)
LEMMA BobLoops ==
  ASSUME SeatUp, reader["bob"].pc # "off", ReaderLoops("bob")
  PROVE  reader'["bob"].pc # "lock"
<1>1. "bob" \in Role /\ ReaderOK
  BY SeatUpParts
<1> QED BY <1>1, ReaderLoopsMoves DEF Stopped, Moved

(* Her request, which begins a comparison at his place.                       *)
LEMMA RequestRead ==
  ASSUME SeatUp, NEW m \in Message, NEW l, Receiving(m, l), NEW n \in Frames, NEW t \in Frames,
         NEW i \in 0 .. MaxIds, NEW f \in BOOLEAN, Seated(ToBob(conn["bob"]), n, t, i, f), n # t,
         m.type = "verify_request", BobVerifyRequest(m, l)
  PROVE  Good(n, t, i, f)
<1> DEFINE s == ToBob(conn["bob"])
<1>0. Said(s, n, t, i, f) /\ BobAt(n, i, f) /\ Sound(s, n, t, i)
  BY DEF Seated
<1>1. n = 0 /\ i # 0 /\ m.id = i /\ m.flag = f /\ n < t
  <2>1. Frame(m, n + 1, i, f) /\ n < t
    BY <1>0, ReadsFrame
  <2> QED BY <2>1 DEF Frame, Frames
<1>2. /\ dual["bob"] = NoDual /\ reader["bob"].pc = "recv" /\ resume = NoResume
      /\ gate["bob"] \in {"VERIFYING", "ACTIVE"}
  BY <1>0, <1>1 DEF BobAt, BobIdle, BobCompares, BobProven, Receiving
<1>3. /\ BeginVerification("bob", i, f) /\ link' = l /\ UNCHANGED <<conn, resume, guard>>
      /\ UNCHANGED hist /\ ReaderLoops("bob")
  BY <1>1, <1>2 DEF BobVerifyRequest
<1>4. dual'["bob"] = NewDual(i, f) /\ gate'["bob"] = "VERIFYING" /\ reader'["bob"].pc # "lock"
  BY <1>2, <1>3, BobLoops, SeatUpParts DEF BeginVerification, CoreOK
<1>5. PICK p \in Frames : p = 1 /\ p = n + 1
  BY <1>1 DEF Frames
<1>6. BobAt(p, i, f)'
  <2>1. /\ dual'["bob"].id = i /\ dual'["bob"].recovery = f
        /\ dual'["bob"].decisions["alice"] = "none"
    BY <1>4, SeatUpParts DEF NewDual
  <2>2. BobCompares(p, i, f)'
    BY <1>1, <1>2, <1>3, <1>4, <1>5, <2>1 DEF BobCompares
  <2> QED BY <2>2 DEF BobAt
<1>7. ~Answered("bob") /\ Answered("bob")' = Answered("bob") /\ ~Matches("bob")
  <2>1. cmd["bob"].pc # "deciding" /\ cmd' = cmd
    BY <1>2, SeatUpParts DEF Receiving
  <2>2. dual["bob"].decisions["bob"] = "none" /\ dual'["bob"].decisions["bob"] = "none"
    BY <1>2, <1>4, SeatUpParts DEF NoDual, NewDual
  <2>3. Answered("bob")' = Answered("bob")
    BY <2>1, <2>2 DEF Answered
  <2> QED BY <2>1, <2>2, <2>3 DEF Answered, Matches
<1>8. t >= 2 /\ Reply(s, n) => Reply(ToBob(conn["bob"]), p)'
  <2>1. ToBob(conn["bob"])' = Tail(s) /\ s \in Seq(Message) /\ s # <<>>
    BY <1>3, SeatUpParts DEF Receiving, ToBob
  <2>2. ASSUME t >= 2 PROVE Tail(s)[1] = s[2]
    <3>1. Len(s) >= 2 /\ Len(s) \in Nat
      BY <1>0, <1>1, <2>1, <2>2 DEF Said, Frames
    <3> QED BY <2>1, <3>1, EmptySeq
  <2> QED BY <1>1, <1>5, <2>1, <2>2 DEF Reply
<1>9. Follows(n, t, i, f)
  BY <1>1, <1>3, <1>5, <1>6, <1>7, <1>8, TakesOn
<1> QED BY <1>3, <1>9 DEF Good, hist

(* Her answer counts, or waits for the lock.                                  *)
LEMMA ResponsePlace ==
  ASSUME SeatUp, NEW n \in Frames, NEW i \in 0 .. MaxIds, NEW f \in BOOLEAN, BobAt(n, i, f), n \in {1, 2},
         dual["bob"].decisions["alice"] = "none", i # 0, NEW m \in Message,
         m.type = "verify_response", m.id = i, NEW l \in Links, HandleResponse("bob", m, l),
         reader["bob"].pc # "off"
  PROVE  /\ refused' = refused
         /\ Up("bob", conn["bob"])' =>
               /\ link' = l /\ m.flag /\ UNCHANGED <<gate, conn, resume, guard>>
               /\ BobAt(2, i, f)' /\ reader'["bob"].pc # "lock"
               /\ dual'["bob"].decisions["bob"] = dual["bob"].decisions["bob"]
<1>1. /\ dual["bob"].id = i /\ dual["bob"].recovery = f /\ gate["bob"] = "VERIFYING"
      /\ resume = NoResume /\ dual["bob"] # NoDual
  BY DEF BobAt, BobIdle, BobCompares, BobProven, NoDual
<1>2. /\ UNCHANGED hist /\ ReaderLoops("bob")
      /\ \/ Restricts("bob", l)
         \/ /\ m.flag /\ link' = l /\ UNCHANGED <<gate, conn, resume, guard>>
            /\ dual' = [dual EXCEPT !["bob"] = Decided(dual["bob"], "alice", m.flag)]
  BY <1>1 DEF HandleResponse, Peer
<1>3. ASSUME Up("bob", conn["bob"])'
      PROVE  /\ link' = l /\ m.flag /\ UNCHANGED <<gate, conn, resume, guard>>
             /\ BobAt(2, i, f)' /\ reader'["bob"].pc # "lock"
             /\ dual'["bob"].decisions["bob"] = dual["bob"].decisions["bob"]
  <2>1. ~Restricts("bob", l)
    BY <1>3, SeatUpParts
  <2>2. /\ m.flag /\ link' = l /\ UNCHANGED <<gate, conn, resume, guard>>
        /\ dual'["bob"] = Decided(dual["bob"], "alice", TRUE)
    <3>1. m.flag = TRUE
      BY <1>2, <2>1 DEF Message
    <3> QED BY <1>2, <2>1, <3>1, SeatUpParts DEF CoreOK
  <2>3. /\ dual'["bob"].id = i /\ dual'["bob"].recovery = f
        /\ dual'["bob"].decisions["alice"] = "MATCH"
        /\ dual'["bob"].decisions["bob"] = dual["bob"].decisions["bob"]
    <3>1. dual["bob"] \in Dual
      BY SeatUpParts DEF CoreOK
    <3>2. PICK d \in Dual : d = dual["bob"]
      BY <3>1
    <3>3. PICK r \in Role : r = "alice"
      BY DEF Role
    <3>4. PICK y \in BOOLEAN : y = TRUE
      OBVIOUS
    <3>5. /\ Decided(d, r, y).id = d.id /\ Decided(d, r, y).recovery = d.recovery
          /\ \A q \in Role : Decided(d, r, y).decisions[q] =
                IF q # r THEN d.decisions[q] ELSE IF y THEN "MATCH" ELSE "other"
      BY DecidedOK
    <3>6. dual'["bob"] = Decided(d, r, y)
      BY <2>2, <3>2, <3>3, <3>4
    <3>7. "alice" \in Role /\ "bob" \in Role /\ "bob" # "alice"
      BY DEF Role
    <3> QED BY <1>1, <3>2, <3>3, <3>4, <3>5, <3>6, <3>7
  <2>4. reader'["bob"].pc # "lock"
    BY <1>2, BobLoops
  <2>5. BobCompares(2, i, f)'
    BY <1>1, <2>2, <2>3, <2>4 DEF BobCompares
  <2> QED BY <2>2, <2>3, <2>4, <2>5 DEF BobAt
<1> QED BY <1>2, <1>3 DEF hist

(* Her answer, while he compares.                                             *)
LEMMA ResponseRead ==
  ASSUME SeatUp, NEW m \in Message, NEW l, Receiving(m, l), NEW n \in Frames, NEW t \in Frames,
         NEW i \in 0 .. MaxIds, NEW f \in BOOLEAN, Seated(ToBob(conn["bob"]), n, t, i, f), n # t,
         m.type = "verify_response", HandleResponse("bob", m, l)
  PROVE  Good(n, t, i, f)
<1> DEFINE s == ToBob(conn["bob"])
<1>0. Said(s, n, t, i, f) /\ BobAt(n, i, f) /\ Sound(s, n, t, i)
  BY DEF Seated
<1>1. n = 1 /\ i # 0 /\ m.id = i
  <2>1. Frame(m, n + 1, i, f)
    BY <1>0, ReadsFrame
  <2> QED BY <2>1 DEF Frame, Frames
<1>2. dual["bob"].decisions["alice"] = "none" /\ reader["bob"].pc = "recv" /\ l \in Links
  BY <1>0, <1>1 DEF BobAt, BobIdle, BobCompares, BobProven, Receiving
<1>3. /\ refused' = refused
      /\ Up("bob", conn["bob"])' =>
            /\ link' = l /\ BobAt(2, i, f)' /\ reader'["bob"].pc # "lock"
            /\ dual'["bob"].decisions["bob"] = dual["bob"].decisions["bob"]
  BY <1>0, <1>1, <1>2, ResponsePlace
<1>4. ASSUME Up("bob", conn["bob"])' PROVE Follows(n, t, i, f)
  <2>1. PICK p \in Frames : p = 2 /\ p = n + 1
    BY <1>1 DEF Frames
  <2>2. BobAt(p, i, f)' /\ Reply(ToBob(conn["bob"]), p)'
    BY <1>3, <1>4, <2>1 DEF Reply
  <2>3. (Matches("bob") => Matches("bob")') /\ Answered("bob")' = Answered("bob")
    BY <1>3, <1>4 DEF Matches, Answered, Receiving
  <2> QED BY <1>1, <1>3, <1>4, <2>1, <2>2, <2>3, TakesOn
<1> QED BY <1>3, <1>4 DEF Good

(* A message of the comparison waits while Bob's own answer is being sent.    *)
LEMMA PostponedRead ==
  ASSUME SeatUp, NEW m \in Message, NEW l, Receiving(m, l), NEW n \in Frames, NEW t \in Frames,
         NEW i \in 0 .. MaxIds, NEW f \in BOOLEAN, Seated(ToBob(conn["bob"]), n, t, i, f), n # t,
         m.type \in VerifyTypes, cmd["bob"].pc = "deciding", Postpones("bob", l),
         reader'["bob"].pc = "lock", reader'["bob"].msg = m
  PROVE  Good(n, t, i, f)
<1> DEFINE s == ToBob(conn["bob"])
<1>0. Said(s, n, t, i, f) /\ BobAt(n, i, f) /\ Sound(s, n, t, i) /\ s # <<>> /\ m = Head(s)
  BY DEF Seated, Receiving
<1>1. link' = l /\ UNCHANGED <<gate, conn, dual, resume, guard>> /\ refused' = refused /\ cmd' = cmd
  BY DEF Postpones, hist, Receiving
<1>2. dual["bob"] # NoDual /\ reader["bob"].pc # "lock"
  BY SeatUpParts DEF Receiving
<1>3. BobCompares(n, i, f)
  BY <1>0, <1>2 DEF BobAt, BobIdle, BobProven
<1>4. Frame(m, n + 1, i, f) /\ n < t
  BY <1>0, ReadsFrame
<1>5. PICK p \in Frames : p = n + 1 /\ p \in {2, 3}
  BY <1>2, <1>3 DEF BobCompares, Frames, Waiting
<1>6. Matches("bob")' = Matches("bob") /\ Answered("bob")' = Answered("bob")
  BY <1>1 DEF Matches, Answered
<1>7. i # 0
  BY <1>3 DEF BobCompares
<1>8. CASE n = 1
  <2>1. m.type = "verify_response" /\ m.id = i
    BY <1>4, <1>8, <1>7 DEF Frame
  <2>2. dual["bob"].decisions["alice"] = "none"
    BY <1>2, <1>3, <1>8 DEF BobCompares, Waiting
  <2>3. p = 2
    BY <1>5, <1>8
  <2>4. BobCompares(p, i, f)'
    BY <1>1, <1>3, <2>1, <2>2, <2>3 DEF BobCompares, Waiting
  <2>5. s[1] = Head(s)
    BY <1>0
  <2>6. Reply(s, n) => Reply(s, p)'
    BY <1>0, <1>8, <2>3, <2>5 DEF Reply
  <2>7. Reply(s, n) => Reply(ToBob(conn["bob"]), p)'
    BY <2>6, <2>3 DEF Reply
  <2>8. BobAt(p, i, f)'
    BY <2>4 DEF BobAt
  <2>9. Follows(n, t, i, f)
    BY <1>1, <1>5, <1>6, <1>8, <2>7, <2>8, TakesOn
  <2> QED BY <1>1, <2>9 DEF Good
<1>9. CASE n = 2
  <2>1. m.type = "verification_result" /\ m.id = i /\ m.flag = f
    BY <1>4, <1>9, <1>7 DEF Frame
  <2>2. dual["bob"].decisions["alice"] = "MATCH"
    BY <1>2, <1>3, <1>9 DEF BobCompares, Waiting
  <2>3. p = 3 /\ t >= 3
    BY <1>4, <1>5, <1>9 DEF Frames
  <2>4. Matches("bob")'
    BY <1>0, <1>6, <1>7, <1>9, <2>3 DEF Sound
  <2>5. BobCompares(p, i, f)'
    BY <1>1, <1>3, <2>1, <2>2, <2>3, <2>4 DEF BobCompares, Waiting
  <2>6. BobAt(p, i, f)'
    BY <2>5 DEF BobAt
  <2>7. Follows(n, t, i, f)
    <3>1. p >= 3 /\ p = n + 1 /\ ~(p < 3) /\ n # 0
      BY <1>5, <1>9, <2>3
    <3> QED BY <1>1, <2>6, <3>1, TakesOn
  <2> QED BY <1>1, <2>7 DEF Good
<1> QED BY <1>5, <1>8, <1>9 DEF Frames

(* Her result finds both answers.                                             *)
LEMMA ResultPlace ==
  ASSUME SeatUp, NEW i \in 0 .. MaxIds, i # 0, NEW f \in BOOLEAN, dual["bob"].id = i,
         dual["bob"].recovery = f, gate["bob"] = "VERIFYING", resume = NoResume,
         dual["bob"].decisions["alice"] = "MATCH", Matches("bob"), cmd["bob"].pc # "deciding",
         NEW m \in Message, m.type = "verification_result", m.id = i, m.flag = f,
         NEW l, BobResult(m, l), reader["bob"].pc # "off"
  PROVE  /\ refused' = refused /\ link' = l /\ conn' = conn /\ BobIdle(3, f)'
         /\ reader'["bob"].pc # "lock"
<1>1. ResultAgrees(m)
  <2>1. dual["bob"].decisions["bob"] = "MATCH"
    BY DEF Matches
  <2>2. dual["bob"] # NoDual
    BY DEF NoDual
  <2> QED BY <2>1, <2>2 DEF ResultAgrees, Role
<1>2. CanMove(gate["bob"], AfterResult(m))
  BY DEF CanMove, AfterResult, TRANSITIONS
<1>3. /\ gate' = [gate EXCEPT !["bob"] = AfterResult(m)]
      /\ resume' = IF m.flag THEN [id |-> m.id, confirmed |-> FALSE] ELSE resume
      /\ dual' = [dual EXCEPT !["bob"] = NoDual] /\ link' = l
      /\ conn' = conn /\ refused' = refused /\ ReaderLoops("bob")
  BY <1>1, <1>2 DEF BobResult
<1>4. reader'["bob"].pc # "lock"
  BY <1>3, BobLoops
<1>5. dual'["bob"] = NoDual /\ gate'["bob"] = IF f THEN "RECONNECTING" ELSE "ACTIVE"
  BY <1>3, SeatUpParts DEF CoreOK, AfterResult
<1>6. f => resume' # NoResume
  <2>1. f => resume'.id = i
    BY <1>3
  <2> QED BY <2>1 DEF NoResume
<1>7. ~f => resume' = NoResume
  BY <1>3
<1>8. BobIdle(3, f)'
  BY <1>4, <1>5, <1>6, <1>7 DEF BobIdle
<1> QED BY <1>3, <1>4, <1>8

(* Her result, when both have answered MATCH.                                 *)
LEMMA ResultRead ==
  ASSUME SeatUp, NEW m \in Message, NEW l, Receiving(m, l), NEW n \in Frames, NEW t \in Frames,
         NEW i \in 0 .. MaxIds, NEW f \in BOOLEAN, Seated(ToBob(conn["bob"]), n, t, i, f), n # t,
         m.type = "verification_result", cmd["bob"].pc # "deciding", BobResult(m, l)
  PROVE  Good(n, t, i, f)
<1> DEFINE s == ToBob(conn["bob"])
<1>0. Said(s, n, t, i, f) /\ BobAt(n, i, f) /\ Sound(s, n, t, i)
  BY DEF Seated
<1>1. n = 2 /\ i # 0 /\ m.id = i /\ m.flag = f /\ t >= 3
  <2>1. Frame(m, n + 1, i, f) /\ n < t
    BY <1>0, ReadsFrame
  <2> QED BY <2>1 DEF Frame, Frames
<1>2. BobCompares(n, i, f) /\ reader["bob"].pc = "recv"
  BY <1>0, <1>1 DEF BobAt, BobIdle, BobProven, Receiving
<1>3. /\ dual["bob"].id = i /\ dual["bob"].recovery = f /\ gate["bob"] = "VERIFYING"
      /\ resume = NoResume /\ dual["bob"].decisions["alice"] = "MATCH"
  BY <1>1, <1>2 DEF BobCompares, Waiting
<1>4. Matches("bob")
  BY <1>0, <1>1 DEF Sound
<1>5. refused' = refused /\ link' = l /\ BobIdle(3, f)'
  BY <1>1, <1>2, <1>3, <1>4, ResultPlace
<1>6. PICK p \in Frames : p = 3 /\ p = n + 1
  BY <1>1 DEF Frames
<1>7. BobAt(p, i, f)'
  BY <1>5, <1>6 DEF BobAt
<1>8. Follows(n, t, i, f)
  BY <1>1, <1>5, <1>6, <1>7, TakesOn
<1> QED BY <1>5, <1>8 DEF Good

(* She is ready: the slot that her proof reserved opens.                      *)
LEMMA ReadyRead ==
  ASSUME SeatUp, NEW m \in Message, NEW l, Receiving(m, l), NEW n \in Frames, NEW t \in Frames,
         NEW i \in 0 .. MaxIds, NEW f \in BOOLEAN, Seated(ToBob(conn["bob"]), n, t, i, f), n # t,
         m.type = "ready", BobReady(l)
  PROVE  Good(n, t, i, f)
<1> DEFINE s == ToBob(conn["bob"])
<1>0. Said(s, n, t, i, f) /\ BobAt(n, i, f)
  BY DEF Seated
<1>1. n = 2 /\ i = 0
  <2>1. Frame(m, n + 1, i, f)
    BY <1>0, ReadsFrame
  <2> QED BY <2>1 DEF Frame, Frames
<1>2. /\ ~f /\ dual["bob"] = NoDual /\ reader["bob"].pc = "recv" /\ gate["bob"] = "VERIFYING"
      /\ resume.confirmed
  BY <1>0, <1>1 DEF BobAt, BobIdle, BobCompares, BobProven, Receiving
<1>3. /\ gate' = [gate EXCEPT !["bob"] = "ACTIVE"] /\ resume' = NoResume /\ link' = l
      /\ dual' = dual /\ refused' = refused /\ ReaderLoops("bob")
  BY <1>2 DEF BobReady, hist
<1>4. PICK p \in Frames : p = 3 /\ p = n + 1
  BY <1>1 DEF Frames
<1>5. gate'["bob"] = "ACTIVE" /\ reader'["bob"].pc # "lock"
  BY <1>2, <1>3, BobLoops, SeatUpParts DEF CoreOK
<1>6. BobAt(p, i, f)'
  <2>1. BobIdle(p, f)'
    BY <1>2, <1>3, <1>4, <1>5 DEF BobIdle
  <2> QED BY <2>1 DEF BobAt
<1>7. Follows(n, t, i, f)
  BY <1>1, <1>3, <1>4, <1>6, TakesOn
<1> QED BY <1>3, <1>7 DEF Good

(* The announcement that she redials.                                         *)
LEMMA ReconnectRead ==
  ASSUME SeatUp, NEW m \in Message, NEW l, Receiving(m, l), NEW n \in Frames, NEW t \in Frames,
         NEW i \in 0 .. MaxIds, NEW f \in BOOLEAN, Seated(ToBob(conn["bob"]), n, t, i, f), n # t,
         m.type = "reconnect", BobReconnect(l)
  PROVE  Good(n, t, i, f)
<1> DEFINE s == ToBob(conn["bob"])
<1>0. Said(s, n, t, i, f) /\ BobAt(n, i, f)
  BY DEF Seated
<1>1. n = 3 /\ f
  <2>1. Frame(m, n + 1, i, f)
    BY <1>0, ReadsFrame
  <2> QED BY <2>1 DEF Frame, Frames
<1>2. /\ dual["bob"] = NoDual /\ reader["bob"].pc = "recv" /\ gate["bob"] = "RECONNECTING"
      /\ resume # NoResume
  BY <1>0, <1>1 DEF BobAt, BobIdle, BobCompares, BobProven, Receiving, Waiting
<1>3. /\ link' = l /\ UNCHANGED <<gate, conn, dual, resume, guard>> /\ refused' = refused
      /\ ReaderLoops("bob")
  BY <1>2 DEF BobReconnect, hist
<1>4. PICK p \in Frames : p = 4 /\ p = n + 1
  BY <1>1 DEF Frames
<1>5. reader'["bob"].pc # "lock"
  BY <1>2, <1>3, BobLoops
<1>6. BobAt(p, i, f)'
  <2>1. BobIdle(p, f)'
    BY <1>1, <1>2, <1>3, <1>4, <1>5 DEF BobIdle
  <2> QED BY <2>1 DEF BobAt
<1>7. p >= 3 /\ p = n + 1 /\ ~(p < 3) /\ n # 0
  BY <1>1, <1>4
<1>8. Follows(n, t, i, f)
  BY <1>3, <1>6, <1>7, TakesOn
<1> QED BY <1>3, <1>8 DEF Good

(* Her heartbeat: its answer is on its way, and the script starts again.      *)
LEMMA PingAt ==
  ASSUME NEW t \in Frames, t = 4, NEW i \in 0 .. MaxIds, NEW f \in BOOLEAN, ~f, AliceAt(t, i, f),
         NEW z \in Frames, z = 0, NEW y \in BOOLEAN, y
  PROVE  AliceAt(z, i, y) /\ ping = "sent"
<1>1. ping = "sent" /\ task["measure"] \in {"ping", "pong", "off"}
  BY DEF AliceAt
<1> QED BY <1>1 DEF AliceAt, Going

(* Her place after a ping is the beginning of the next script.                *)
LEMMA PingLine ==
  ASSUME AliceStays, NEW n \in Frames, n = 3, NEW t \in Frames, t = 4, NEW i \in 0 .. MaxIds,
         NEW f \in BOOLEAN, ~f, Line(n, t, i, f), NEW z \in Frames, z = 0, NEW y \in BOOLEAN, y,
         ToAlice(conn["alice"]) \in Seq(Message), ToBob(conn["alice"]) \in Seq(Message),
         ToBob(conn["alice"])' = Tail(ToBob(conn["alice"])), ToBob(conn["alice"]) # <<>>,
         ToAlice(conn["alice"])' = Append(ToAlice(conn["alice"]), Notice("pong")),
         Said(ToBob(conn["alice"]), z, z, i, y)'
  PROVE  Line(z, z, i, y)'
<1> DEFINE w == ToAlice(conn["alice"])
           s == ToBob(conn["alice"])
<1>1. AliceAt(z, i, y)' /\ ping' = "sent"
  <2>1. AliceAt(z, i, y) /\ ping = "sent"
    BY PingAt DEF Line
  <2> QED BY <2>1, AliceSame DEF AliceStays, aliceVars
<1>2. Hears(ToAlice(conn["alice"]), z, z, i, y)'
  <2>1. Ended(w)
    BY DEF Line, Hears
  <2>2. Notice("pong") \in Message /\ Notice("pong").type = "pong" /\ Notice("pong").id = 0
    BY ValuesOK DEF Notice, Msg
  <2>3. Brings(Append(w, Notice("pong")), "pong", 0)
    BY <2>1, <2>2, EndedStays
  <2>4. Brings(ToAlice(conn["alice"])', "pong", 0)
    BY <2>3
  <2> QED BY <1>1, <2>4 DEF Hears
<1>3. On' => Len(ToBob(conn["alice"]))' = z - z
  <2>1. On' = On
    BY AliceSame
  <2>2. On => Len(s) = 1
    BY DEF Line
  <2>3. Len(Tail(s)) = Len(s) - 1 /\ Len(s) \in Nat
    BY SeqFacts, ValuesOK
  <2> QED BY <2>1, <2>2, <2>3
<1>4. Sound(ToBob(conn["alice"]), z, z, i)'
  BY DEF Sound
<1>5. (z = 2 /\ i # 0 /\ Matches("alice") => Reply(ToBob(conn["alice"]), z))'
  <2>1. (z = 2) <=> FALSE
    OBVIOUS
  <2> QED BY <2>1, Zenon
<1>6. AliceAt(z, i, y)' /\ Said(ToBob(conn["alice"]), z, z, i, y)'
  BY <1>1
<1> QED BY <1>2, <1>3, <1>4, <1>5, <1>6 DEF Line

(* A ping: he answers it, at the next script's beginning.                     *)
LEMMA PingRead ==
  ASSUME SeatUp, NEW m \in Message, NEW l, Receiving(m, l), NEW n \in Frames, NEW t \in Frames,
         NEW i \in 0 .. MaxIds, NEW f \in BOOLEAN, Seated(ToBob(conn["bob"]), n, t, i, f), n # t,
         l[conn["bob"]].up = link[conn["bob"]].up, m.type = "ping", BobPing(l)
  PROVE  Good(n, t, i, f)
<1> DEFINE s == ToBob(conn["bob"])
<1>0. Said(s, n, t, i, f) /\ BobAt(n, i, f) /\ s \in Seq(Message) /\ s # <<>>
      /\ ToAlice(conn["bob"]) \in Seq(Message)
  BY SeatUpParts DEF Seated, Receiving
<1>1. n = 3 /\ ~f /\ t = 4
  <2>1. Frame(m, n + 1, i, f) /\ n < t
    BY <1>0, ReadsFrame
  <2> QED BY <2>1 DEF Frame, Frames
<1>2. /\ dual["bob"] = NoDual /\ reader["bob"].pc = "recv" /\ gate["bob"] = "ACTIVE"
      /\ resume = NoResume
  BY <1>0, <1>1 DEF BobAt, BobIdle, BobCompares, BobProven, Receiving, Waiting
<1>3. /\ link' = Put(l, "bob", conn["bob"], Notice("pong"))
      /\ reader' = [reader EXCEPT !["bob"].pc = "pong"]
      /\ UNCHANGED <<gate, conn, dual, resume, guard>> /\ refused' = refused
  BY <1>2 DEF BobPing, hist, ControlRefused
<1>4. ToBob(conn["bob"])' = Tail(s)
  <2>1. PICK c \in Conns : c = conn["bob"]
    BY SeatUpParts
  <2>2. \A d \in Conns : Put(l, "bob", c, Notice("pong"))[d].wire["bob"] = l[d].wire["bob"]
    <3>1. PICK k : k = Put(l, "bob", c, Notice("pong"))
      OBVIOUS
    <3>2. PICK p \in Message : p = Notice("pong")
      BY ValuesOK
    <3>3. \A d \in Conns : k[d].wire["bob"] = l[d].wire["bob"]
      BY <3>1, <3>2, BobPutsAlice DEF Receiving
    <3> QED BY <3>1, <3>3
  <2>3. link'[c].wire["bob"] = l[c].wire["bob"]
    BY <1>3, <2>1, <2>2
  <2> QED BY <1>3, <2>1, <2>3 DEF ToBob, Receiving
<1>5. Up("alice", conn["bob"]) =>
         ToAlice(conn["bob"])' = Append(ToAlice(conn["bob"]), Notice("pong"))
  <2>1. PICK c \in Conns : c = conn["bob"]
    BY SeatUpParts
  <2>2. PICK k : k = Put(l, "bob", c, Notice("pong"))
    OBVIOUS
  <2>3. PICK p \in Message : p = Notice("pong")
    BY ValuesOK
  <2>4. l[c].up["alice"] => k[c].wire["alice"] = Append(l[c].wire["alice"], p)
    BY <2>2, <2>3, BobPutsAlice DEF Receiving
  <2> QED BY <1>3, <2>1, <2>2, <2>3, <2>4 DEF ToAlice, Receiving, Up
<1>6. PICK z \in Frames, y \in BOOLEAN : z = 0 /\ y
  <2>1. 0 \in Frames
    BY DEF Frames
  <2>2. \E y \in BOOLEAN : y
    <3> WITNESS TRUE \in BOOLEAN
    <3> QED OBVIOUS
  <2> QED BY <2>1, <2>2
<1>7. Said(ToBob(conn["bob"]), z, z, i, y)'
  <2>1. PICK p \in Frames : p = t /\ p = n + 1
    BY <1>1 DEF Frames
  <2>2. Said(Tail(s), p, p, i, f) /\ Tail(s) \in Seq(Message)
    <3>1. Said(Tail(s), n + 1, t, i, f)
      BY <1>0, <1>1, SaidHead
    <3>2. Tail(s) \in Seq(Message)
      BY <1>0, SeqFacts, ValuesOK
    <3> QED BY <2>1, <3>1, <3>2
  <2>3. Said(Tail(s), z, z, i, y)
    BY <2>2, SaidNone
  <2> QED BY <1>4, <2>3
<1>8. Seated(ToBob(conn["bob"]), z, z, i, y)'
  <2>1. reader'["bob"].pc # "lock"
    BY <1>3, SeatUpParts DEF ReaderOK, Readers
  <2>2. BobIdle(z, y)'
    BY <1>2, <1>3, <1>6, <2>1 DEF BobIdle
  <2>3. Sound(ToBob(conn["bob"]), z, z, i)'
    BY <1>6 DEF Sound
  <2> QED BY <1>7, <2>2, <2>3 DEF Seated, BobAt
<1>9. ASSUME conn["alice"] = conn["bob"], Up("alice", conn["alice"]), Line(n, t, i, f)
      PROVE  Line(z, z, i, y)'
  <2>1. AliceStays /\ conn' = conn
    BY DEF Receiving
  <2>2. /\ ToBob(conn["alice"]) \in Seq(Message) /\ ToAlice(conn["alice"]) \in Seq(Message)
        /\ ToBob(conn["alice"]) # <<>> /\ ToBob(conn["alice"])' = Tail(ToBob(conn["alice"]))
        /\ ToAlice(conn["alice"])' = Append(ToAlice(conn["alice"]), Notice("pong"))
        /\ Said(ToBob(conn["alice"]), z, z, i, y)'
    BY <1>0, <1>4, <1>5, <1>7, <1>9, <2>1
  <2> QED BY <1>1, <1>6, <1>9, <2>1, <2>2, PingLine
<1>10. Follows(n, t, i, f)
  BY <1>8, <1>9 DEF Follows
<1> QED BY <1>3, <1>10 DEF Good

(* The two stay where they are in the script.                                 *)
LEMMA StaysOn ==
  ASSUME SeatUp, AliceStays, conn'["bob"] = conn["bob"], NEW n \in Frames, NEW t \in Frames,
         NEW i \in 0 .. MaxIds, NEW f \in BOOLEAN, Seated(ToBob(conn["bob"]), n, t, i, f),
         ToBob(conn["bob"])' = ToBob(conn["bob"]), BobAt(n, i, f)',
         \/ ToAlice(conn["bob"])' = ToAlice(conn["bob"])
         \/ \E m \in Message : m.type = "shutdown"
               /\ ToAlice(conn["bob"])' = Append(ToAlice(conn["bob"]), m),
         n = 3 \/ ((Matches("bob") => Matches("bob")') /\ Answered("bob")' = Answered("bob")),
         Reply(ToBob(conn["bob"]), n) => Reply(ToBob(conn["bob"]), n)'
  PROVE  Follows(n, t, i, f)
<1>1. ToBob(conn["bob"]) \in Seq(Message) /\ ToAlice(conn["bob"]) \in Seq(Message)
  BY SeatUpParts
<1>2. PICK len \in Int : len = Len(ToBob(conn["bob"]))
  BY <1>1
<1>3. Len(ToBob(conn["bob"]))' = len
  BY <1>2
<1>4. /\ Len(ToBob(conn["bob"]))' + n = Len(ToBob(conn["bob"])) + n
      /\ Len(ToBob(conn["bob"]))' \in Int /\ Len(ToBob(conn["bob"])) \in Int
  BY <1>2, <1>3
<1>5. Said(ToBob(conn["bob"]), n, t, i, f)'
  <2>1. Said(ToBob(conn["bob"]), n, t, i, f)
    BY DEF Seated
  <2> QED BY <2>1
<1>6. Sound(ToBob(conn["bob"]), n, t, i)'
  <2>1. ASSUME t >= 3, i # 0, n < 3
        PROVE  n >= 1 /\ Reply(ToBob(conn["bob"]), n)' /\ Matches("bob")'
    <3>1. n >= 1 /\ Reply(ToBob(conn["bob"]), n) /\ Matches("bob")
      BY <2>1 DEF Seated, Sound
    <3>2. n # 3
      BY <2>1 DEF Frames
    <3> QED BY <3>1, <3>2
  <2> QED BY <2>1 DEF Sound
<1>7. t = 2 /\ i # 0 /\ Reply(ToBob(conn["bob"]), n) => Reply(ToBob(conn["bob"]), n)'
  OBVIOUS
<1>8. ASSUME conn["alice"] = conn["bob"], Hears(ToAlice(conn["alice"]), n, t, i, f)
      PROVE  Hears(ToAlice(conn["alice"]), n, t, i, f)'
  <2>1. /\ ToAlice(conn["alice"]) \in Seq(Message)
        /\ \/ ToAlice(conn["alice"])' = ToAlice(conn["alice"])
           \/ \E m \in Message : m.type = "shutdown"
                 /\ ToAlice(conn["alice"])' = Append(ToAlice(conn["alice"]), m)
    <3>1. ToAlice(conn["alice"])' = ToAlice(conn["bob"])'
      BY <1>8 DEF AliceStays
    <3> QED BY <1>1, <1>8, <3>1
  <2>2. CASE (Matches("bob") => Matches("bob")') /\ Answered("bob")' = Answered("bob")
    BY <1>8, <2>1, <2>2, HearsOn
  <2>3. CASE n = 3
    <3>1. t >= 3
      BY <2>3 DEF Seated, Said, Frames
    <3>2. Ended(ToAlice(conn["alice"]))'
      <4>1. Ended(ToAlice(conn["alice"])) /\ t \in {3, 4}
        BY <1>8, <3>1 DEF Hears, Frames
      <4>2. ASSUME NEW m \in Message, m.type = "shutdown"
            PROVE  Ended(Append(ToAlice(conn["alice"]), m))
        BY <2>1, <4>1, <4>2, EndedStays
      <4> QED BY <2>1, <4>1, <4>2
    <3>3. t \in {3, 4}
      BY <3>1 DEF Frames
    <3> QED BY <3>2, <3>3 DEF Hears
  <2> QED BY <2>2, <2>3
<1> QED BY <1>4, <1>5, <1>6, <1>7, <1>8, FollowTo

(* The lock comes: her answer counts, or her result concludes.                *)
LEMMA LockGood ==
  ASSUME SeatUp, AliceStays, cmd' = cmd, conn' = conn, BobGetsLock, NEW n \in Frames, NEW t \in Frames,
         NEW i \in 0 .. MaxIds, NEW f \in BOOLEAN, Seated(ToBob(conn["bob"]), n, t, i, f)
  PROVE  Good(n, t, i, f)
<1> DEFINE s == ToBob(conn["bob"])
           m == reader["bob"].msg
<1>1. reader["bob"].pc = "lock" /\ cmd["bob"].pc # "deciding" /\ BobHandle(m, link) /\ m \in Message
  BY SeatUpParts DEF BobGetsLock, LockFree, ReaderOK, Readers
<1>2. BobCompares(n, i, f) /\ BobAt(n, i, f)
  BY <1>1 DEF Seated, BobAt, BobIdle, BobProven
<1>3. /\ i # 0 /\ dual["bob"].id = i /\ dual["bob"].recovery = f /\ gate["bob"] = "VERIFYING"
      /\ resume = NoResume /\ m.id = i
      /\ \/ n = 2 /\ dual["bob"].decisions["alice"] = "none" /\ m.type = "verify_response"
         \/ n = 3 /\ dual["bob"].decisions["alice"] = "MATCH" /\ m.type = "verification_result"
            /\ m.flag = f /\ Matches("bob")
  BY <1>1, <1>2 DEF BobCompares, Waiting
<1>4. CASE n = 2 /\ dual["bob"].decisions["alice"] = "none" /\ m.type = "verify_response"
  <2>1. HandleResponse("bob", m, link) /\ link \in Links
    BY <1>1, <1>4, SeatUpParts, BobHandleCases
  <2>2. /\ refused' = refused
        /\ Up("bob", conn["bob"])' =>
              /\ link' = link /\ BobAt(2, i, f)' /\ reader'["bob"].pc # "lock"
              /\ dual'["bob"].decisions["bob"] = dual["bob"].decisions["bob"]
    <3>1. n \in {1, 2} /\ dual["bob"].decisions["alice"] = "none" /\ m.type = "verify_response"
          /\ m.id = i /\ i # 0 /\ reader["bob"].pc # "off"
      BY <1>1, <1>3, <1>4
    <3> QED BY <1>1, <1>2, <2>1, <3>1, ResponsePlace
  <2>3. ASSUME Up("bob", conn["bob"])' PROVE Follows(n, t, i, f)
    <3>1. /\ link' = link /\ BobAt(n, i, f)'
          /\ Matches("bob")' = Matches("bob") /\ Answered("bob")' = Answered("bob")
      BY <1>4, <2>2, <2>3 DEF Matches, Answered
    <3>2. ToBob(conn["bob"])' = s /\ ToAlice(conn["bob"])' = ToAlice(conn["bob"])
      BY <3>1 DEF ToBob, ToAlice
    <3>3. Reply(ToBob(conn["bob"]), n)'
      BY <1>4, <2>2, <2>3 DEF Reply
    <3> QED BY <3>1, <3>2, <3>3, StaysOn
  <2> QED BY <2>2, <2>3 DEF Good
<1>5. CASE /\ n = 3 /\ dual["bob"].decisions["alice"] = "MATCH" /\ m.type = "verification_result"
           /\ m.flag = f /\ Matches("bob")
  <2>1. BobResult(m, link)
    BY <1>1, <1>5, BobHandleCases
  <2>2. refused' = refused /\ link' = link /\ BobIdle(3, f)' /\ reader'["bob"].pc # "lock"
    BY <1>1, <1>3, <1>5, <2>1, ResultPlace
  <2>3. ToBob(conn["bob"])' = s /\ ToAlice(conn["bob"])' = ToAlice(conn["bob"]) /\ BobAt(n, i, f)'
    BY <1>5, <2>2 DEF ToBob, ToAlice, BobAt
  <2>4. Reply(ToBob(conn["bob"]), n)'
    BY <1>5, <2>2 DEF Reply
  <2>5. Follows(n, t, i, f)
    BY <1>5, <2>3, <2>4, StaysOn
  <2> QED BY <2>2, <2>5 DEF Good
<1> QED BY <1>3, <1>4, <1>5

(* Whatever frame he handles, he handles a frame of the script.               *)
LEMMA HandlesGood ==
  ASSUME SeatUp, NEW m \in Message, NEW l, Receiving(m, l), NEW n \in Frames, NEW t \in Frames,
         NEW i \in 0 .. MaxIds, NEW f \in BOOLEAN, Seated(ToBob(conn["bob"]), n, t, i, f),
         l[conn["bob"]].up = link[conn["bob"]].up, m.type \notin {"none", "pong"},
         BobHandle(m, l), m.type \in VerifyTypes => cmd["bob"].pc # "deciding"
  PROVE  Good(n, t, i, f)
<1>1. l \in Links /\ Said(ToBob(conn["bob"]), n, t, i, f)
  BY DEF Receiving, Seated
<1>2. m.type = "shutdown" => HandleShutdown("bob", l)
  BY BobHandleCases
<1>3. CASE m.type = "shutdown"
  <2>1. Restricts("bob", l) /\ refused' = refused
    BY <1>2, <1>3 DEF HandleShutdown, hist
  <2>2. ~Up("bob", conn["bob"])'
    BY <1>1, <2>1, SeatUpParts
  <2> QED BY <2>1, <2>2 DEF Good
<1>4. n = t => m.type = "shutdown"
  BY <1>1, ReadsFrame
<1>5. ASSUME n # t, m.type # "shutdown" PROVE Good(n, t, i, f)
  <2>1. m.type # "demo_mode"
    <3>1. Frame(m, n + 1, i, f)
      BY <1>1, <1>5, ReadsFrame
    <3> QED BY <3>1 DEF Frame
  <2>2. CASE m.type = "verify_request" /\ BobVerifyRequest(m, l)
    BY <1>5, <2>2, RequestRead
  <2>3. CASE m.type = "verify_response" /\ HandleResponse("bob", m, l)
    BY <1>5, <2>3, ResponseRead
  <2>4. CASE m.type = "verification_result" /\ BobResult(m, l)
    BY <1>5, <2>4, ResultRead DEF VerifyTypes
  <2>5. CASE m.type = "ping" /\ BobPing(l)
    BY <1>5, <2>5, PingRead
  <2>6. CASE m.type = "reconnect" /\ BobReconnect(l)
    BY <1>5, <2>6, ReconnectRead
  <2>7. CASE m.type = "ready" /\ BobReady(l)
    BY <1>5, <2>7, ReadyRead
  <2> QED BY <1>5, <2>1, <2>2, <2>3, <2>4, <2>5, <2>6, <2>7, BobHandleCases
<1> QED BY <1>3, <1>4, <1>5

(* So with whatever he receives.                                              *)
LEMMA ReceivesGood ==
  ASSUME SeatUp, AliceStays, cmd' = cmd, conn' = conn, BobReceives, NEW n \in Frames, NEW t \in Frames,
         NEW i \in 0 .. MaxIds, NEW f \in BOOLEAN, Seated(ToBob(conn["bob"]), n, t, i, f)
  PROVE  Good(n, t, i, f)
<1>0. IType /\ "bob" \in Role /\ ReaderOK /\ link \in Links /\ conn["bob"] \in Conns
  BY SeatUpParts DEF SeatUp, IPend, IFresh, IBoth
<1>1. /\ reader["bob"].pc = "recv" /\ reader["bob"].conn = conn["bob"] /\ Up("bob", conn["bob"])
      /\ link[conn["bob"]].wire["bob"] # <<>>
  BY <1>0 DEF BobReceives, IType, SeatOK
<1>2. PICK m, l : m = Head(link[conn["bob"]].wire["bob"]) /\ l = Take(link, "bob", conn["bob"])
  OBVIOUS
<1>3. m \in Message /\ l \in Links /\ m.type \notin {"none", "pong"}
  <2>1. Delivered("bob", m, l)
    BY <1>1, <1>2 DEF Delivered
  <2> QED BY <1>0, <2>1, DeliveredSpoken
<1>4. /\ l[conn["bob"]].wire["bob"] = Tail(link[conn["bob"]].wire["bob"])
      /\ l[conn["bob"]].wire["alice"] = link[conn["bob"]].wire["alice"]
      /\ l[conn["bob"]].up = link[conn["bob"]].up
  <2>1. PICK r \in Role, q \in Role : r = "bob" /\ q = "alice"
    BY DEF Role
  <2>2. PICK c \in Conns : c = conn["bob"]
    BY <1>0
  <2>3. link[c].wire[r] # <<>> /\ l = Take(link, r, c) /\ q # r
    BY <1>1, <1>2, <2>1, <2>2
  <2>4. /\ Take(link, r, c)[c].wire[r] = Tail(link[c].wire[r])
        /\ Take(link, r, c)[c].wire[q] = link[c].wire[q]
    BY <1>0, <2>3, TakeElse
  <2>5. Take(link, r, c)[c].up = link[c].up
    BY <1>0, <2>3, TakeOK
  <2> QED BY <2>1, <2>2, <2>3, <2>4, <2>5
<1>5. Receiving(m, l)
  BY <1>1, <1>2, <1>3, <1>4 DEF Receiving, ToBob, ToAlice
<1>6. IF m.type \in VerifyTypes /\ ~LockFree("bob")
      THEN /\ link' = l
           /\ reader' = [reader EXCEPT !["bob"].pc = "lock", !["bob"].msg = m]
           /\ UNCHANGED <<gate, conn, dual, resume, guard>> /\ UNCHANGED hist
      ELSE BobHandle(m, l)
  BY <1>1, <1>2 DEF BobReceives
<1>7. LockFree("bob") <=> cmd["bob"].pc # "deciding"
  BY <1>1 DEF LockFree
<1>8. CASE m.type \in VerifyTypes /\ ~LockFree("bob")
  <2>1. Postpones("bob", l) /\ reader'["bob"].pc = "lock" /\ reader'["bob"].msg = m
    <3>1. Postpones("bob", l)
      BY <1>6, <1>8 DEF Postpones
    <3>2. Waits("bob")
      BY <1>0, <1>1, <1>2, <1>6, <1>8, WaitsForLockMoves
    <3> QED BY <1>1, <1>2, <3>1, <3>2 DEF Waits
  <2>2. n # t
    <3>1. n = t => m.type = "shutdown"
      BY <1>5, ReadsFrame DEF Seated
    <3> QED BY <1>8, <3>1 DEF VerifyTypes
  <2>3. cmd["bob"].pc = "deciding" /\ m.type \in VerifyTypes
    BY <1>7, <1>8
  <2> QED BY <1>3, <1>5, <2>1, <2>2, <2>3, PostponedRead
<1>9. CASE ~(m.type \in VerifyTypes /\ ~LockFree("bob"))
  BY <1>3, <1>4, <1>5, <1>6, <1>7, <1>9, HandlesGood
<1> QED BY <1>8, <1>9

-------------------------------------------------------------------------------
(* Bob's other steps                                                          *)

(* A step that leaves his place.                                              *)
BobSteady ==
    /\ conn'["bob"] = conn["bob"] /\ dual'["bob"] = dual["bob"] /\ gate'["bob"] = gate["bob"]
    /\ resume' = resume
    /\ cmd'["bob"] = cmd["bob"] \/ (cmd["bob"].pc # "deciding" /\ cmd'["bob"].pc # "deciding")
    /\ \/ reader'["bob"] = reader["bob"]
       \/ reader["bob"].pc # "lock" /\ reader'["bob"].pc # "lock"

(* Such a step leaves what his place is made of.                              *)
LEMMA SteadySame ==
  ASSUME BobSteady
  PROVE  /\ Matches("bob")' = Matches("bob") /\ Answered("bob")' = Answered("bob")
         /\ \A n, i, f : BobAt(n, i, f) => BobAt(n, i, f)'
         /\ \A s, n : Reply(s, n)' = Reply(s, n)
<1>1. Matches("bob")' = Matches("bob") /\ Answered("bob")' = Answered("bob")
  BY DEF BobSteady, Matches, Answered
<1>2. reader'["bob"].pc = "lock" <=> reader["bob"].pc = "lock"
  BY DEF BobSteady
<1>3. reader["bob"].pc = "lock" => reader'["bob"] = reader["bob"]
  BY DEF BobSteady
<1>4. ASSUME NEW n, NEW i, NEW f, BobAt(n, i, f) PROVE BobAt(n, i, f)'
  <2>1. BobIdle(n, f) => BobIdle(n, f)'
    BY <1>2 DEF BobIdle, BobSteady
  <2>2. BobCompares(n, i, f) => BobCompares(n, i, f)'
    BY <1>1, <1>2, <1>3 DEF BobCompares, Waiting, BobSteady
  <2>3. BobProven(n, i, f) => BobProven(n, i, f)'
    BY <1>2 DEF BobProven, BobSteady
  <2> QED BY <1>4, <2>1, <2>2, <2>3 DEF BobAt
<1>5. ASSUME NEW s, NEW n PROVE Reply(s, n)' = Reply(s, n)
  <2>1. (reader["bob"].pc = "lock" => reader["bob"].msg.flag)' =
        (reader["bob"].pc = "lock" => reader["bob"].msg.flag)
    BY <1>2, <1>3
  <2> QED BY <2>1 DEF Reply
<1> QED BY <1>1, <1>4, <1>5

(* It follows the script if it sends at most the notice that he leaves.       *)
LEMMA SteadyFollows ==
  ASSUME SeatUp, AliceStays, BobSteady, ToBob(conn["bob"])' = ToBob(conn["bob"]),
         \/ ToAlice(conn["bob"])' = ToAlice(conn["bob"])
         \/ \E m \in Message : m.type = "shutdown"
               /\ ToAlice(conn["bob"])' = Append(ToAlice(conn["bob"]), m),
         NEW n \in Frames, NEW t \in Frames,
         NEW i \in 0 .. MaxIds, NEW f \in BOOLEAN, Seated(ToBob(conn["bob"]), n, t, i, f)
  PROVE  Follows(n, t, i, f)
<1>1. BobAt(n, i, f)' /\ Matches("bob")' = Matches("bob") /\ Answered("bob")' = Answered("bob")
  BY SteadySame DEF Seated
<1>2. Reply(ToBob(conn["bob"]), n)' = Reply(ToBob(conn["bob"]), n)
  <2>1. PICK s : s = ToBob(conn["bob"])
    OBVIOUS
  <2>2. Reply(s, n)' = Reply(s, n)
    BY SteadySame
  <2>3. ToBob(conn["bob"])' = s
    BY <2>1
  <2> QED BY <2>1, <2>2, <2>3 DEF Reply
<1>3. conn'["bob"] = conn["bob"]
  BY DEF BobSteady
<1> QED BY <1>1, <1>2, <1>3, StaysOn

(* The decision of his human is counted.                                      *)
LEMMA DecideFollows ==
  ASSUME SeatUp, AliceStays, conn' = conn, Decide("bob"), Up("bob", conn["bob"])',
         NEW n \in Frames, NEW t \in Frames,
         NEW i \in 0 .. MaxIds, NEW f \in BOOLEAN, Seated(ToBob(conn["bob"]), n, t, i, f)
  PROVE  Follows(n, t, i, f)
<1>1. ~Restricts("bob", link) /\ dual["bob"] # NoDual /\ cmd["bob"].id = dual["bob"].id
  BY SeatUpParts DEF Decide
<1>2. /\ cmd["bob"].match /\ UNCHANGED <<gate, link, resume, reader>>
      /\ dual' = [dual EXCEPT !["bob"] = Decided(@, "bob", cmd["bob"].match)]
      /\ cmd["bob"].pc = "deciding"
  BY <1>1 DEF Decide
<1>3. /\ dual'["bob"].id = dual["bob"].id /\ dual'["bob"].recovery = dual["bob"].recovery
      /\ dual'["bob"].decisions["alice"] = dual["bob"].decisions["alice"]
      /\ dual'["bob"].decisions["bob"] = "MATCH"
  <2>1. PICK d \in Dual : d = dual["bob"]
    BY SeatUpParts DEF CoreOK
  <2>2. PICK r \in Role, q \in Role : r = "bob" /\ q = "alice"
    BY DEF Role
  <2>3. PICK y \in BOOLEAN : y = cmd["bob"].match
    BY SeatUpParts DEF CommandOK, Commands
  <2>4. /\ Decided(d, r, y).id = d.id /\ Decided(d, r, y).recovery = d.recovery
        /\ \A p \in Role : Decided(d, r, y).decisions[p] =
              IF p # r THEN d.decisions[p] ELSE IF y THEN "MATCH" ELSE "other"
    BY DecidedOK
  <2>5. dual'["bob"] = Decided(d, r, y)
    BY <1>2, <2>1, <2>2, <2>3, SeatUpParts DEF CoreOK
  <2>6. /\ dual'["bob"].id = d.id /\ dual'["bob"].recovery = d.recovery
        /\ \A p \in Role : dual'["bob"].decisions[p] =
              IF p # r THEN d.decisions[p] ELSE IF y THEN "MATCH" ELSE "other"
    BY <2>4, <2>5, Zenon
  <2>7. q # r /\ y
    BY <1>2, <2>2, <2>3
  <2>8. dual'["bob"].decisions[q] = d.decisions[q] /\ dual'["bob"].decisions[r] = "MATCH"
    BY <2>6, <2>7
  <2> QED BY <2>1, <2>2, <2>6, <2>8, Zenon
<1>4. Matches("bob") /\ Matches("bob")' /\ Answered("bob") /\ Answered("bob")'
  BY <1>2, <1>3 DEF Matches, Answered
<1>5. BobAt(n, i, f)'
  <2>1. BobCompares(n, i, f)
    BY <1>1 DEF Seated, BobAt, BobIdle, BobProven
  <2>2. BobCompares(n, i, f)'
    BY <1>2, <1>3, <1>4, <2>1 DEF BobCompares, Waiting
  <2> QED BY <2>2 DEF BobAt
<1>6. ToBob(conn["bob"])' = ToBob(conn["bob"]) /\ ToAlice(conn["bob"])' = ToAlice(conn["bob"])
  BY <1>2 DEF ToBob, ToAlice
<1>7. Reply(ToBob(conn["bob"]), n) => Reply(ToBob(conn["bob"]), n)'
  BY <1>2, <1>6 DEF Reply
<1>8. (Matches("bob") => Matches("bob")') /\ Answered("bob")' = Answered("bob")
  BY <1>4 DEF Answered
<1>9. conn'["bob"] = conn["bob"]
  OBVIOUS
<1> QED BY <1>5, <1>6, <1>7, <1>8, <1>9, StaysOn

(* Bob answers: his answer is on its way to her.                              *)
AnswersWith(m) ==
    /\ m.type = "verify_response" /\ m.id = dual["bob"].id
    /\ dual["bob"] # NoDual /\ dual["bob"].decisions["bob"] = "none" /\ cmd["bob"].pc # "deciding"
    /\ link' = Put(link, "bob", conn["bob"], m)
    /\ cmd'["bob"].pc = "deciding" /\ cmd'["bob"].match = m.flag
    /\ UNCHANGED <<conn, dual, gate, resume, reader>>

(* His answer goes to Alice, who waits for it.                                *)
LEMMA AnswerHears ==
  ASSUME AliceStays, NEW n \in Frames, NEW t \in Frames, t \in {1, 2}, n # 0, NEW i, NEW f, i # 0,
         ~Answered("bob"), Answered("bob")', NEW m \in Message, m.type = "verify_response", m.id = i,
         m.flag => Matches("bob")', ToAlice(conn["alice"]) \in Seq(Message),
         ToAlice(conn["alice"])' = Append(ToAlice(conn["alice"]), m),
         Hears(ToAlice(conn["alice"]), n, t, i, f)
  PROVE  Hears(ToAlice(conn["alice"]), n, t, i, f)'
<1> DEFINE w == ToAlice(conn["alice"])
<1>1. Ended(w) /\ ~Got
  BY DEF Hears
<1>2. Brings(Append(w, m), "verify_response", i)
  BY <1>1, EndedStays
<1>3. Head(Append(w, m)).flag /\ Head(Append(w, m)).type # "shutdown" => Matches("bob")'
  <2>1. w = <<>> => Head(Append(w, m)) = m
    BY EndedStays
  <2>2. w # <<>> => Head(Append(w, m)) = Head(w)
    BY EndedStays
  <2> QED BY <1>1, <2>1, <2>2 DEF Ended
<1>4. ~Got'
  BY <1>1, AliceSame
<1>5. /\ Brings(ToAlice(conn["alice"])', "verify_response", i)
      /\ Head(ToAlice(conn["alice"])').flag /\ Head(ToAlice(conn["alice"])').type # "shutdown"
            => Matches("bob")'
  BY <1>2, <1>3
<1> QED BY <1>4, <1>5 DEF Hears

(* To send the answer follows the script.                                     *)
LEMMA AnswerFollows ==
  ASSUME SeatUp, AliceStays, NEW m \in Message, AnswersWith(m), NEW n \in Frames, NEW t \in Frames,
         NEW i \in 0 .. MaxIds, NEW f \in BOOLEAN, Seated(ToBob(conn["bob"]), n, t, i, f)
  PROVE  Follows(n, t, i, f)
<1> DEFINE s == ToBob(conn["bob"])
<1>1. ~Answered("bob") /\ ~Matches("bob") /\ Answered("bob")' /\ (m.flag => Matches("bob")')
  <2>1. dual["bob"].decisions["bob"] # "MATCH"
    BY DEF AnswersWith
  <2> QED BY <2>1 DEF AnswersWith, Answered, Matches
<1>2. BobCompares(n, i, f) /\ n \in {1, 2} /\ i # 0 /\ m.id = i
  <2>1. BobCompares(n, i, f)
    BY DEF Seated, BobAt, BobIdle, BobProven, AnswersWith
  <2> QED BY <1>1, <2>1 DEF BobCompares, AnswersWith
<1>3. t \in {1, 2}
  <2>1. ~(t >= 3)
    BY <1>1, <1>2 DEF Seated, Sound, Frames
  <2>2. n <= t
    BY DEF Seated, Said
  <2> QED BY <1>2, <2>1, <2>2 DEF Frames
<1>4. BobAt(n, i, f)'
  <2>1. BobCompares(n, i, f)'
    BY <1>2 DEF BobCompares, Waiting, AnswersWith
  <2> QED BY <2>1 DEF BobAt
<1>5. /\ ToBob(conn["bob"])' = s
      /\ Up("alice", conn["bob"]) => ToAlice(conn["bob"])' = Append(ToAlice(conn["bob"]), m)
  <2>1. PICK c \in Conns : c = conn["bob"]
    BY SeatUpParts
  <2>2. link' = Put(link, "bob", c, m)
    BY <2>1 DEF AnswersWith
  <2>3. /\ link'[c].wire["bob"] = link[c].wire["bob"]
        /\ link[c].up["alice"] => link'[c].wire["alice"] = Append(link[c].wire["alice"], m)
    BY <2>2, SeatUpParts, BobPutsAlice
  <2> QED BY <2>1, <2>3 DEF ToBob, ToAlice, AnswersWith, Up
<1>6. Said(s, n, t, i, f)' /\ Sound(s, n, t, i)'
  <2>1. Said(s, n, t, i, f)
    BY DEF Seated
  <2>3. Said(s, n, t, i, f)'
    BY <1>5, <2>1
  <2>4. ~(t >= 3)
    BY <1>3
  <2>5. Sound(s, n, t, i)'
    BY <2>4, Zenon DEF Sound
  <2> QED BY <2>3, <2>5
<1>7. Reply(s, n)' = Reply(s, n)
  BY <1>5 DEF Reply, AnswersWith
<1>8. Seated(s, n, t, i, f)'
  BY <1>4, <1>6 DEF Seated
<1>9. ASSUME conn["alice"] = conn["bob"], Up("alice", conn["alice"]), Line(n, t, i, f)
      PROVE  Line(n, t, i, f)'
  <2>1. conn' = conn
    BY DEF AnswersWith
  <2>2. /\ ToBob(conn["alice"])' = ToBob(conn["alice"])
        /\ ToAlice(conn["alice"])' = Append(ToAlice(conn["alice"]), m)
        /\ ToAlice(conn["alice"]) \in Seq(Message)
        /\ Said(ToBob(conn["alice"]), n, t, i, f)' /\ Sound(ToBob(conn["alice"]), n, t, i)'
        /\ Reply(ToBob(conn["alice"]), n)' = Reply(ToBob(conn["alice"]), n)
    BY <1>5, <1>6, <1>7, <1>9, <2>1, SeatUpParts
  <2>3. Hears(ToAlice(conn["alice"]), n, t, i, f)'
    <3>1. m.type = "verify_response" /\ n # 0 /\ Hears(ToAlice(conn["alice"]), n, t, i, f)
      BY <1>2, <1>9 DEF AnswersWith, Line
    <3> QED BY <1>1, <1>2, <1>3, <2>2, <3>1, AnswerHears
  <2>4. AliceAt(t, i, f)' /\ Matches("alice")' = Matches("alice") /\ On' = On
    BY <1>9, AliceSame DEF Line
  <2>5. On' => Len(ToBob(conn["alice"]))' = t - n
    BY <1>9, <2>2, <2>4 DEF Line
  <2>6. t = 2 /\ i # 0 /\ Matches("alice")' => Reply(ToBob(conn["alice"]), n)'
    BY <1>9, <2>2, <2>4 DEF Line
  <2> QED BY <2>2, <2>3, <2>4, <2>5, <2>6 DEF Line
<1> QED BY <1>8, <1>9 DEF Follows

(* His human's click sends that answer, or nothing.                           *)
LEMMA ConfirmFollows ==
  ASSUME SeatUp, AliceStays, Answers("bob"), Up("bob", conn["bob"])', NEW n \in Frames, NEW t \in Frames,
         NEW i \in 0 .. MaxIds, NEW f \in BOOLEAN, Seated(ToBob(conn["bob"]), n, t, i, f)
  PROVE  Follows(n, t, i, f)
<1>1. PICK id \in 1 .. ids, match \in BOOLEAN : Confirm("bob", id, match)
  BY DEF Answers
<1>2. ~Restricts("bob", link)
  BY SeatUpParts
<1>3. /\ dual["bob"] # NoDual /\ id = dual["bob"].id /\ dual["bob"].decisions["bob"] = "none"
      /\ link' = Put(link, "bob", conn["bob"], Msg("verify_response", id, match))
      /\ cmd' = [cmd EXCEPT !["bob"] = [pc |-> "deciding", conn |-> conn["bob"],
                                        id |-> id, match |-> match]]
      /\ cmd["bob"].pc = "idle" /\ UNCHANGED <<gate, conn, dual, resume, reader>>
  BY <1>1, <1>2 DEF Confirm
<1>4. cmd'["bob"].pc = "deciding" /\ cmd'["bob"].match = match
  BY <1>3, SeatUpParts DEF CommandOK
<1>5. id \in 0 .. MaxIds
  BY <1>3, SeatUpParts DEF CoreOK, Dual
<1>6. PICK m \in Message : m = Msg("verify_response", id, match)
  BY <1>5, ValuesOK
<1>7. m.type = "verify_response" /\ m.id = id /\ m.flag = match
  BY <1>6 DEF Msg
<1>8. AnswersWith(m)
  BY <1>3, <1>4, <1>6, <1>7 DEF AnswersWith
<1> QED BY <1>8, AnswerFollows

(* So do the steps that send nothing,                                         *)
LEMMA QuietFollows ==
  ASSUME SeatUp, AliceStays, BobSteady, link' = link, NEW n \in Frames, NEW t \in Frames,
         NEW i \in 0 .. MaxIds, NEW f \in BOOLEAN, Seated(ToBob(conn["bob"]), n, t, i, f)
  PROVE  Follows(n, t, i, f)
<1>1. conn'["bob"] = conn["bob"]
  BY DEF BobSteady
<1>2. ToBob(conn["bob"])' = ToBob(conn["bob"]) /\ ToAlice(conn["bob"])' = ToAlice(conn["bob"])
  BY <1>1 DEF ToBob, ToAlice
<1> QED BY <1>2, SteadyFollows

(* and the notice that he leaves.                                             *)
LEMMA LeavesFollows ==
  ASSUME SeatUp, AliceStays, BobDisconnectBegins, NEW n \in Frames, NEW t \in Frames,
         NEW i \in 0 .. MaxIds, NEW f \in BOOLEAN, Seated(ToBob(conn["bob"]), n, t, i, f)
  PROVE  Follows(n, t, i, f)
<1>1. /\ cmd["bob"].pc = "idle" /\ cmd' = [cmd EXCEPT !["bob"] = [NoCommand EXCEPT !.pc = "notice"]]
      /\ link' = link \/ link' = Put(link, "bob", conn["bob"], Notice("shutdown"))
      /\ UNCHANGED <<gate, conn, dual, resume, reader>>
  BY DEF BobDisconnectBegins, SendShutdown
<1>2. cmd'["bob"].pc # "deciding"
  <2>1. cmd'["bob"] = [NoCommand EXCEPT !.pc = "notice"]
    BY <1>1, SeatUpParts DEF CommandOK
  <2> QED BY <2>1 DEF NoCommand
<1>3. BobSteady
  BY <1>1, <1>2 DEF BobSteady
<1>4. CASE link' = link
  BY <1>3, <1>4, QuietFollows
<1>5. CASE link' = Put(link, "bob", conn["bob"], Notice("shutdown"))
  <2>1. PICK c \in Conns : c = conn["bob"]
    BY SeatUpParts
  <2>2. PICK m \in Message : m = Notice("shutdown")
    BY ValuesOK
  <2>3. link' = Put(link, "bob", c, m) /\ m.type = "shutdown"
    BY <1>5, <2>1, <2>2 DEF Notice, Msg
  <2>4. /\ link'[c].wire["bob"] = link[c].wire["bob"]
        /\ link[c].up["alice"] => link'[c].wire["alice"] = Append(link[c].wire["alice"], m)
        /\ ~link[c].up["alice"] => link' = link
    BY <2>3, SeatUpParts, BobPutsAlice
  <2>5. ToBob(conn["bob"])' = ToBob(conn["bob"])
    BY <1>1, <2>1, <2>4 DEF ToBob
  <2>6. ToAlice(conn["bob"])' \in {ToAlice(conn["bob"]), Append(ToAlice(conn["bob"]), m)}
    BY <1>1, <2>1, <2>4 DEF ToAlice
  <2> QED BY <1>3, <2>3, <2>5, <2>6, SteadyFollows
<1> QED BY <1>1, <1>4, <1>5

(* His reader resumes after a frame or a proof was handled.                   *)
LEMMA ReaderFollows ==
  ASSUME SeatUp, AliceStays, conn' = conn, ProofHandled \/ ReaderSent("bob"), Up("bob", conn["bob"])',
         NEW n \in Frames, NEW t \in Frames,
         NEW i \in 0 .. MaxIds, NEW f \in BOOLEAN, Seated(ToBob(conn["bob"]), n, t, i, f)
  PROVE  Follows(n, t, i, f)
<1>1. IType
  BY DEF SeatUp, IPend, IFresh, IBoth
<1>2. reader["bob"].pc \in {"ready", "pong"} /\ reader["bob"].conn = conn["bob"] /\ UNCHANGED cmd
  BY <1>1 DEF ProofHandled, ReaderSent, IType, SeatOK
<1>3. Up("bob", reader["bob"].conn)
  BY <1>2 DEF SeatUp
<1>4. UNCHANGED core /\ ReaderLoops("bob")
  BY <1>3 DEF ProofHandled, ReaderSent
<1>5. reader'["bob"].pc # "lock" /\ reader["bob"].pc # "lock"
  BY <1>2, <1>4, BobLoops
<1>6. BobSteady /\ link' = link
  BY <1>2, <1>4, <1>5 DEF BobSteady, core
<1> QED BY <1>6, QuietFollows

(* Every step of his runtime but a reading follows the script.                *)
LEMMA OwnFollows ==
  ASSUME SeatUp, AliceStays, OwnStep("bob"), ~(BobReceives \/ BobGetsLock), Up("bob", conn["bob"])',
         NEW n \in Frames, NEW t \in Frames,
         NEW i \in 0 .. MaxIds, NEW f \in BOOLEAN, Seated(ToBob(conn["bob"]), n, t, i, f)
  PROVE  Follows(n, t, i, f)
<1>1. IType /\ "bob" \in Role /\ CoreOK /\ link \in Links /\ conn["bob"] \in Conns
  BY SeatUpParts DEF SeatUp, IPend, IFresh, IBoth
<1>2. conn' = conn
  BY <1>1, OwnStepConn DEF IType
<1>3. ~Restricts("bob", link)
  BY SeatUpParts
<1>4. \A l \in Links : link' # Shut(l, "bob", conn["bob"])
  <2>1. ASSUME NEW l \in Links, link' = Shut(l, "bob", conn["bob"]) PROVE FALSE
    <3>1. PICK c \in Conns : c = conn["bob"]
      BY <1>1
    <3>2. c \in Refs
      BY DEF Refs, Conns
    <3>3. Shut(l, "bob", c)[c].up["bob"] = FALSE
      BY <1>1, <3>2, ShutElse
    <3> QED BY <1>2, <2>1, <3>1, <3>3 DEF Up
  <2> QED BY <2>1
<1>5. reader["bob"].pc # "off" => reader["bob"].conn = conn["bob"]
  BY <1>1 DEF IType, SeatOK
<1>6. CASE Answers("bob")
  BY <1>6, ConfirmFollows
<1>7. CASE CommandStep("bob")
  <2>1. ~BobDisconnectEnds
    <3>1. BobDisconnectEnds => link' = Shut(AcceptsCancelled, "bob", conn["bob"])
      BY DEF BobDisconnectEnds, DisconnectEnds, AcceptsCancelled
    <3>2. AcceptsCancelled \in Links
      BY <1>1, AcceptsCancelledOK
    <3> QED BY <1>4, <3>1, <3>2
  <2>2. Decide("bob")
    BY <1>7, <2>1 DEF CommandStep
  <2> QED BY <1>2, <2>2, DecideFollows
<1>8. CASE TabCloses("bob")
  <2>1. link' = Shut(link, "bob", conn["bob"])
    BY <1>8, SeatUpParts DEF TabCloses, ConfirmAbandoned, DisconnectAbandoned
  <2> QED BY <1>1, <1>4, <2>1
<1>9. CASE Timeouts("bob")
  BY <1>3, <1>9 DEF Timeouts, VerificationEnds, ReservationExpires
<1>10. CASE Reads("bob")
  <2>1. ~EndOfStream("bob")
    <3>1. EndOfStream("bob") => link' = Shut(link, "bob", conn["bob"])
      BY <1>5 DEF EndOfStream, LinkFails
    <3> QED BY <1>1, <1>4, <3>1
  <2>2. ~ReaderSeesClose("bob")
    BY <1>5 DEF ReaderSeesClose, SeatUp
  <2>3. ProofHandled \/ ReaderSent("bob")
    BY <1>10, <2>1, <2>2 DEF Reads, BobReads
  <2> QED BY <1>2, <2>3, ReaderFollows
<1>11. CASE LinkFails("bob", conn["bob"])
  BY <1>1, <1>4, <1>11 DEF LinkFails
<1> QED BY <1>6, <1>7, <1>8, <1>9, <1>10, <1>11 DEF OwnStep

(* What the script lets Alice hear is what her handlers accept.               *)
LEMMA LineHeardNext ==
  ASSUME AsksOK, AliceStays, NEW n, NEW t \in Frames, NEW i, NEW f, Line(n, t, i, f)',
         reader["alice"].pc = "lock" =>
            /\ reader["alice"].msg.type = "verify_response"
            /\ reader["alice"].msg.id = dual["alice"].id
            /\ dual["alice"] # NoDual /\ dual["alice"].decisions["bob"] = "none"
  PROVE  AliceHeard'
<1>1. AliceAt(t, i, f) /\ Got' = Got
  <2>1. AliceAt(t, i, f)'
    BY DEF Line
  <2> QED BY <2>1, AliceSame
<1>2. Hears(ToAlice(conn["alice"]), n, t, i, f)'
  BY DEF Line
<1>3. PICK w : w = ToAlice(conn["alice"])'
  OBVIOUS
<1>4. \/ t \in {1, 2} /\ i # 0 /\ Ended(w)
      \/ t \in {1, 2} /\ i # 0 /\ ~Got /\ Brings(w, "verify_response", i)
      \/ t \in {3, 4} /\ Ended(w)
      \/ t = 2 /\ i = 0 /\ recovered = "waiting" /\ Brings(w, "ready", 0)
      \/ t = 2 /\ i = 0 /\ Ended(w)
      \/ t = 0 /\ ping = "sent" /\ Brings(w, "pong", 0)
      \/ t = 0 /\ Ended(w)
  BY <1>1, <1>2, <1>3 DEF Hears, AliceStays, aliceVars
<1>5. t \in {1, 2} /\ i # 0 => dual["alice"].id = i /\ dual["alice"] # NoDual
  <2>1. ASSUME t \in {1, 2}, i # 0 PROVE Asking(i, f)
    BY <1>1, <2>1 DEF AliceAt
  <2> QED BY <2>1 DEF Asking, NoDual
<1>6. t = 2 /\ i = 0 /\ recovered = "waiting" => task["measure"] \in {"proof", "confirm"}
  BY <1>1 DEF AliceAt, Asking
<1>7. reader["alice"].pc = "lock" => Got /\ t \notin {0} /\ ~(t = 2 /\ i = 0)
  <2>1. ASSUME reader["alice"].pc = "lock" PROVE Responding
    BY <2>1 DEF AsksOK
  <2>2. ASSUME t = 0 \/ (t = 2 /\ i = 0) PROVE ~Responding
    BY <1>1, <2>2 DEF AliceAt, Asking, Responding, Going
  <2> QED BY <2>1, <2>2 DEF Got
<1>8. \/ Ended(w)
      \/ Brings(w, "verify_response", dual["alice"].id) /\ dual["alice"] # NoDual /\ ~Got
      \/ Brings(w, "pong", 0) /\ ping = "sent"
      \/ Brings(w, "ready", 0) /\ recovered = "waiting" /\ task["measure"] \in {"proof", "confirm"}
  BY <1>4, <1>5, <1>6
<1>9. reader["alice"].pc = "lock" => Ended(w)
  BY <1>4, <1>7
<1>10. /\ dual'["alice"] = dual["alice"] /\ reader'["alice"] = reader["alice"]
       /\ UNCHANGED <<ping, recovered, task>>
  BY DEF AliceStays, Still, CoreStill, RestStill, aliceVars
<1> QED BY <1>1, <1>3, <1>8, <1>9, <1>10 DEF AliceHeard

-------------------------------------------------------------------------------
(* Every step of Bob                                                          *)

(* No step of Bob touches Alice's runtime.                                    *)
LEMMA BobLeavesAlice ==
  ASSUME IType, BobStep
  PROVE  AliceStays
<1>1. Still("alice") /\ UNCHANGED aliceVars
  BY BobStepStill DEF IType
<1> QED BY <1>1 DEF AliceStays, Still, CoreStill

(* Every step of his runtime takes his place to one that fits.                *)
LEMMA OwnOnward ==
  ASSUME SeatUp, BobStep, OwnStep("bob") \/ BobDisconnectBegins, Up("bob", conn["bob"])'
  PROVE  BobOn
<1>1. IType /\ AliceStays
  BY BobLeavesAlice DEF SeatUp, IPend, IFresh, IBoth
<1>2. SUFFICES ASSUME NEW n \in Frames, NEW t \in Frames, NEW i \in 0 .. MaxIds, NEW f \in BOOLEAN,
                      Seated(ToBob(conn["bob"]), n, t, i, f)
               PROVE  Follows(n, t, i, f)
  BY DEF BobOn
<1>3. CASE BobDisconnectBegins
  BY <1>1, <1>2, <1>3, LeavesFollows
<1>4. ASSUME OwnStep("bob"), BobReceives \/ BobGetsLock PROVE Follows(n, t, i, f)
  <2>1. conn' = conn /\ cmd' = cmd
    <3>1. "bob" \in Role
      BY DEF Role
    <3> QED BY <1>1, <1>4, <3>1, OwnStepConn, BobReadsOne DEF IType
  <2>2. Good(n, t, i, f)
    BY <1>1, <1>2, <1>4, <2>1, ReceivesGood, LockGood
  <2>3. Up("bob", conn["bob"])'
    OBVIOUS
  <2> QED BY <2>2, <2>3 DEF Good
<1>5. ASSUME OwnStep("bob"), ~(BobReceives \/ BobGetsLock) PROVE Follows(n, t, i, f)
  BY <1>1, <1>2, <1>5, OwnFollows
<1> QED BY <1>3, <1>4, <1>5

(* On a closed connection he reads nothing.                                   *)
LEMMA DeafBob ==
  ASSUME IType, ~Up("bob", conn["bob"]), BobReceives \/ BobGetsLock
  PROVE  refused' = refused
<1>1. PICK m, l : Delivered("bob", m, l) /\ (BobHandle(m, l) \/ Postpones("bob", l))
  BY BobReadsOne
<1>2. m \in Message /\ l \in Links /\ m.type \notin {"none", "pong"} /\ reader["bob"].conn = conn["bob"]
  BY <1>1, DeliveredSpoken
<1>3. Refuse("bob", l) => refused' = refused
  BY <1>2 DEF Refuse
<1>4. CASE Postpones("bob", l)
  BY <1>4 DEF Postpones, hist
<1>5. CASE BobHandle(m, l)
  BY <1>2, <1>3, <1>5, BobHandleCases DEF BobVerifyRequest, HandleResponse, BobResult, BobBurst,
     BobPing, BobReconnect, BobReady, HandleShutdown, hist
<1> QED BY <1>1, <1>4, <1>5

(* He refuses no frame.                                                       *)
LEMMA BobRight ==
  ASSUME IPend, Firm, Holds, BobHears, BobStep
  PROVE  refused' = refused
<1>1. IType /\ AliceStays
  BY BobLeavesAlice DEF IPend, IFresh, IBoth
<1>2. CASE ~Up("bob", conn["bob"]) /\ (BobReceives \/ BobGetsLock)
  BY <1>1, <1>2, DeafBob
<1>3. ASSUME Up("bob", conn["bob"]), BobReceives \/ BobGetsLock, OwnStep("bob")
      PROVE  refused' = refused
  <2>1. conn' = conn /\ cmd' = cmd
    <3>1. "bob" \in Role
      BY DEF Role
    <3> QED BY <1>1, <1>3, <3>1, OwnStepConn, BobReadsOne DEF IType
  <2>2. SeatUp
    BY <1>3 DEF SeatUp
  <2>3. PICK n \in Frames, t \in Frames, i \in 0 .. MaxIds, f \in BOOLEAN :
             Seated(ToBob(conn["bob"]), n, t, i, f)
    BY <1>3 DEF BobHears
  <2>4. Good(n, t, i, f)
    BY <1>1, <1>3, <2>1, <2>2, <2>3, ReceivesGood, LockGood
  <2> QED BY <2>4 DEF Good
<1>4. CASE OwnStep("bob") /\ ~(BobReceives \/ BobGetsLock)
  BY <1>4 DEF OwnStep, Answers, Confirm, CommandStep, Decide, BobDisconnectEnds, DisconnectEnds,
      Reads,
     BobReads, ProofHandled, ReaderSeesClose, ReaderSent, EndOfStream, LinkFails, TabCloses,
     ConfirmAbandoned, DisconnectAbandoned, Timeouts, VerificationEnds, ReservationExpires, hist
<1>5. CASE Listens \/ BobDisconnectBegins
  BY <1>5 DEF Listens, StartServer, BobDisconnectBegins, SendShutdown, hist
<1>6. CASE \E c \in Conns : Admission(c)
  BY <1>6 DEF Admission, Admits, Accept, Admit, CandidateEnds, hist
<1> QED BY <1>2, <1>3, <1>4, <1>5, <1>6 DEF BobStep

(* A step that leaves the chat slot and its connection alone.                 *)
LEMMA AdmissionOn ==
  ASSUME SeatUp, AliceStays, NEW c \in Conns, Admission(c), conn'["bob"] = conn["bob"]
  PROVE  BobOn
<1>1. /\ CoreOK /\ link \in Links /\ c \in Refs /\ c # conn["bob"] /\ cand[c].pc # "none"
      /\ "bob" \in Role /\ conn["bob"] \in Conns /\ conn \in [Role -> Refs]
  <2>1. cand[c].pc # "none"
    BY DEF Admission, Admits, Accept, Admit, CandidateEnds
  <2> QED BY <2>1, SeatUpParts DEF NumbersOK, Refs, Conns, CoreOK
<1>2. ~\E pc : AttachBob(c, pc)
  BY <1>1 DEF AttachBob
<1>3. BobSteady
  BY <1>2 DEF Admission, Admits, Accept, Admit, CandidateEnds, BobSteady
<1>4. link'[conn["bob"]].wire = link[conn["bob"]].wire
  <2>1. PICK d \in Conns : d = conn["bob"]
    BY <1>1
  <2>2. \A l \in Links : Shut(l, "bob", c)[d] = l[d]
    BY <1>1, <2>1, ShutElse
  <2>3. CASE Accept(c) \/ CandidateEnds(c)
    BY <1>1, <1>2, <2>1, <2>2, <2>3 DEF Accept, CandidateEnds
  <2>4. CASE Admit(c)
    <3>1. link' = Shut(Take(link, "bob", c), "bob", c) /\ link[c].wire["bob"] # <<>>
      BY <1>2, <2>4 DEF Admit
    <3>2. Take(link, "bob", c) \in Links /\ Take(link, "bob", c)[d].wire = link[d].wire
      <4>1. Take(link, "bob", c) \in Links
        BY <1>1, <3>1, TakeElse
      <4>2. Take(link, "bob", c)[d] = link[d]
        BY <1>1, <2>1 DEF Take, Links
      <4> QED BY <4>1, <4>2
    <3> QED BY <2>1, <2>2, <3>1, <3>2
  <2> QED BY <2>3, <2>4 DEF Admission, Admits
<1>5. ToBob(conn["bob"])' = ToBob(conn["bob"]) /\ ToAlice(conn["bob"])' = ToAlice(conn["bob"])
  BY <1>4 DEF ToBob, ToAlice
<1> QED BY <1>3, <1>5, SteadyFollows DEF BobOn

(* While the slot is that of one connection, it keeps to a script.            *)
LEMMA SlotOn ==
  ASSUME IPend, Firm, Holds, [Next]_vars, BobStep, conn'["bob"] = conn["bob"], Up("bob", conn["bob"])'
  PROVE  Up("bob", conn["bob"]) /\ BobOn
<1>1. IType /\ AliceStays /\ CoreOK
  BY BobLeavesAlice, TypeParts DEF IPend, IFresh, IBoth, IType, EndpointOK
<1>2. Up("bob", conn["bob"])
  <2>1. conn["bob"] \in Conns /\ link'[conn["bob"]].up["bob"]
    BY <1>1 DEF Up, CoreOK, Refs, Conns, Role
  <2>2. Serves(conn["bob"])
    BY <1>1, <2>1, BobServes DEF IPend, IFresh, IBoth, Precedes
  <2> QED BY <2>1, <2>2 DEF Serves, Up, Conns
<1>3. SeatUp
  BY <1>2 DEF SeatUp
<1>4. ~Listens
  BY <1>1, <1>2 DEF Listens, StartServer, CoreOK, Up, Role
<1>5. CASE OwnStep("bob") \/ BobDisconnectBegins
  BY <1>2, <1>3, <1>5, OwnOnward
<1>6. CASE \E c \in Conns : Admission(c)
  <2>1. PICK c \in Conns : Admission(c)
    BY <1>6
  <2>2. conn'["bob"] = conn["bob"]
    OBVIOUS
  <2>3. BobOn
    BY <1>1, <1>3, <2>1, <2>2, AdmissionOn
  <2> QED BY <1>2, <2>3
<1> QED BY <1>2, <1>4, <1>5, <1>6 DEF BobStep

(* A new connection in the slot.                                              *)
OpensAt(t, i) == (t = 2 => i # 0) /\ Line(0, t, i, FALSE)

(* What waits for the slot is left as it is.                                  *)
LEMMA OpensStay ==
  ASSUME AliceStays, ToBob(conn["alice"])' = ToBob(conn["alice"]),
         ToAlice(conn["alice"])' = ToAlice(conn["alice"]), NEW t \in 0 .. 2, NEW i \in 0 .. MaxIds,
         OpensAt(t, i)
  PROVE  OpensAt(t, i)'
<1>1. PICK z \in Frames, f \in BOOLEAN : z = 0 /\ ~f /\ f = FALSE
  <2>1. 0 \in Frames /\ FALSE \in BOOLEAN
    BY DEF Frames
  <2> QED BY <2>1
<1>2. Line(z, t, i, f) /\ (t = 2 => i # 0)
  BY <1>1 DEF OpensAt
<1>3. AliceAt(t, i, f)' /\ Matches("alice")' = Matches("alice") /\ On' = On /\ Got' = Got
      /\ GotMatch' = GotMatch
  BY <1>2, AliceSame DEF Line
<1>4. Said(ToBob(conn["alice"]), z, t, i, f)'
  <2>1. Said(ToBob(conn["alice"]), z, t, i, f)
    BY <1>2 DEF Line
  <2> QED BY <2>1
<1>5. Sound(ToBob(conn["alice"]), z, t, i)'
  <2>1. ~(t >= 3)
    OBVIOUS
  <2> QED BY <2>1, Zenon DEF Sound
<1>6. Reply(ToBob(conn["alice"]), z)' = Reply(ToBob(conn["alice"]), z)
  BY <1>1 DEF Reply
<1>7. Hears(ToAlice(conn["alice"]), z, t, i, f)'
  <2>1. Hears(ToAlice(conn["alice"]), z, t, i, f)
    BY <1>2 DEF Line
  <2>2. PICK w : w = ToAlice(conn["alice"]) /\ w = ToAlice(conn["alice"])'
    OBVIOUS
  <2>3. \/ t \in {1, 2} /\ i # 0 /\ Ended(w) /\ ~Got
        \/ t = 2 /\ i = 0 /\ recovered = "waiting" /\ Brings(w, "ready", 0)
        \/ t = 2 /\ i = 0 /\ recovered # "waiting" /\ Ended(w)
        \/ t = 0 /\ Ended(w)
    BY <1>1, <2>1, <2>2 DEF Hears
  <2>4. recovered' = recovered
    BY DEF AliceStays, aliceVars
  <2> QED BY <1>1, <1>3, <2>2, <2>3, <2>4 DEF Hears
<1>8. On' => Len(ToBob(conn["alice"]))' = t - z
  BY <1>2, <1>3 DEF Line
<1>9. t = 2 /\ i # 0 /\ Matches("alice")' => Reply(ToBob(conn["alice"]), z)'
  BY <1>2, <1>3, <1>6 DEF Line
<1>10. Line(z, t, i, f)'
  BY <1>3, <1>4, <1>5, <1>7, <1>8, <1>9 DEF Line
<1> QED BY <1>1, <1>2, <1>10 DEF OpensAt

(* Bob gives the slot to a connection: what waits there continues Alice's     *)
(* script, and when it is hers, her own side of the script goes on.           *)
Slotted ==
    \E n, t \in Frames, i \in 0 .. MaxIds, f \in BOOLEAN :
       /\ Seated(ToBob(conn["bob"]), n, t, i, f)'
       /\ conn["alice"] = conn'["bob"] /\ Up("alice", conn["alice"]) => Line(n, t, i, f)'

(* The first connection of Bob's session.                                     *)
LEMMA AcceptSeats ==
  ASSUME IPend, Speaking, First', AliceStays, NEW c \in Conns, Admission(c), Accept(c),
         conn'["bob"] # conn["bob"], Up("bob", conn["bob"])'
  PROVE  Slotted
<1>1. /\ CoreOK /\ ReaderOK /\ BInv /\ BoundOK /\ "bob" \in Role /\ link \in Links
  BY TypeParts DEF IPend, IFresh, IBoth, IType, EndpointOK, Role, CoreOK
<1>2. /\ gate["bob"] = "CONNECTING" /\ cand[c].pc # "none" /\ AttachBob(c, "recv")
      /\ link' = link /\ dual' = dual /\ resume' = resume
  BY DEF Accept
<1>3. /\ gate'["bob"] = "VERIFYING" /\ conn'["bob"] = c /\ reader'["bob"].pc = "recv"
  BY <1>1, <1>2 DEF AttachBob, CoreOK, ReaderOK, Role
<1>4. sessions["bob"] = 0
  <2>1. sessions' = [sessions EXCEPT !["bob"] = @ + 1]
    BY <1>2, <1>3 DEF Admission, CountSession
  <2>2. sessions'["bob"] <= 1
    BY <1>1 DEF First
  <2>3. PICK x \in Nat : x = sessions["bob"]
    BY <1>1 DEF BoundOK, SessionAssumption
  <2>4. sessions'["bob"] = x + 1
    BY <1>1, <2>1, <2>3 DEF BoundOK
  <2> QED BY <2>2, <2>3, <2>4
<1>5. link[c].up["bob"] /\ ToBob(conn["bob"])' = ToBob(c)
  <2>1. link'[c].up["bob"]
    BY <1>3 DEF Up
  <2>2. ToBob(conn["bob"])' = link'[c].wire["bob"]
    BY <1>3 DEF ToBob
  <2> QED BY <1>2, <2>1, <2>2 DEF ToBob
<1>6. PICK z \in Frames, f \in BOOLEAN : z = 0 /\ ~f /\ f = FALSE
  <2>1. 0 \in Frames /\ FALSE \in BOOLEAN
    BY DEF Frames
  <2> QED BY <2>1
<1>7. \A i \in 0 .. MaxIds : BobAt(z, i, f)'
  <2>1. dual'["bob"] = NoDual /\ resume' = NoResume
    BY <1>2, <1>4, <1>1 DEF Speaking, Once, BInv, BobFree
  <2>2. BobIdle(z, f)'
    BY <1>3, <1>6, <2>1 DEF BobIdle
  <2> QED BY <2>2 DEF BobAt
<1>8. CASE conn["alice"] = c /\ Up("alice", conn["alice"])
  <2>1. Opens
    <3>1. Up("bob", conn["alice"])
      BY <1>5, <1>8 DEF Up
    <3>2. ~Approves
      BY <1>4 DEF Approves
    <3> QED BY <1>2, <1>8, <3>1, <3>2 DEF Speaking, Talk
  <2>2. PICK t \in 0 .. 2, i \in 0 .. MaxIds : OpensAt(t, i)
    BY <2>1 DEF Opens, OpensAt
  <2>3. /\ ToBob(conn["alice"])' = ToBob(conn["alice"])
        /\ ToAlice(conn["alice"])' = ToAlice(conn["alice"])
    BY <1>2 DEF ToBob, ToAlice, AliceStays
  <2>4. OpensAt(t, i)'
    BY <2>2, <2>3, OpensStay
  <2>5. Line(z, t, i, f)' /\ t \in Frames
    <3>1. Line(0, t, i, FALSE)'
      BY <2>4 DEF OpensAt
    <3>2. Line(z, t, i, f)'
      BY <1>6, <3>1, Zenon
    <3>3. t \in Frames
      BY <2>2 DEF Frames
    <3> QED BY <3>2, <3>3
  <2>6. conn'["alice"] = conn'["bob"]
    BY <1>3, <1>8 DEF AliceStays
  <2>7. Said(ToBob(conn["alice"]), z, t, i, f)' /\ Sound(ToBob(conn["alice"]), z, t, i)'
    BY <2>5 DEF Line
  <2>8. Seated(ToBob(conn["bob"]), z, t, i, f)'
    BY <1>7, <2>6, <2>7 DEF Seated
  <2> QED BY <2>5, <2>8 DEF Slotted
<1>9. CASE ~(conn["alice"] = c /\ Up("alice", conn["alice"]))
  <2>1. Opening(ToBob(c))
    BY <1>2, <1>4, <1>5 DEF Speaking, CandHears
  <2>2. PICK t \in 0 .. 2, i \in 0 .. MaxIds : Said(ToBob(c), 0, t, i, FALSE)
    BY <2>1 DEF Opening
  <2>3. Said(ToBob(c), z, t, i, f) /\ t \in Frames /\ ~(t >= 3)
    <3>1. Said(ToBob(c), z, t, i, f)
      BY <1>6, <2>2, Zenon
    <3>2. t \in Frames /\ ~(t >= 3)
      BY <2>2 DEF Frames
    <3> QED BY <3>1, <3>2
  <2>4. Said(ToBob(conn["bob"]), z, t, i, f)'
    <3>1. PICK w : w = ToBob(c) /\ w = ToBob(conn["bob"])'
      BY <1>5
    <3>2. Said(w, z, t, i, f)
      BY <2>3, <3>1
    <3> QED BY <3>1, <3>2
  <2>5. Sound(ToBob(conn["bob"]), z, t, i)'
    BY <2>3, Zenon DEF Sound
  <2>6. Seated(ToBob(conn["bob"]), z, t, i, f)'
    BY <1>7, <2>4, <2>5 DEF Seated
  <2>7. ~(conn["alice"] = conn'["bob"] /\ Up("alice", conn["alice"]))
    BY <1>3, <1>9
  <2> QED BY <2>3, <2>6, <2>7 DEF Slotted
<1> QED BY <1>8, <1>9

(* The proof is the head of what waits, and no script of Alice begins with it.*)
LEMMA ProofAhead ==
  ASSUME NEW s \in Seq(Message), s # <<>>, Head(s).type = "verification_result", NEW t \in 0 .. 2,
         NEW i, NEW f
  PROVE  ~Said(s, 0, t, i, f)
<1>1. PICK z \in Frames : z = 0
  BY DEF Frames
<1>2. SUFFICES ASSUME Said(s, z, t, i, f) PROVE FALSE
  BY <1>1
<1>3. t \in Frames
  BY DEF Frames
<1>4. CASE t = z
  <2>1. Said(s, z, z, i, f)
    BY <1>2, <1>4
  <2> QED BY <2>1, SaidNone
<1>5. CASE t # z
  <2>1. Frame(Head(s), z + 1, i, f)
    BY <1>2, <1>3, <1>5, SaidHead
  <2> QED BY <1>1, <2>1 DEF Frame
<1> QED BY <1>4, <1>5

(* A connection that brings the proof of the recovery.                        *)
LEMMA AdmitSeats ==
  ASSUME IPend, Speaking, AliceStays, NEW c \in Conns, Admit(c), conn'["bob"] # conn["bob"]
  PROVE  Slotted
<1>1. /\ CoreOK /\ ReaderOK /\ "bob" \in Role /\ "alice" \in Role /\ link \in Links
      /\ ToBob(c) \in Seq(Message) /\ ToAlice(c) \in Seq(Message)
  BY TypeParts DEF IPend, IFresh, IBoth, IType, EndpointOK, Role, CoreOK, Links, Ends, ToBob,
      ToAlice
<1>2. PICK l : l = Take(link, "bob", c)
  OBVIOUS
<1>3. /\ cand[c].pc # "none" /\ link[c].up["bob"] /\ ToBob(c) # <<>>
      /\ Admissible(c, Head(ToBob(c))) /\ AttachBob(c, "ready") /\ Proves(c, l)
      /\ dual' = dual
  BY <1>2 DEF Admit, Up, ToBob
<1>4. /\ gate["bob"] = "RECONNECTING" /\ Head(ToBob(c)).type = "verification_result"
  BY <1>3 DEF Admissible
<1>5. /\ gate'["bob"] = "VERIFYING" /\ conn'["bob"] = c /\ reader'["bob"].pc = "ready"
  BY <1>1, <1>3 DEF AttachBob, CoreOK, ReaderOK, Role
<1>6. /\ ToBob(conn["bob"])' = Tail(ToBob(c))
      /\ link[c].up["alice"] => link'[c].wire["alice"] = Append(ToAlice(c), Notice("ready"))
  <2>1. Notice("ready") \in Message /\ link' = Put(l, "bob", c, Notice("ready"))
    BY <1>3, ValuesOK DEF Proves
  <2>2. /\ l \in Links /\ l[c].wire["bob"] = Tail(link[c].wire["bob"])
        /\ l[c].wire["alice"] = link[c].wire["alice"] /\ l[c].up["alice"] = link[c].up["alice"]
    BY <1>1, <1>2, <1>3, TakeElse DEF ToBob, Role
  <2>3. /\ link'[c].wire["bob"] = l[c].wire["bob"]
        /\ l[c].up["alice"] => link'[c].wire["alice"] = Append(l[c].wire["alice"], Notice("ready"))
    <3>1. PICK m \in Message : m = Notice("ready") /\ link' = Put(l, "bob", c, m)
      BY <2>1
    <3>2. PICK k : k = link' /\ k = Put(l, "bob", c, m)
      BY <3>1
    <3>3. /\ k[c].wire["bob"] = l[c].wire["bob"]
          /\ l[c].up["alice"] => k[c].wire["alice"] = Append(l[c].wire["alice"], m)
      <4>1. k[c].wire["bob"] = l[c].wire["bob"]
        BY <2>2, <3>2, BobPutsAlice
      <4>2. l[c].up["alice"] => k[c].wire["alice"] = Append(l[c].wire["alice"], m)
        BY <2>2, <3>2, BobPutsAlice
      <4> QED BY <4>1, <4>2
    <3> QED BY <3>1, <3>2, <3>3
  <2>4. ToBob(conn["bob"])' = link'[c].wire["bob"]
    BY <1>5 DEF ToBob
  <2> QED BY <2>2, <2>3, <2>4 DEF ToBob, ToAlice
<1>7. PICK n \in Frames, i \in 0 .. MaxIds, f \in BOOLEAN : n = 2 /\ i = 0 /\ ~f /\ f = FALSE
  <2>1. 2 \in Frames /\ 0 \in 0 .. MaxIds /\ FALSE \in BOOLEAN
    BY EndpointAssumption DEF Frames
  <2> QED BY <2>1
<1>8. BobAt(n, i, f)'
  <2>1. dual'["bob"] = NoDual
    BY <1>3, <1>4 DEF IPend, WaitsAlone
  <2>2. resume' # NoResume /\ resume'.confirmed
    BY <1>1, <1>3 DEF Proves, CoreOK, Resumes, NoResume
  <2>3. BobProven(n, i, f)'
    BY <1>5, <1>7, <2>1, <2>2 DEF BobProven
  <2> QED BY <2>3 DEF BobAt
<1>9. /\ ~Opening(ToBob(c)) /\ Ended(Tail(ToBob(c)))
  <2>1. ~Opening(ToBob(c))
    BY <1>1, <1>3, <1>4, ProofAhead DEF Opening
  <2> QED BY <1>3, <2>1 DEF Speaking, CandHears, Proof
<1>10. Said(Tail(ToBob(c)), n, n, i, f)
  <2>1. Tail(ToBob(c)) \in Seq(Message)
    BY <1>1, <1>3, SeqFacts
  <2>2. PICK w \in Seq(Message) : w = Tail(ToBob(c))
    BY <2>1
  <2>3. w # <<>> => w[1].type = "shutdown"
    BY <1>9, <2>2, SeqFacts DEF Ended
  <2>4. Said(w, n, n, i, f)
    BY <1>7, <2>3 DEF Said, Frames
  <2> QED BY <2>2, <2>4
<1>11. Said(ToBob(conn["bob"]), n, n, i, f)'
  <2>1. PICK w : w = Tail(ToBob(c)) /\ w = ToBob(conn["bob"])'
    BY <1>6
  <2>2. Said(w, n, n, i, f)
    BY <1>10, <2>1
  <2> QED BY <2>1, <2>2
<1>12. Sound(ToBob(conn["bob"]), n, n, i)'
  <2>1. ~(n >= 3)
    BY <1>7
  <2> QED BY <2>1, Zenon DEF Sound
<1>13. Seated(ToBob(conn["bob"]), n, n, i, f)'
  BY <1>8, <1>11, <1>12 DEF Seated
<1>14. ASSUME conn["alice"] = c, Up("alice", conn["alice"])
       PROVE  Line(n, n, i, f)'
  <2>1. ToAlice(c) = <<>> /\ Approves /\ link[c].up["alice"]
    <3>1. Up("bob", conn["alice"]) /\ link[c].up["alice"]
      BY <1>3, <1>14 DEF Up
    <3>2. ~Opens
      <4>1. ASSUME NEW t \in 0 .. 2, NEW j \in 0 .. MaxIds, Line(0, t, j, FALSE)
            PROVE  FALSE
        <5>1. Said(ToBob(c), 0, t, j, FALSE)
          BY <1>14, <4>1 DEF Line
        <5> QED BY <1>1, <1>3, <1>4, <5>1, ProofAhead
      <4> QED BY <4>1 DEF Opens
    <3> QED BY <1>3, <1>14, <3>1, <3>2 DEF Speaking, Talk
  <2>2. conn'["alice"] = c /\ conn'["bob"] = c
    BY <1>5, <1>14 DEF AliceStays
  <2>3. Said(ToBob(conn["alice"]), n, n, i, f)' /\ Sound(ToBob(conn["alice"]), n, n, i)'
    BY <1>11, <1>12, <2>2
  <2>4. task' = task /\ recovered' = recovered
    BY DEF AliceStays, aliceVars
  <2>5. AliceAt(n, i, f)'
    BY <1>7, <2>1, <2>4 DEF AliceAt, Approves
  <2>6. Len(ToBob(conn["alice"]))' = 0
    <3>1. ToBob(conn["alice"])' = Tail(ToBob(c))
      BY <1>6, <2>2 DEF ToBob
    <3>2. Len(ToBob(c)) = 1
      BY <1>14, <2>1 DEF Approves
    <3> QED BY <1>1, <1>3, <3>1, <3>2, SeqFacts
  <2>7. Hears(ToAlice(conn["alice"]), n, n, i, f)'
    <3>1. PICK w : w = ToAlice(conn["alice"])'
      OBVIOUS
    <3>2. w = Append(ToAlice(c), Notice("ready"))
      <4>1. ToAlice(conn["alice"])' = link'[c].wire["alice"]
        BY <2>2 DEF ToAlice
      <4> QED BY <1>6, <2>1, <3>1, <4>1
    <3>3. Brings(w, "ready", 0)
      <4>1. PICK m \in Message : m = Notice("ready") /\ m.type = "ready" /\ m.id = 0
        BY ValuesOK DEF Notice, Msg
      <4>2. Brings(Append(ToAlice(c), m), m.type, m.id)
        BY <1>1, <2>1, <4>1, EndedStays DEF Ended
      <4> QED BY <3>2, <4>1, <4>2
    <3> QED BY <1>7, <2>1, <2>4, <3>1, <3>3 DEF Hears, Approves
  <2>8. On' => Len(ToBob(conn["alice"]))' = n - n
    BY <1>7, <2>6
  <2> QED BY <1>7, <2>3, <2>5, <2>7, <2>8 DEF Line
<1> QED BY <1>5, <1>13, <1>14 DEF Slotted

(* Every step of Bob that leaves him with an open connection leaves him at a  *)
(* place of the script.                                                       *)
LEMMA BobSeats ==
  ASSUME IPend, Speaking, Holds, First', [Next]_vars, BobStep, Up("bob", conn["bob"])'
  PROVE  Slotted
<1>1. IType /\ AliceStays /\ TypeOK /\ SeatOK /\ Wires(link, Spoken) /\ Held(reader, Spoken)
  BY BobLeavesAlice DEF IPend, IFresh, IBoth, IType
<1>2. CASE conn'["bob"] = conn["bob"]
  <2>1. Up("bob", conn["bob"]) /\ BobOn
    BY <1>2, SlotOn DEF Speaking
  <2>2. CASE conn["alice"] = conn["bob"] /\ Up("alice", conn["alice"])
    <3>1. PICK n, t \in Frames, i \in 0 .. MaxIds, f \in BOOLEAN : BobAt(n, i, f) /\ Line(n, t, i, f)
      BY <2>1, <2>2 DEF Speaking, Talk
    <3>2. Said(ToBob(conn["bob"]), n, t, i, f) /\ Sound(ToBob(conn["bob"]), n, t, i)
      BY <2>2, <3>1 DEF Line
    <3>3. Seated(ToBob(conn["bob"]), n, t, i, f)
      BY <3>1, <3>2 DEF Seated
    <3>4. Follows(n, t, i, f)
      BY <2>1, <3>3 DEF BobOn
    <3> QED BY <1>2, <2>2, <3>1, <3>4 DEF Follows, Slotted
  <2>3. CASE ~(conn["alice"] = conn["bob"] /\ Up("alice", conn["alice"]))
    <3>1. PICK n, t \in Frames, i \in 0 .. MaxIds, f \in BOOLEAN :
             Seated(ToBob(conn["bob"]), n, t, i, f)
      BY <2>1 DEF Speaking, BobHears
    <3>2. Follows(n, t, i, f)
      BY <2>1, <3>1 DEF BobOn
    <3> QED BY <1>2, <2>3, <3>2 DEF Follows, Slotted
  <2> QED BY <2>2, <2>3
<1>3. CASE conn'["bob"] # conn["bob"]
  <2>1. ~Listens
    <3>1. conn'["bob"] # 0
      BY DEF Up
    <3>2. conn \in [Role -> Refs] /\ "bob" \in Role
      BY <1>1, TypeParts DEF EndpointOK, CoreOK, Role
    <3> QED BY <3>1, <3>2 DEF Listens, StartServer
  <2>2. ~OwnStep("bob") /\ ~BobDisconnectBegins
    <3>1. "bob" \in Role
      BY DEF Role
    <3>2. ~OwnStep("bob")
      BY <1>1, <1>3, <3>1, OwnStepConn
    <3>3. ~BobDisconnectBegins
      BY <1>3 DEF BobDisconnectBegins, SendShutdown
    <3> QED BY <3>2, <3>3
  <2>3. PICK c \in Conns : Admission(c)
    BY <2>1, <2>2 DEF BobStep
  <2>4. CASE Accept(c)
    BY <1>1, <1>3, <2>3, <2>4, AcceptSeats
  <2>5. CASE Admit(c)
    BY <1>1, <1>3, <2>5, AdmitSeats
  <2>6. ~CandidateEnds(c)
    BY <1>3 DEF CandidateEnds
  <2> QED BY <2>3, <2>4, <2>5, <2>6 DEF Admission, Admits
<1> QED BY <1>2, <1>3

(* His steps keep what he hears on the slot.                                  *)
LEMMA BobBobHears ==
  ASSUME IPend, Speaking, Holds, First', [Next]_vars, BobStep
  PROVE  BobHears'
<1>1. SUFFICES ASSUME Up("bob", conn["bob"])'
               PROVE \E n, t \in Frames, i \in 0 .. MaxIds, f \in BOOLEAN :
                        Seated(ToBob(conn["bob"]), n, t, i, f)'
  BY DEF BobHears
<1>2. Slotted
  BY <1>1, BobSeats
<1> QED BY <1>2 DEF Slotted

(* A session counted stays counted.                                           *)
LEMMA BobCounts ==
  ASSUME IPend, BobStep
  PROVE  sessions["bob"] >= 1 => sessions'["bob"] >= 1
<1>1. sessions \in [Role -> 0 .. MaxSessions]
  BY TypeParts DEF IPend, IFresh, IBoth, IType, BoundOK
<1>2. sessions' = sessions \/ sessions' = [sessions EXCEPT !["bob"] = @ + 1]
  BY DEF BobStep, Listens, BobDisconnectBegins, OfBob, OfEither, bounds, Admission, CountSession,
         OwnStep, Answers, CommandStep, Reads, TabCloses, Timeouts
<1>3. PICK x \in Nat : x = sessions["bob"]
  BY <1>1, SessionAssumption DEF Role
<1>4. sessions'["bob"] \in {x, x + 1}
  BY <1>1, <1>2, <1>3 DEF Role
<1> QED BY <1>3, <1>4

(* His steps keep what waits for the slot.                                    *)
LEMMA BobCandHears ==
  ASSUME IPend, Speaking, [Next]_vars, BobStep
  PROVE  CandHears'
<1>1. /\ \A c \in Conns : Serves(c)
      /\ sessions["bob"] >= 1 => sessions'["bob"] >= 1
  BY BobServes, BobCounts DEF IPend, IFresh, IBoth, Precedes
<1>2. SUFFICES ASSUME NEW c \in Conns, cand'[c].pc # "none", link'[c].up["bob"]
               PROVE  Opening(ToBob(c))' \/ (sessions'["bob"] >= 1 /\ Proof(ToBob(c))')
  BY DEF CandHears
<1>3. cand[c].pc # "none" /\ link[c].up["bob"] /\ ToBob(c)' = ToBob(c)
  BY <1>1, <1>2 DEF Serves
<1>4. Opening(ToBob(c)) \/ (sessions["bob"] >= 1 /\ Proof(ToBob(c)))
  BY <1>3 DEF Speaking, CandHears
<1>5. PICK w : w = ToBob(c) /\ w = ToBob(c)'
  BY <1>3
<1>6. Opening(w) \/ (sessions["bob"] >= 1 /\ Proof(w))
  BY <1>4, <1>5
<1> QED BY <1>1, <1>5, <1>6

(* They keep the line, and what Alice hears on it.                            *)
LEMMA BobTalks ==
  ASSUME MaxBursts = 0, IPend, Speaking, Holds, First', [Next]_vars, BobStep
  PROVE  Talk' /\ AliceHeard' /\ AliceStands'
<1>1. /\ IType /\ AliceStays /\ NumbersOK /\ AsksOK /\ "alice" \in Role /\ conn \in [Role -> Refs]
      /\ \A c \in Conns : Serves(c)
  <2>1. \A c \in Conns : Serves(c)
    BY BobServes DEF IPend, IFresh, IBoth, Precedes
  <2> QED BY <2>1, BobLeavesAlice, TypeParts
          DEF IPend, IFresh, IBoth, IType, EndpointOK, CoreOK, Precedes, Role
<1>2. NumbersOK'
  BY <1>1, NextNumbers DEF IPend, IFresh, IBoth, AInv
<1>3. \A c \in Conns :
         /\ link'[c].up["alice"] = link[c].up["alice"]
         /\ ToAlice(c)' = ToAlice(c) \/ (c = conn'["bob"] /\ c <= conns /\ link'[c].up["bob"])
  BY <1>1, BobWires
<1>4. PICK a \in Refs : a = conn["alice"] /\ a = conn'["alice"]
  BY <1>1 DEF AliceStays
<1>5. /\ Up("alice", conn["alice"])' = Up("alice", conn["alice"])
      /\ Up("alice", conn["alice"]) => a \in Conns
  BY <1>3, <1>4 DEF Up, Refs, Conns
<1>6. AliceStands'
  <2>1. /\ task' = task /\ asked' = asked /\ approved' = approved /\ ping' = ping
        /\ gate'["alice"] = gate["alice"] /\ guard' = guard /\ dual'["alice"] = dual["alice"]
    BY <1>1 DEF AliceStays, aliceVars, Still, CoreStill
  <2>2. AliceStands
    BY DEF Speaking
  <2> QED BY <1>5, <2>1, <2>2 DEF AliceStands
<1>7. ASSUME Up("alice", conn["alice"]), a = conn'["bob"], link'[a].up["bob"]
      PROVE  \E n, t \in Frames, i \in 0 .. MaxIds, f \in BOOLEAN : BobAt(n, i, f)' /\ Line(n, t, i, f)'
  <2>1. Slotted
    <3>1. Up("bob", conn["bob"])'
      BY <1>5, <1>7 DEF Up, Conns
    <3> QED BY <3>1, BobSeats
  <2> QED BY <1>4, <1>7, <2>1 DEF Slotted, Seated
<1>8. AliceHeard'
  <2>1. SUFFICES ASSUME Up("alice", conn["alice"])' PROVE AliceHeard'
    BY DEF AliceHeard
  <2>2. AliceHeard /\ Up("alice", conn["alice"]) /\ a \in Conns
    BY <1>5, <2>1 DEF Speaking
  <2>3. CASE ToAlice(conn["alice"])' = ToAlice(conn["alice"])
    BY <1>1, <2>2, <2>3, HeardStays DEF AliceStays, Still, CoreStill, RestStill, aliceVars
  <2>4. CASE ToAlice(conn["alice"])' # ToAlice(conn["alice"])
    <3>1. a = conn'["bob"] /\ link'[a].up["bob"]
      <4>1. ToAlice(conn["alice"])' = link'[a].wire["alice"] /\ ToAlice(conn["alice"]) = ToAlice(a)
        BY <1>4 DEF ToAlice
      <4>2. ToAlice(a)' # ToAlice(a)
        BY <2>4, <4>1 DEF ToAlice
      <4> QED BY <1>3, <2>2, <4>2
    <3>2. PICK n, t \in Frames, i \in 0 .. MaxIds, f \in BOOLEAN : Line(n, t, i, f)'
      BY <1>7, <2>2, <3>1
    <3> QED BY <1>1, <2>2, <3>2, LineHeardNext DEF AliceHeard
  <2> QED BY <2>3, <2>4
<1>9. Talk'
  <2>1. SUFFICES ASSUME Up("alice", conn["alice"])', Up("bob", conn["alice"])'
                 PROVE  /\ conn'["alice"] = conn'["bob"] =>
                             \E n, t \in Frames, i \in 0 .. MaxIds, f \in BOOLEAN :
                                BobAt(n, i, f)' /\ Line(n, t, i, f)'
                        /\ cand'[conn'["alice"]].pc # "none" =>
                             ToAlice(conn["alice"])' = <<>> /\ (Opens' \/ Approves')
    BY DEF Talk
  <2>2. Up("alice", conn["alice"]) /\ a \in Conns /\ link'[a].up["bob"]
    BY <1>4, <1>5, <2>1 DEF Up
  <2>3. ASSUME cand'[a].pc # "none"
        PROVE  ToAlice(conn["alice"])' = <<>> /\ (Opens' \/ Approves')
    <3>1. cand[a].pc # "none" /\ link[a].up["bob"] /\ ToBob(a)' = ToBob(a)
      BY <1>1, <2>2, <2>3 DEF Serves
    <3>2. ToAlice(a)' = ToAlice(a)
      BY <1>2, <1>3, <2>2, <2>3 DEF NumbersOK
    <3>3. /\ ToBob(conn["alice"])' = ToBob(conn["alice"])
          /\ ToAlice(conn["alice"])' = ToAlice(conn["alice"])
      BY <1>4, <3>1, <3>2 DEF ToBob, ToAlice
    <3>4. ToAlice(conn["alice"]) = <<>> /\ (Opens \/ Approves)
      <4>1. Up("bob", conn["alice"])
        BY <1>4, <2>2, <3>1 DEF Up, Conns
      <4> QED BY <1>4, <2>2, <3>1, <4>1 DEF Speaking, Talk
    <3>5. CASE Opens
      <4>1. PICK t \in 0 .. 2, i \in 0 .. MaxIds : OpensAt(t, i)
        BY <3>5 DEF Opens, OpensAt
      <4>2. OpensAt(t, i)'
        BY <1>1, <3>3, <4>1, OpensStay
      <4> QED BY <3>3, <3>4, <4>2 DEF Opens, OpensAt
    <3>6. CASE Approves
      <4>1. sessions["bob"] >= 1 => sessions'["bob"] >= 1
        BY BobCounts
      <4>2. PICK w : w = ToBob(conn["alice"]) /\ w = ToBob(conn["alice"])'
        BY <3>3
      <4>3. task' = task /\ recovered' = recovered
        BY <1>1 DEF AliceStays, aliceVars
      <4>4. Approves'
        BY <3>6, <4>1, <4>2, <4>3 DEF Approves
      <4> QED BY <3>3, <3>4, <4>4
    <3> QED BY <3>4, <3>5, <3>6
  <2> QED BY <1>4, <1>7, <2>2, <2>3
<1> QED BY <1>6, <1>8, <1>9

(* What Bob reads while his decision is on its way.                           *)
LEMMA DecidingReads ==
  ASSUME IPend, Firm, Holds, BobReceives, cmd["bob"].pc = "deciding"
  PROVE  /\ gate'["bob"] \in {gate["bob"], "RESTRICTED", "CLOSED"}
         /\ Up("bob", conn["bob"])' => dual'["bob"] = dual["bob"]
<1>1. IType /\ CoreOK /\ ReaderOK /\ "bob" \in Role
  BY TypeParts DEF IPend, IFresh, IBoth, IType, EndpointOK, Role
<1>2. PICK m, l : /\ m = Head(link[reader["bob"].conn].wire["bob"])
                  /\ l = Take(link, "bob", reader["bob"].conn)
  OBVIOUS
<1>3. /\ reader["bob"].pc = "recv" /\ Up("bob", reader["bob"].conn)
      /\ link[reader["bob"].conn].wire["bob"] # <<>> /\ Delivered("bob", m, l)
  BY <1>2 DEF BobReceives, Delivered
<1>4. /\ m \in Message /\ l \in Links /\ m.type \notin {"none", "pong"}
      /\ reader["bob"].conn = conn["bob"]
  BY <1>1, <1>3, DeliveredSpoken
<1>5. SeatUp
  BY <1>3, <1>4 DEF SeatUp
<1>6. /\ dual["bob"] # NoDual /\ resume = NoResume /\ gate["bob"] \notin {"ACTIVE", "RECONNECTING"}
  BY <1>5, SeatUpParts DEF WaitsAlone
<1>7. CASE m.type \in VerifyTypes
  <2>1. UNCHANGED <<gate, dual>>
    BY <1>2, <1>7 DEF BobReceives, LockFree
  <2> QED BY <2>1
<1>8. CASE m.type \notin VerifyTypes
  <2>1. BobHandle(m, l)
    BY <1>2, <1>8 DEF BobReceives
  <2>2. ASSUME Restricts("bob", l)
        PROVE  gate'["bob"] \in {gate["bob"], "RESTRICTED", "CLOSED"} /\ ~Up("bob", conn["bob"])'
    <3>1. gate'["bob"] \in {gate["bob"], "RESTRICTED", "CLOSED"}
      BY <1>1, <2>2 DEF Restricts, CoreOK
    <3> QED BY <1>4, <1>5, <2>2, <3>1, SeatUpParts
  <2>3. ASSUME ReaderRaises("bob", l)
        PROVE  /\ gate'["bob"] \in {gate["bob"], "RESTRICTED", "CLOSED"}
               /\ Up("bob", conn["bob"])' => dual'["bob"] = dual["bob"]
    <3>1. Restricts("bob", l) \/ UNCHANGED <<gate, dual>>
      BY <2>3 DEF ReaderRaises
    <3> QED BY <2>2, <3>1
  <2>4. \/ BobBurst(m, l) \/ BobPing(l) \/ BobReconnect(l) \/ BobReady(l)
        \/ HandleShutdown("bob", l)
    BY <1>4, <1>8, <2>1, BobHandleCases DEF VerifyTypes
  <2>5. CASE HandleShutdown("bob", l)
    BY <2>2, <2>5 DEF HandleShutdown
  <2>6. ~NoResume.confirmed
    BY DEF NoResume
  <2>7. CASE ~HandleShutdown("bob", l)
    <3>1. ReaderRaises("bob", l) \/ UNCHANGED <<gate, dual>>
      BY <1>6, <2>4, <2>6, <2>7 DEF BobBurst, BobPing, BobReconnect, BobReady, Refuse
    <3> QED BY <2>3, <3>1
  <2> QED BY <2>5, <2>7
<1> QED BY <1>7, <1>8

(* Bob's own steps while his decision is on its way, its end apart.           *)
LEMMA DecidingWaits ==
  ASSUME IPend, Firm, Holds, [Next]_vars, OwnStep("bob"), cmd["bob"].pc = "deciding", cmd'["bob"] = cmd["bob"]
  PROVE  /\ gate'["bob"] \in {gate["bob"], "RESTRICTED", "CLOSED"}
         /\ Up("bob", conn["bob"])' => dual'["bob"] = dual["bob"] /\ Up("bob", conn["bob"])
<1>1. /\ IType /\ CoreOK /\ ReaderOK /\ CommandOK /\ "bob" \in Role /\ link \in Links
      /\ conn["bob"] \in Refs
  BY TypeParts DEF IPend, IFresh, IBoth, IType, EndpointOK, Role, CoreOK
<1>2. conn' = conn
  BY <1>1, OwnStepConn DEF IType
<1>3. Up("bob", conn["bob"])' => Up("bob", conn["bob"])
  <2>1. \A c \in Conns : Serves(c)
    BY BobServes DEF IPend, IFresh, IBoth, Precedes, BobStep
  <2> QED BY <1>1, <1>2, <2>1 DEF Serves, Up, Refs, Conns
<1>4. ASSUME NEW l \in Links, Restricts("bob", l)
      PROVE  gate'["bob"] \in {gate["bob"], "RESTRICTED", "CLOSED"} /\ ~Up("bob", conn["bob"])'
  <2>1. gate'["bob"] \in {gate["bob"], "RESTRICTED", "CLOSED"}
    BY <1>1, <1>4 DEF Restricts, CoreOK
  <2>2. ~Up("bob", conn["bob"])'
    BY <1>1, <1>4, RestrictsEnds
  <2> QED BY <2>1, <2>2
<1>5. CASE BobReceives
  BY <1>3, <1>5, DecidingReads
<1>6. CASE Restricts("bob", link)
  BY <1>1, <1>4, <1>6
<1>7. CASE UNCHANGED <<gate, dual>>
  BY <1>3, <1>7
<1>8. ~Decide("bob") /\ ~TabCloses("bob") /\ ~BobDisconnectEnds
  BY <1>1 DEF Decide, TabCloses, BobDisconnectEnds, DisconnectEnds, ConfirmAbandoned,
              DisconnectAbandoned, NoCommand, CommandOK
<1>9. Answers("bob") => Restricts("bob", link) \/ UNCHANGED <<gate, dual>>
  BY DEF Answers, Confirm
<1>10. Timeouts("bob") => Restricts("bob", link)
  BY DEF Timeouts, VerificationEnds, ReservationExpires
<1>11. Reads("bob") => BobReceives \/ Restricts("bob", link) \/ UNCHANGED <<gate, dual>>
  BY DEF Reads, BobReads, BobGetsLock, LockFree, ProofHandled, ReaderSeesClose, ReaderSent,
      EndOfStream,
         LinkFails, ReaderRaises, core
<1>12. LinkFails("bob", conn["bob"]) => UNCHANGED <<gate, dual>>
  BY DEF LinkFails
<1> QED BY <1>5, <1>6, <1>7, <1>8, <1>9, <1>10, <1>11, <1>12 DEF OwnStep, CommandStep

(* His decision under way stays about the pending comparison.                 *)
LEMMA BobDecides ==
  ASSUME IPend, Firm, Holds, [Next]_vars, BobStep, cmd'["bob"].pc = "deciding"
  PROVE  Deciding("bob")' /\ gate'["bob"] \in {"VERIFYING", "RESTRICTED", "CLOSED"}
<1>1. /\ IType /\ CoreOK /\ CommandOK /\ "bob" \in Role
  BY TypeParts DEF IPend, IFresh, IBoth, IType, EndpointOK, Role
<1>2. PICK r \in Role : r = "bob"
  BY <1>1
<1>3. CASE OwnStep("bob")
  <2>1. conn' = conn
    BY <1>1, <1>3, OwnStepConn DEF IType
  <2>2. \/ cmd'["bob"] = cmd["bob"] /\ cmd["bob"].pc = "deciding"
        \/ Clicks("bob")
    <3>1. OwnStep(r) /\ cmd'[r].pc = "deciding"
      BY <1>2, <1>3
    <3>2. (cmd'[r] = cmd[r] /\ cmd[r].pc = "deciding" /\ ~Decide(r)) \/ Clicks(r)
      BY <1>1, <3>1, OwnCommand
    <3> QED BY <1>2, <3>2
  <2>3. CASE Clicks("bob")
    BY <2>1, <2>3 DEF Clicks, Deciding
  <2>4. CASE cmd'["bob"] = cmd["bob"] /\ cmd["bob"].pc = "deciding"
    <3>1. /\ gate'["bob"] \in {gate["bob"], "RESTRICTED", "CLOSED"}
          /\ Up("bob", conn["bob"])' => dual'["bob"] = dual["bob"] /\ Up("bob", conn["bob"])
      BY <1>3, <2>4, DecidingWaits
    <3>2. /\ gate'["bob"] \in {"VERIFYING", "RESTRICTED", "CLOSED"} /\ Deciding("bob")
      BY <2>4, <3>1 DEF Firm
    <3> QED BY <2>1, <2>4, <3>1, <3>2 DEF Deciding
  <2> QED BY <2>2, <2>3, <2>4
<1>4. CASE \E c \in Conns : Admission(c)
  <2>1. PICK c \in Conns : Admission(c)
    BY <1>4
  <2>2. cmd' = cmd /\ dual' = dual
    BY <2>1 DEF Admission, Admits, Accept, Admit, CandidateEnds
  <2>3. gate["bob"] \in {"VERIFYING", "RESTRICTED", "CLOSED"}
    BY <2>2 DEF Firm
  <2>4. gate' = gate /\ conn' = conn
    BY <2>1, <2>3 DEF Admission, Admits, Accept, Admit, CandidateEnds, Admissible
  <2>5. Up("bob", conn["bob"])' => Up("bob", conn["bob"])
    <3>1. \A d \in Conns : Serves(d)
      BY <2>1, BobServes DEF IPend, IFresh, IBoth, Precedes, BobStep
    <3>2. conn["bob"] \in Refs
      BY <1>1 DEF CoreOK
    <3> QED BY <2>4, <3>1, <3>2 DEF Serves, Up, Refs, Conns
  <2> QED BY <2>2, <2>3, <2>4, <2>5 DEF Firm, Deciding
<1>5. ~Listens
  BY DEF Listens, StartServer
<1>6. ~BobDisconnectBegins
  BY <1>1 DEF BobDisconnectBegins, SendShutdown, NoCommand, CommandOK
<1> QED BY <1>3, <1>4, <1>5, <1>6 DEF BobStep

(* His steps keep Firm.                                                       *)
LEMMA BobFirm ==
  ASSUME IPend, Firm, Holds, [Next]_vars, BobStep
  PROVE  Firm'
<1>1. IType /\ NumbersOK /\ AliceStays /\ conn \in [Role -> Refs] /\ "alice" \in Role
  BY BobLeavesAlice, TypeParts DEF IPend, IFresh, IBoth, IType, EndpointOK, CoreOK, Role
<1>2. /\ cmd'["alice"] = cmd["alice"] /\ dual'["alice"] = dual["alice"]
      /\ conn'["alice"] = conn["alice"] /\ task' = task
  BY <1>1 DEF AliceStays, Still, CoreStill, RestStill, aliceVars
<1>3. Up("alice", conn["alice"])' = Up("alice", conn["alice"])
  <2>1. \A c \in Conns : link'[c].up["alice"] = link[c].up["alice"]
    BY <1>1, BobWires
  <2> QED BY <1>1, <1>2, <2>1 DEF Up, Refs, Conns
<1>4. Deciding("alice")'
  BY <1>2, <1>3 DEF Firm, Deciding
<1>5. /\ cmd'["alice"].pc = "deciding" => task'["measure"] \in {"request", "ready", "failed", "off"}
      /\ Up("alice", conn["alice"])' /\ dual'["alice"].ready = "yes" =>
            \A r \in Role : dual'["alice"].decisions[r] = "MATCH"
  BY <1>2, <1>3 DEF Firm
<1>6. Deciding("bob")' /\ (cmd'["bob"].pc = "deciding" =>
                             gate'["bob"] \in {"VERIFYING", "RESTRICTED", "CLOSED"})
  <2>1. CASE cmd'["bob"].pc = "deciding"
    BY <2>1, BobDecides
  <2>2. CASE cmd'["bob"].pc # "deciding"
    BY <2>2 DEF Deciding
  <2> QED BY <2>1, <2>2
<1> QED BY <1>4, <1>5, <1>6 DEF Firm

(* They keep Slots and Paced.                                                 *)
LEMMA BobSlots ==
  ASSUME IPend, Holds, Slots, Paced, BobStep
  PROVE  Slots' /\ Paced'
<1>1. IType /\ NumbersOK /\ AliceStays
  BY BobLeavesAlice DEF IPend, IFresh, IBoth
<1>2. /\ conns' = conns /\ reader'["alice"] = reader["alice"] /\ conn'["alice"] = conn["alice"]
      /\ gate'["alice"] = gate["alice"] /\ guard' = guard /\ task' = task /\ ping' = ping
  BY <1>1, BobStepStill DEF IType, AliceStays, Still, CoreStill, RestStill, aliceVars
<1>3. ASSUME NEW c \in Conns, c > conns PROVE ToAlice(c)' = <<>>
  <2>1. ToAlice(c)' = ToAlice(c) \/ c <= conns
    BY <1>1, BobWires
  <2>2. conns \in Nat /\ c \in Nat
    BY <1>1, TypeParts, EndpointAssumption DEF IType, EndpointOK, CountOK, Refs, Conns
  <2> QED BY <1>3, <2>1, <2>2 DEF Slots
<1>4. Slots'
  BY <1>2, <1>3 DEF Slots
<1>5. Paced'
  BY <1>2 DEF Paced
<1> QED BY <1>4, <1>5

(* Bob before his first session.                                              *)
LEMMA SilentBob ==
  ASSUME IPend, reader["bob"].pc = "off", dual["bob"] = NoDual, OwnStep("bob")
  PROVE  matched' = matched /\ dual'["bob"] = NoDual /\ reader'["bob"].pc = "off"
<1>1. /\ IType /\ ReaderOK /\ CoreOK /\ "bob" \in Role
      /\ HonestCommand(cmd["bob"], "bob", matched)
  BY TypeParts DEF IPend, IFresh, IBoth, IType, EndpointOK, AnswersOK, Role
<1>2. ~Reads("bob")
  BY DEF Reads, BobReads, BobReceives, BobGetsLock, ProofHandled, ReaderSeesClose, ReaderSent,
      EndOfStream
<1>3. CASE UNCHANGED <<reader, matched, dual>>
  BY <1>3
<1>4. CASE UNCHANGED <<reader, matched>> /\ Restricts("bob", link)
  BY <1>1, <1>4 DEF Restricts, CoreOK
<1>5. CASE BobDisconnectEnds
  BY <1>1, <1>5 DEF BobDisconnectEnds, DisconnectEnds, NoReader, CoreOK, ReaderOK, hist
<1>6. Answers("bob") => UNCHANGED <<reader, matched>> /\ Restricts("bob", link)
  BY DEF Answers, Confirm
<1>7. ASSUME Decide("bob")
      PROVE  UNCHANGED <<reader, matched, dual>> \/ (UNCHANGED <<reader, matched>> /\ Restricts("bob", link))
  <2>1. dual["bob"].id # cmd["bob"].id
    <3>1. cmd["bob"].id \in Ids
      BY <1>1, <1>7 DEF HonestCommand, Decide
    <3>2. NoDual.id = 0
      BY DEF NoDual
    <3>3. 0 \notin Ids
      BY DEF Ids
    <3> QED BY <3>1, <3>2, <3>3
  <2> QED BY <1>7, <2>1 DEF Decide, core, hist
<1>8. TabCloses("bob") \/ LinkFails("bob", conn["bob"]) => UNCHANGED <<reader, matched, dual>>
  BY DEF TabCloses, ConfirmAbandoned, DisconnectAbandoned, LinkFails, hist
<1>9. Timeouts("bob") => UNCHANGED <<reader, matched>> /\ Restricts("bob", link)
  BY DEF Timeouts, VerificationEnds, ReservationExpires, hist
<1> QED BY <1>2, <1>3, <1>4, <1>5, <1>6, <1>7, <1>8, <1>9 DEF OwnStep, CommandStep

(* They keep Once.                                                            *)
LEMMA BobOnce ==
  ASSUME IPend, Once, BobStep
  PROVE  Once'
<1>1. IType /\ CoreOK /\ BoundOK /\ AliceStays /\ BInv /\ "bob" \in Role
  BY BobLeavesAlice, TypeParts DEF IPend, IFresh, IBoth, IType, EndpointOK, Role
<1>2. sessions'["alice"] = 0 => approved' = 0 /\ guard' = "none" /\ ping' = "none"
  BY <1>1 DEF AliceStays, Still, CoreStill, aliceVars, Once
<1>3. SUFFICES ASSUME sessions'["bob"] = 0
               PROVE  matched'["bob"] = {} /\ dual'["bob"] = NoDual /\ reader'["bob"].pc = "off"
  BY <1>2 DEF Once
<1>4. sessions["bob"] = 0
  <2>1. sessions["bob"] \in Nat
    BY <1>1, SessionAssumption DEF BoundOK
  <2>2. ~(sessions["bob"] >= 1)
    BY <1>3, BobCounts
  <2> QED BY <2>1, <2>2
<1>5. matched["bob"] = {} /\ dual["bob"] = NoDual /\ reader["bob"].pc = "off"
  BY <1>4 DEF Once
<1>6. CASE OwnStep("bob")
  BY <1>5, <1>6, SilentBob
<1>7. CASE Listens \/ BobDisconnectBegins
  BY <1>5, <1>7 DEF Listens, StartServer, BobDisconnectBegins, SendShutdown, hist
<1>8. CASE \E c \in Conns : Admission(c)
  <2>1. PICK c \in Conns : Admission(c)
    BY <1>8
  <2>2. matched' = matched /\ dual' = dual
    BY <2>1 DEF Admission, Admits, Accept, Admit, CandidateEnds, hist
  <2>3. ~AttachBob(c, "recv") \/ gate["bob"] # "CONNECTING"
    <3>1. ASSUME AttachBob(c, "recv"), gate["bob"] = "CONNECTING" PROVE FALSE
      <4>1. gate'["bob"] = "VERIFYING"
        BY <1>1, <3>1 DEF AttachBob, CoreOK
      <4>2. sessions' = [sessions EXCEPT !["bob"] = @ + 1]
        BY <2>1, <3>1, <4>1 DEF Admission, CountSession
      <4>3. sessions'["bob"] = 1
        BY <1>1, <1>4, <4>2 DEF BoundOK
      <4> QED BY <1>3, <4>3
    <3> QED BY <3>1
  <2>4. gate["bob"] # "RECONNECTING"
    BY <1>1, <1>5 DEF BInv, BobBased, Trusts, Both
  <2>5. reader' = reader
    BY <2>1, <2>3, <2>4 DEF Admission, Admits, Accept, Admit, CandidateEnds, Admissible
  <2> QED BY <1>5, <2>2, <2>5
<1> QED BY <1>6, <1>7, <1>8 DEF BobStep

(* A frame waits for the lock while Bob decides, and then he has no           *)
(* reservation.                                                               *)
LEMMA OwnHolds ==
  ASSUME IPend, Firm, Holds, OwnStep("bob")
  PROVE  Holds'
<1>1. IType /\ ReaderOK /\ CoreOK /\ "bob" \in Role
  BY TypeParts DEF IPend, IFresh, IBoth, IType, EndpointOK, Role
<1>2. CASE reader'["bob"].pc # "lock"
  BY <1>2 DEF Holds
<1>3. CASE reader' = reader /\ resume' \in {resume, NoResume}
  BY <1>3 DEF Holds
<1>4. CASE BobReceives \/ BobGetsLock
  <2>1. PICK m, l : Delivered("bob", m, l) /\ (BobHandle(m, l) \/ Postpones("bob", l))
    BY <1>4, BobReadsOne
  <2>2. /\ m \in Message /\ l \in Links /\ m.type \notin {"none", "pong"}
        /\ reader["bob"].conn = conn["bob"] /\ reader["bob"].pc # "off"
    BY <1>1, <2>1, DeliveredSpoken DEF Delivered
  <2>3. CASE BobHandle(m, l)
    <3>1. Stopped("bob") \/ Moved("bob")
      BY <1>1, <2>2, <2>3, BobHandleMoves
    <3> QED BY <1>2, <3>1 DEF Stopped, Moved
  <2>4. CASE ~BobHandle(m, l)
    <3>1. CASE BobReceives
      <4>1. PICK k, w : k = Head(link[reader["bob"].conn].wire["bob"])
                        /\ w = Take(link, "bob", reader["bob"].conn)
        OBVIOUS
      <4>2. /\ reader["bob"].pc = "recv" /\ Up("bob", conn["bob"])
            /\ link[reader["bob"].conn].wire["bob"] # <<>> /\ Delivered("bob", k, w)
        BY <2>2, <3>1, <4>1 DEF BobReceives, Delivered
      <4>3. k \in Message /\ k.type \notin {"none", "pong"}
        BY <1>1, <4>2, DeliveredSpoken
      <4>4. CASE BobHandle(k, w)
        <5>1. Stopped("bob") \/ Moved("bob")
          BY <1>1, <2>2, <4>3, <4>4, BobHandleMoves
        <5> QED BY <1>2, <5>1 DEF Stopped, Moved
      <4>5. CASE ~BobHandle(k, w)
        <5>1. /\ k.type \in VerifyTypes /\ ~LockFree("bob") /\ resume' = resume
              /\ reader' = [reader EXCEPT !["bob"].pc = "lock", !["bob"].msg = k]
          BY <3>1, <4>1, <4>5 DEF BobReceives
        <5>2. cmd["bob"].pc = "deciding"
          BY <4>2, <5>1 DEF LockFree
        <5>3. SeatUp
          BY <4>2 DEF SeatUp
        <5>4. resume = NoResume
          BY <5>2, <5>3, SeatUpParts DEF WaitsAlone
        <5>5. reader'["bob"].msg = k
          BY <1>1, <5>1 DEF ReaderOK, Readers
        <5> QED BY <5>1, <5>4, <5>5 DEF Holds
      <4> QED BY <4>4, <4>5
    <3>2. CASE BobGetsLock
      <4>1. PICK k : k = reader["bob"].msg
        OBVIOUS
      <4>2. Delivered("bob", k, link) /\ BobHandle(k, link)
        BY <3>2, <4>1 DEF BobGetsLock, Delivered
      <4>3. k \in Message /\ k.type \notin {"none", "pong"}
        BY <1>1, <4>2, DeliveredSpoken
      <4>4. Stopped("bob") \/ Moved("bob")
        BY <1>1, <2>2, <4>2, <4>3, BobHandleMoves
      <4> QED BY <1>2, <4>4 DEF Stopped, Moved
    <3> QED BY <1>4, <3>1, <3>2
  <2> QED BY <2>3, <2>4
<1>5. Answers("bob") \/ Decide("bob") \/ TabCloses("bob") \/ Timeouts("bob")
         \/ LinkFails("bob", conn["bob"]) \/ EndOfStream("bob")
      => reader' = reader /\ resume' \in {resume, NoResume}
  BY DEF Answers, Confirm, Decide, TabCloses, ConfirmAbandoned, DisconnectAbandoned, Timeouts,
         VerificationEnds, ReservationExpires, LinkFails, EndOfStream, Restricts, core
<1>6. ASSUME BobDisconnectEnds PROVE reader'["bob"].pc # "lock"
  BY <1>1, <1>6 DEF BobDisconnectEnds, DisconnectEnds, NoReader, ReaderOK
<1>7. ASSUME ProofHandled \/ ReaderSeesClose("bob") \/ ReaderSent("bob")
      PROVE  reader'["bob"].pc # "lock"
  <2>1. reader["bob"].pc # "off"
    BY <1>7 DEF ProofHandled, ReaderSeesClose, ReaderSent
  <2>2. ReaderLoops("bob") \/ reader' = [reader EXCEPT !["bob"] = NoReader]
    BY <1>7 DEF ProofHandled, ReaderSeesClose, ReaderSent, ReaderRaises
  <2>3. Stopped("bob") \/ Moved("bob")
    BY <1>1, <2>1, <2>2, ReaderLoopsMoves
  <2> QED BY <2>3 DEF Stopped, Moved
<1> QED BY <1>2, <1>3, <1>4, <1>5, <1>6, <1>7 DEF OwnStep, CommandStep, Reads, BobReads

(* They keep Holds.                                                           *)
LEMMA BobHolds ==
  ASSUME IPend, Firm, Holds, BobStep
  PROVE  Holds'
<1>1. IType /\ ReaderOK /\ "bob" \in Role
  BY TypeParts DEF IPend, IFresh, IBoth, IType, EndpointOK, Role
<1>2. CASE OwnStep("bob")
  BY <1>2, OwnHolds
<1>3. CASE Listens \/ BobDisconnectBegins
  BY <1>3 DEF Listens, StartServer, BobDisconnectBegins, SendShutdown, Holds
<1>4. CASE \E c \in Conns : Admission(c)
  <2>1. PICK c \in Conns : Admission(c)
    BY <1>4
  <2>2. CASE AttachBob(c, "recv") \/ AttachBob(c, "ready")
    <3>1. reader'["bob"].pc # "lock"
      BY <1>1, <2>2 DEF AttachBob, ReaderOK
    <3> QED BY <3>1 DEF Holds
  <2>3. CASE ~(AttachBob(c, "recv") \/ AttachBob(c, "ready"))
    <3>1. reader' = reader /\ resume' = resume
      BY <2>1, <2>3 DEF Admission, Admits, Accept, Admit, CandidateEnds
    <3> QED BY <3>1 DEF Holds
  <2> QED BY <2>2, <2>3
<1> QED BY <1>2, <1>3, <1>4 DEF BobStep

(* His steps keep the invariant.                                              *)
LEMMA BobSpeaking ==
  ASSUME MaxBursts = 0, IPend, Speaking, Holds, First', [Next]_vars, BobStep
  PROVE  Speaking' /\ Holds'
<1>1. Firm /\ Slots /\ Once /\ Paced /\ BobHears /\ refused = {}
  BY DEF Speaking
<1>2. Talk' /\ AliceHeard' /\ AliceStands'
  BY BobTalks
<1>3. BobHears' /\ CandHears'
  BY BobBobHears, BobCandHears
<1>4. Firm' /\ Slots' /\ Paced' /\ Once' /\ Holds'
  BY <1>1, BobFirm, BobSlots, BobOnce, BobHolds
<1>5. refused' = {}
  BY <1>1, BobRight
<1> QED BY <1>2, <1>3, <1>4, <1>5 DEF Speaking

(* Hers keep Holds.                                                           *)
LEMMA AliceHolds ==
  ASSUME IPend, Holds, AliceStep
  PROVE  Holds'
<1>1. Still("bob")
  BY AliceStepStill DEF IPend, IFresh, IBoth, IType
<1> QED BY <1>1 DEF Holds, Still, CoreStill, RestStill

(* A stuttering step keeps the invariant.                                     *)
LEMMA StutterTalks ==
  ASSUME Speaking, Holds, UNCHANGED vars
  PROVE  Speaking' /\ Holds'
<1> USE DEF vars, endpointVars, aliceVars, bobVars, bounds, core, hist
<1>1. Firm' /\ Slots' /\ Once' /\ Paced' /\ AliceStands' /\ refused' = {} /\ Holds'
  <2>1. Firm'
    BY DEF Speaking, Firm, Deciding, Up
  <2>2. Slots' /\ Once' /\ Paced' /\ Holds'
    BY DEF Speaking, Slots, Once, Paced, Holds, ToAlice
  <2>3. AliceStands'
    BY DEF Speaking, AliceStands, Up
  <2> QED BY <2>1, <2>2, <2>3 DEF Speaking
<1>2. AliceHeard'
  BY DEF Speaking, AliceHeard, Up, ToAlice, Got
<1>3. BobHears'
  BY DEF Speaking, BobHears, Up, ToBob, Seated, BobAt, BobIdle, BobCompares, BobProven, Waiting,
      Matches,
         Sound, Reply
<1>4. CandHears'
  BY DEF Speaking, CandHears, ToBob
<1>5. Talk'
  <2>1. BobStands /\ AliceStays
    BY DEF BobStands, AliceStays, Still, CoreStill, RestStill
  <2>2. /\ ToBob(conn["alice"])' = ToBob(conn["alice"])
        /\ ToAlice(conn["alice"])' = ToAlice(conn["alice"])
    BY DEF ToBob, ToAlice
  <2>3. /\ Got' = Got /\ GotMatch' = GotMatch /\ On' = On /\ Matches("alice")' = Matches("alice")
        /\ \A t, i, f : AliceAt(t, i, f)' <=> AliceAt(t, i, f)
    BY <2>1, AliceSame
  <2>4. ASSUME NEW n \in Frames, NEW t \in Frames, NEW i \in 0 .. MaxIds, NEW f \in BOOLEAN,
               BobAt(n, i, f), Line(n, t, i, f)
        PROVE  BobAt(n, i, f)' /\ Line(n, t, i, f)'
    <3>1. AliceAt(t, i, f)'
      BY <2>3, <2>4 DEF Line
    <3>2. BobAt(n, i, f)'
      BY <2>1, <2>4, BobSame
    <3>3. recovered' = recovered /\ ping' = ping
      OBVIOUS
    <3>4. Line(n, t, i, f)'
      BY <2>1, <2>2, <2>3, <2>4, <3>1, <3>3, LineStays
    <3> QED BY <3>2, <3>4
  <2>5. Opens => Opens'
    <3>1. ASSUME NEW t \in 0 .. 2, NEW i \in 0 .. MaxIds, OpensAt(t, i) PROVE OpensAt(t, i)'
      BY <2>1, <2>2, <3>1, OpensStay
    <3> QED BY <3>1 DEF Opens, OpensAt
  <2>6. Approves => Approves'
    BY DEF Approves, ToBob
  <2>7. ToAlice(conn["alice"])' = <<>> <=> ToAlice(conn["alice"]) = <<>>
    BY <2>2
  <2> HIDE DEF vars, endpointVars, aliceVars, bobVars, bounds, core, hist
  <2>8. UNCHANGED <<link, conn, cand>>
    BY DEF vars, endpointVars, bobVars, core
  <2> QED BY <2>4, <2>5, <2>6, <2>7, <2>8 DEF Speaking, Talk, Up
<1> QED BY <1>1, <1>2, <1>3, <1>4, <1>5 DEF Speaking

(* The invariant, in the first session of each.                               *)
ITalk == First => Speaking /\ Holds

(* It holds at first.                                                         *)
LEMMA InitITalk == Init => ITalk
<1>1. SUFFICES ASSUME Init PROVE Speaking /\ Holds
  BY DEF ITalk
<1>2. /\ conn["alice"] = 0 /\ conn["bob"] = 0 /\ \A r \in Role : reader[r].pc = "off" /\ cmd[r].pc = "idle"
      /\ \A c \in Conns, r \in Role : link[c].wire[r] = <<>>
      /\ \A c \in Conns : cand[c].pc = "none"
  <2>1. \A r \in Role : reader[r] = NoReader /\ cmd[r] = NoCommand /\ conn[r] = 0
    BY <1>1 DEF Init, EndpointInit
  <2>2. \A c \in Conns, r \in Role : link[c].wire[r] = <<>>
    BY <1>1 DEF Init, EndpointInit
  <2>3. \A c \in Conns : cand[c] = NoCand
    BY <1>1 DEF Init, BobInit
  <2> QED BY <2>1, <2>2, <2>3 DEF Role, NoReader, NoCommand, NoCand
<1>3. ~Up("alice", conn["alice"]) /\ ~Up("bob", conn["bob"])
  BY <1>2 DEF Up
<1>4. Firm /\ Holds
  BY <1>2, <1>3 DEF Firm, Deciding, Holds, Role
<1>5. BobHears /\ CandHears /\ AliceHeard /\ AliceStands /\ Talk
  BY <1>2, <1>3 DEF BobHears, CandHears, AliceHeard, AliceStands, Talk
<1>6. Slots
  BY <1>1, <1>2 DEF Slots, ToAlice, Role
<1>7. Once /\ Paced /\ refused = {}
  <2>1. /\ matched["bob"] = {} /\ dual["bob"] = NoDual /\ approved = 0 /\ guard = "none"
        /\ ping = "none" /\ gate["alice"] = "LOCKED" /\ refused = {}
    BY <1>1 DEF Init, EndpointInit, AliceInit, Role
  <2>2. reader["bob"].pc = "off"
    BY <1>2 DEF Role
  <2> QED BY <2>1, <2>2 DEF Once, Paced
<1> QED BY <1>4, <1>5, <1>6, <1>7 DEF Speaking

(* Every step keeps it.                                                       *)
LEMMA NextITalk ==
  ASSUME MaxBursts = 0, IPend, ITalk, [Next]_vars
  PROVE  ITalk'
<1>1. SUFFICES ASSUME First' PROVE Speaking' /\ Holds'
  BY DEF ITalk
<1>2. TypeOK
  BY DEF IPend, IFresh, IBoth, IType
<1>3. Speaking /\ Holds
  BY <1>1, <1>2, SessionsGrow DEF ITalk
<1>4. CASE UNCHANGED vars
  BY <1>3, <1>4, StutterTalks
<1>5. CASE BobStep
  BY <1>1, <1>3, <1>5, BobSpeaking
<1>6. CASE AliceStep
  <2>1. IPend'
    BY NextIPend
  <2> QED BY <1>1, <1>3, <1>6, <2>1, AliceSpeaking, AliceHolds
<1> QED BY <1>4, <1>5, <1>6, NextIsOf

(* HonestPeerNotRefused, without bursts: in the first session of each, no     *)
(* runtime refuses a frame of the other.                                      *)
THEOREM HonestNotRefused == MaxBursts = 0 => (Spec => []HonestPeerNotRefused)
<1>1. SUFFICES ASSUME MaxBursts = 0 PROVE Spec => []HonestPeerNotRefused
  OBVIOUS
<1>2. Init => IPend /\ ITalk
  BY InitIPend, InitITalk
<1>3. IPend /\ ITalk /\ [Next]_vars => IPend' /\ ITalk'
  BY <1>1, NextIPend, NextITalk
<1>4. ITalk => HonestPeerNotRefused
  BY DEF ITalk, First, Speaking, HonestPeerNotRefused
<1> QED BY <1>2, <1>3, <1>4, PTL DEF Spec
=============================================================================
