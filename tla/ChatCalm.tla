-------------------------------- MODULE ChatCalm --------------------------------
(***************************************************************************)
(* The chat session when nothing goes wrong: no connection fails, nobody   *)
(* disconnects, no timer fires, no burst is started, and both people answer*)
(* every request once, with MATCH.  Everything else - when either side     *)
(* runs, when its assessments demand a verification, who clicks first - is *)
(* left open.                                                              *)
(***************************************************************************)
EXTENDS ChatSession

CalmMeasures ==
    \/ /\ \/ LoopHead \/ Heartbeat \/ PingSent \/ Conclude \/ AssessKeeps \/ AssessVerifies
          \/ RequestSent \/ BothDecided \/ ResultSent \/ NoticeSent
          \/ RecoverBegins("measure") \/ ProofSent("measure") \/ Resumed("measure")
          \/ recovered = "done" /\ Recovered("measure")
       /\ OfAlice
    \/ Redialled("measure")

(* A connection that is closed with nothing in flight the other way delivers  *)
(* every frame before its end.                                                *)
CalmReads(r) ==
    \/ r = "alice" /\ AliceReads /\ OfAlice
    \/ r = "bob" /\ BobReads /\ OfBob
    \/ (ReaderSeesClose(r) \/ ReaderSent(r)) /\ OfEither
    \/ reader[r].pc = "recv" /\ link[reader[r].conn].wire[r] = <<>>
       /\ EndOfStream(r) /\ OfEither

(* The frames sent on the old connection are read before the handshake of the *)
(* new one is over.                                                           *)
CalmAdmission(c) == ((Accept(c) /\ ~Occupied) \/ Admit(c)) /\ OfBob

Agrees(r) ==
    /\ dual[r] # NoDual /\ dual[r].decisions[r] = "none"
    /\ Confirm(r, dual[r].id, TRUE)
    /\ OfEither

CalmNext ==
    \/ Connects \/ (Listens /\ server') \/ Dialled \/ CalmMeasures
    \/ \E c \in Conns : CalmAdmission(c)
    \/ \E r \in Role : Agrees(r) \/ CommandStep(r) \/ CalmReads(r)

CalmSpec ==
    /\ Init /\ [][CalmNext]_vars
    /\ WF_vars(Connects) /\ WF_vars(Listens /\ server') /\ WF_vars(Dialled)
    /\ WF_vars(CalmMeasures)
    /\ \A c \in Conns : WF_vars(CalmAdmission(c))
    /\ \A r \in Role :
          WF_vars(Agrees(r)) /\ WF_vars(CommandStep(r)) /\ WF_vars(CalmReads(r))

(* Two people who agree get to chat, and get back to it after every further   *)
(* verification: first comparison, recovery on fresh TLS and all the notices  *)
(* in between never leave the two processes waiting for each other.           *)
BothGatesOpenAgain == []<>(\A r \in Role : gate[r] = "ACTIVE")
===============================================================================
