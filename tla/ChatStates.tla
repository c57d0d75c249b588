------------------------------ MODULE ChatStates ------------------------------
EXTENDS Naturals

(* The states of one endpoint's chat gate and the moves between them that    *)
(* chat/coordinator.py allows.                                               *)

State == {"LOCKED", "CONNECTING", "VERIFYING", "ACTIVE", "RECONNECTING",
          "RESTRICTED", "CLOSED"}

TRANSITIONS ==
    [LOCKED       |-> {"CONNECTING", "CLOSED"},
     CONNECTING   |-> {"VERIFYING", "RESTRICTED", "CLOSED"},
     VERIFYING    |-> {"ACTIVE", "RECONNECTING", "RESTRICTED", "CLOSED"},
     ACTIVE       |-> {"VERIFYING", "RECONNECTING", "RESTRICTED", "CLOSED"},
     RECONNECTING |-> {"VERIFYING", "RESTRICTED", "CLOSED"},
     RESTRICTED   |-> {"CLOSED"},
     CLOSED       |-> {}]

(* Coordinator.transition does not raise: the state is kept or is allowed.    *)
CanMove(from, to) == to = from \/ to \in TRANSITIONS[from]

(* The generation after a transition: every real move to a state other than   *)
(* ACTIVE starts a new one, which is what invalidates chat already queued.    *)
Generation(from, to, generation) ==
    IF to # from /\ to # "ACTIVE" THEN generation + 1 ELSE generation

(* Coordinator.control refuses in these states.                               *)
ControlRefused == {"LOCKED", "CLOSED", "RESTRICTED"}
===============================================================================
