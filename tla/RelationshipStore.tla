--------------------------- MODULE RelationshipStore ---------------------------
(***************************************************************************)
(* What the SQLite database (storage/relationship_store.py) keeps of one   *)
(* relationship: whether the two people were verified, and a row for every *)
(* session.  Each operator is one transaction; the trust score, baselines, *)
(* counters and the audit trail are left out, and so are the transactions  *)
(* that write nothing else.                                                *)
(***************************************************************************)

Row == {"none", "ACTIVE", "CLOSED", "RESTRICTED"}

Store(sessions) == [verified : BOOLEAN, row : [sessions -> Row]]

(* A relationship that was never seen                                         *)
EmptyStore(sessions) == [verified |-> FALSE, row |-> [s \in sessions |-> "none"]]

StartSession(db, s) == [db EXCEPT !.row[s] = "ACTIVE"]

(* A row ends once.                                                           *)
FinishSession(db, s, status) ==
    IF db.row[s] = "ACTIVE" THEN [db EXCEPT !.row[s] = status] ELSE db

Verification(db, success) == [db EXCEPT !.verified = success]

RestrictRelationship(db) == [db EXCEPT !.verified = FALSE]

(* Mutant: the row of the replaced session is not ended.                      *)
ReplacedOnly(db, old, new) == StartSession(db, new)

(* The two transactions of a replaced connection, and what the store may hold *)
(* when they were tried                                                       *)
Replaced(db, old, new) == StartSession(FinishSession(db, old, "CLOSED"), new)

ReplacementTried(db, old, new) ==
    {db, FinishSession(db, old, "CLOSED"), Replaced(db, old, new)}

(* Mutant: the relationship stays verified.                                   *)
RowOnly(db, s) == FinishSession(db, s, "RESTRICTED")

(* The two transactions of SessionGuard.restrict                              *)
Restriction(db, s) == FinishSession(RestrictRelationship(db), s, "RESTRICTED")

(* What the store may hold when they were tried after any one of tries and    *)
(* either may have raised                                                     *)
RestrictionTried(tries, s) ==
    tries \cup {RestrictRelationship(d) : d \in tries} \cup {Restriction(d, s) : d \in tries}
===============================================================================
