--------------------------- MODULE HazardLifecycle ---------------------------
(***************************************************************************)
(* What the charging service promises about a hazard: every operation      *)
(* checks the hazard and changes it in one indivisible step.  No requests  *)
(* in flight, no versions, no stations: ChargingHazards has those, and     *)
(* implements this specification.                                          *)
(***************************************************************************)
CONSTANTS
  Hazards,      (* hazard identifiers                                      *)
  Operators,    (* ids of the operators who can log in                     *)
  People,       (* every id a client may name as the responsible person    *)
  NoOne,        (* the empty assigned_to column                            *)
  Evidence,     (* non-empty evidence texts                                *)
  NoEvidence    (* the empty evidence column                               *)

VARIABLE hazard    (* hazard[h] is what a reader of hazard h is shown *)

States == {"absent", "open", "assigned", "rectified", "verified", "rejected"}

View == [state : States, assigned : People \cup {NoOne},
         evidence : Evidence \cup {NoEvidence}]

Absent == [state |-> "absent", assigned |-> NoOne, evidence |-> NoEvidence]

Init == hazard = [h \in Hazards |-> Absent]

(* A new hazard is open; its reporter may already name a person and evidence. *)
Report(h, a, e) ==
  /\ hazard[h].state = "absent"
  /\ hazard' = [hazard EXCEPT ![h] = [state |-> "open", assigned |-> a, evidence |-> e]]

(* An unfinished hazard is given to a; naming no one keeps the present assignee. *)
Assign(h, a) ==
  /\ hazard[h].state \in {"open", "assigned", "rejected"}
  /\ hazard' = [hazard EXCEPT ![h] = [state    |-> "assigned",
                                      assigned |-> IF a = NoOne THEN @.assigned ELSE a,
                                      evidence |-> @.evidence]]

(* Its assignee, or anyone when it has none, rectifies it with evidence. *)
Rectify(h, u, e) ==
  /\ hazard[h].state \in {"assigned", "rectified"}
  /\ hazard[h].assigned \in {u, NoOne}
  /\ hazard' = [hazard EXCEPT ![h] = [state |-> "rectified", assigned |-> u, evidence |-> e]]

(* A rectified hazard is closed with evidence; a closed one stays closed. *)
Verify(h, e) ==
  /\ hazard[h].state \in {"rectified", "verified"}
  /\ hazard' = [hazard EXCEPT ![h] = [state |-> "verified", assigned |-> @.assigned, evidence |-> e]]

Next ==
  \E h \in Hazards :
    \/ \E a \in People \cup {NoOne}, e \in Evidence \cup {NoEvidence} : Report(h, a, e)
    \/ \E a \in People \cup {NoOne} : Assign(h, a)
    \/ \E u \in Operators, e \in Evidence : Rectify(h, u, e)
    \/ \E e \in Evidence : Verify(h, e)

Spec == Init /\ [][Next]_hazard
==============================================================================
