------------------------ MODULE ChargingHazardsProofs ------------------------
(***************************************************************************)
(* Proofs about ChargingHazards for any set of hazards, accounts, people   *)
(* and requests in flight.  Everything rests on one fact: a row and a copy *)
(* of it that carry the same version are the same row (IInv).              *)
(***************************************************************************)
EXTENDS ChargingHazards, TLAPS

(* The inductive invariant. *)
IInv == TypeOK /\ SnapshotsAreCurrentOrOlder /\ RequestsAreDecided /\ ClosedWithEvidence

USE RoleAssumption, PeopleAssumption, EvidenceAssumption, VersionAssumption

(* With empty tables and no request in flight the invariant holds.          *)
LEMMA InitIInv == Init => IInv
  BY DEF Init, IInv, TypeOK, SnapshotsAreCurrentOrOlder, RequestsAreDecided,
         ClosedWithEvidence, NoRow, Assignee, EvidenceText

(* An UPDATE that is allowed leaves a well-formed row with a higher version. *)
LEMMA UpdatedIsRow ==
  ASSUME NEW r \in Row \cup {NoRow}, NEW q \in Request, r.version = q.read.version,
         r.version < MaxVersion
  PROVE  /\ Updated(r, q) \in Row
         /\ Updated(r, q).version = r.version + 1
         /\ Updated(r, q).state = q.next
  BY DEF Updated, Row, Request, NoRow, HazardStates, Assignee, EvidenceText

(* Reading a hazard for an operation keeps the invariant. *)
LEMMA IssueKeeps ==
  ASSUME IInv, NEW w \in Workers, NEW h \in Hazards,
         NEW next \in {"assigned", "rectified", "verified"},
         NEW a \in Assignee, NEW e \in EvidenceText,
         Issue(w, h, next, a, e),
         next = "assigned" => e = NoEvidence,
         next = "rectified" => a \in Operators /\ e \in Evidence /\ MayRectify(a, row[h]),
         next = "verified" => a = NoOne /\ e \in Evidence
  PROVE  IInv'
<1>1. row[h] \in Row
  BY DEF Issue, IInv, TypeOK
<1> DEFINE q == [hazard |-> h, read |-> row[h], next |-> next, assigned |-> a, evidence |-> e]
<1>2. q \in Request /\ row' = row /\ stations' = stations /\ req' = [req EXCEPT ![w] = q]
  BY <1>1 DEF Issue, Request
<1>3. TypeOK'
  BY <1>2 DEF IInv, TypeOK
<1>4. SnapshotsAreCurrentOrOlder'
  <2> SUFFICES ASSUME NEW v \in Workers, req'[v] # Idle
               PROVE  /\ req'[v].read.version <= row'[req'[v].hazard].version
                      /\ VersionMatches(row'[req'[v].hazard], req'[v])
                           => req'[v].read = row'[req'[v].hazard]
    BY DEF SnapshotsAreCurrentOrOlder
  <2>1. CASE v = w
    BY <1>1, <1>2, <2>1 DEF IInv, TypeOK, Row
  <2>2. CASE v # w
    BY <1>2, <2>2 DEF IInv, TypeOK, SnapshotsAreCurrentOrOlder
  <2> QED BY <2>1, <2>2
<1>5. RequestsAreDecided'
  BY <1>2 DEF IInv, TypeOK, RequestsAreDecided, Issue
<1>6. ClosedWithEvidence'
  BY <1>2 DEF IInv, ClosedWithEvidence
<1> QED BY <1>3, <1>4, <1>5, <1>6 DEF IInv

(* The INSERT of ReportHazard: the new row has version 1, and no request can *)
(* have a copy of a row that was not there.                                  *)
LEMMA ReportKeeps ==
  ASSUME IInv, NEW u \in Accounts, NEW h \in Hazards, NEW s \in Stations,
         NEW a \in Assignee, NEW e \in EvidenceText, ReportHazard(u, h, s, a, e)
  PROVE  IInv'
<1>1. NewRow(a, e) \in Row
  BY DEF NewRow, Row, HazardStates
<1>2. row[h] = NoRow /\ row' = [row EXCEPT ![h] = NewRow(a, e)] /\ UNCHANGED <<stations, req>>
  BY DEF ReportHazard
<1>3. TypeOK'
  BY <1>1, <1>2 DEF IInv, TypeOK
<1>4. SnapshotsAreCurrentOrOlder' /\ RequestsAreDecided'
  <2>1. ASSUME NEW v \in Workers, req[v] # Idle
        PROVE  req[v].hazard # h
    BY <1>2, <2>1 DEF IInv, TypeOK, SnapshotsAreCurrentOrOlder, Request, Row, NoRow
  <2>2. ASSUME NEW v \in Workers, req[v] # Idle
        PROVE  row'[req[v].hazard] = row[req[v].hazard]
    BY <1>2, <2>1, <2>2 DEF IInv, TypeOK, Request
  <2> QED BY <1>2, <2>2 DEF IInv, SnapshotsAreCurrentOrOlder, RequestsAreDecided
<1>5. ClosedWithEvidence'
  BY <1>2 DEF IInv, TypeOK, ClosedWithEvidence, NewRow
<1> QED BY <1>3, <1>4, <1>5 DEF IInv

(* The guarded UPDATE: the version matches, so the copy is the row, and the  *)
(* checks made on the copy hold for the row that is replaced.                *)
LEMMA TransitionKeeps ==
  ASSUME IInv, NEW w \in Workers, TransitionHazard(w)
  PROVE  IInv'
<1> DEFINE q == req[w]
           h == q.hazard
<1>1. q \in Request /\ h \in Hazards /\ q.read = row[h] /\ row[h] \in Row
  BY DEF TransitionHazard, IInv, TypeOK, Request, SnapshotsAreCurrentOrOlder
<1>2. /\ row' = [row EXCEPT ![h] = Updated(row[h], q)]
      /\ req' = [req EXCEPT ![w] = Idle]
      /\ stations' = stations
      /\ row[h].version < MaxVersion
  BY DEF TransitionHazard
<1>3. /\ Updated(row[h], q) \in Row
      /\ Updated(row[h], q).version = row[h].version + 1
      /\ Updated(row[h], q).state = q.next
  BY <1>1, <1>2, UpdatedIsRow
<1>4. TypeOK'
  BY <1>1, <1>2, <1>3 DEF IInv, TypeOK
<1>5. SnapshotsAreCurrentOrOlder'
  <2> SUFFICES ASSUME NEW v \in Workers, req'[v] # Idle
               PROVE  /\ req'[v].read.version <= row'[req'[v].hazard].version
                      /\ VersionMatches(row'[req'[v].hazard], req'[v])
                           => req'[v].read = row'[req'[v].hazard]
    BY DEF SnapshotsAreCurrentOrOlder
  <2>1. v # w /\ req'[v] = req[v] /\ req[v] \in Request /\ req[v].hazard \in Hazards
    BY <1>2 DEF IInv, TypeOK, Request
  <2>2. /\ req[v].read.version <= row[req[v].hazard].version
        /\ VersionMatches(row[req[v].hazard], req[v]) => req[v].read = row[req[v].hazard]
    BY <2>1 DEF IInv, SnapshotsAreCurrentOrOlder
  <2>3. CASE req[v].hazard # h
    BY <1>2, <2>1, <2>2, <2>3 DEF IInv, TypeOK
  <2>4. CASE req[v].hazard = h
    <3>1. row'[h] = Updated(row[h], q)
      BY <1>1, <1>2 DEF IInv, TypeOK
    <3>2. row[h].version \in Nat /\ req[v].read.version \in Nat
      BY <1>1, <2>1 DEF Request, Row
    <3> QED BY <1>3, <2>1, <2>2, <2>4, <3>1, <3>2 DEF VersionMatches
  <2> QED BY <2>3, <2>4
<1>6. RequestsAreDecided'
  BY <1>2 DEF IInv, TypeOK, RequestsAreDecided
<1>7. ClosedWithEvidence'
  <2>1. q.next \in {"rectified", "verified"} => Updated(row[h], q).evidence # NoEvidence
    BY DEF TransitionHazard, IInv, RequestsAreDecided, Updated
  <2> QED BY <1>1, <1>2, <1>3, <2>1 DEF IInv, TypeOK, ClosedWithEvidence
<1> QED BY <1>4, <1>5, <1>6, <1>7 DEF IInv

(* A request that ends without an UPDATE. *)
LEMMA DroppingKeeps ==
  ASSUME IInv, UNCHANGED <<stations, row>>, req' \in [Workers -> Request \cup {Idle}],
         \A v \in Workers : req'[v] \in {req[v], Idle}
  PROVE  IInv'
  BY DEF IInv, TypeOK, SnapshotsAreCurrentOrOlder, RequestsAreDecided, ClosedWithEvidence

(* The invariant is inductive: one step per action of Next.                  *)
LEMMA NextIInv == IInv /\ [Next]_vars => IInv'
<1> SUFFICES ASSUME IInv, [Next]_vars PROVE IInv'
  OBVIOUS
<1>1. ASSUME NEW u \in Accounts, NEW s \in Stations, CreateStation(u, s)
      PROVE  IInv'
  BY <1>1 DEF CreateStation, IInv, TypeOK, SnapshotsAreCurrentOrOlder, RequestsAreDecided,
              ClosedWithEvidence
<1>2. ASSUME NEW u \in Accounts, NEW h \in Hazards, NEW s \in Stations, NEW a \in Assignee,
             NEW e \in EvidenceText, ReportHazard(u, h, s, a, e)
      PROVE  IInv'
  BY <1>2, ReportKeeps
<1>3. ASSUME NEW w \in Workers, NEW u \in Accounts, NEW h \in Hazards, NEW a \in Assignee,
             AssignHazard(w, u, h, a)
      PROVE  IInv'
  <2>1. NoEvidence \in EvidenceText /\ Issue(w, h, "assigned", a, NoEvidence)
    BY <1>3 DEF AssignHazard, EvidenceText
  <2> QED BY <2>1, IssueKeeps
<1>4. ASSUME NEW w \in Workers, NEW u \in Accounts, NEW h \in Hazards, NEW e \in Evidence,
             RectifyHazard(w, u, h, e)
      PROVE  IInv'
  <2>1. u \in Operators /\ u \in Assignee /\ e \in EvidenceText /\ MayRectify(u, row[h])
        /\ Issue(w, h, "rectified", u, e)
    BY <1>4 DEF RectifyHazard, Assignee, EvidenceText
  <2> QED BY <2>1, IssueKeeps
<1>5. ASSUME NEW w \in Workers, NEW u \in Accounts, NEW h \in Hazards, NEW e \in Evidence,
             VerifyHazard(w, u, h, e)
      PROVE  IInv'
  <2>1. NoOne \in Assignee /\ e \in EvidenceText /\ Issue(w, h, "verified", NoOne, e)
    BY <1>5 DEF VerifyHazard, Assignee, EvidenceText
  <2> QED BY <2>1, IssueKeeps
<1>6. ASSUME NEW w \in Workers, TransitionHazard(w)
      PROVE  IInv'
  BY <1>6, TransitionKeeps
<1>7. ASSUME NEW w \in Workers, Conflict(w) \/ Abandon(w)
      PROVE  IInv'
  BY <1>7, DroppingKeeps DEF Conflict, Abandon, IInv, TypeOK
<1>8. CASE Restart
  BY <1>8, DroppingKeeps DEF Restart
<1>9. CASE UNCHANGED vars
  BY <1>9, DroppingKeeps DEF vars, IInv, TypeOK
<1> QED BY <1>1, <1>2, <1>3, <1>4, <1>5, <1>6, <1>7, <1>8, <1>9 DEF Next

(* The inductive invariant holds: types, the currency of every copy that     *)
(* still has the version of its row, and evidence on every closed hazard.    *)
THEOREM Invariance == Spec => []IInv
<1> QED BY InitIInv, NextIInv, PTL DEF Spec

(* Every state of the charging tables is well formed. *)
THEOREM TypeCorrect == Spec => []TypeOK
<1>1. IInv => TypeOK
  BY DEF IInv
<1> QED BY <1>1, Invariance, PTL

(* A copy with the version of its row is the row. *)
THEOREM SnapshotsCurrent == Spec => []SnapshotsAreCurrentOrOlder
<1>1. IInv => SnapshotsAreCurrentOrOlder
  BY DEF IInv
<1> QED BY <1>1, Invariance, PTL

(* A rectified or closed hazard carries evidence. *)
THEOREM ClosedHazardsHaveEvidence == Spec => []ClosedWithEvidence
<1>1. IInv => ClosedWithEvidence
  BY DEF IInv
<1> QED BY <1>1, Invariance, PTL

-----------------------------------------------------------------------------
(* What a step does to the rows *)

(* Rows change only by an INSERT or by a guarded UPDATE. *)
LEMMA RowSteps ==
  ASSUME IInv, [Next]_vars
  PROVE  \/ row' = row
         \/ \E u \in Accounts, h \in Hazards, s \in Stations, a \in Assignee,
               e \in EvidenceText : ReportHazard(u, h, s, a, e)
         \/ \E w \in Workers : TransitionHazard(w)
  BY DEF Next, vars, CreateStation, AssignHazard, RectifyHazard, VerifyHazard, Issue,
         Conflict, Abandon, Restart

(* When the guarded UPDATE succeeds, the decision taken on the copy is the   *)
(* decision the row itself would have given.                                 *)
LEMMA TransitionEffect ==
  ASSUME IInv, NEW w \in Workers, TransitionHazard(w)
  PROVE  LET q == req[w]  h == q.hazard
         IN /\ q \in Request /\ h \in Hazards /\ row[h] \in Row /\ q.read = row[h]
            /\ row' = [row EXCEPT ![h] = Updated(row[h], q)]
            /\ Updated(row[h], q).state = q.next
            /\ CanTransition(row[h].state, q.next)
            /\ q.next = "assigned" => q.evidence = NoEvidence
            /\ q.next = "rectified" => /\ q.assigned \in Operators
                                       /\ q.evidence \in Evidence
                                       /\ MayRectify(q.assigned, row[h])
            /\ q.next = "verified" => q.assigned = NoOne /\ q.evidence \in Evidence
<1>1. req[w] \in Request /\ req[w].hazard \in Hazards /\ req[w].read \in Row
  BY DEF TransitionHazard, IInv, TypeOK, Request
<1>2. req[w].read = row[req[w].hazard]
  BY DEF TransitionHazard, IInv, SnapshotsAreCurrentOrOlder
<1> QED BY <1>1, <1>2 DEF TransitionHazard, IInv, RequestsAreDecided, Updated

(* A closed hazard stays closed: a rectification or an assignment that read  *)
(* it earlier finds another version, and nothing leaves "verified".          *)
THEOREM ClosedHazardsStayClosed == Spec => ClosedIsFinal
<1>1. ASSUME IInv, [Next]_vars, NEW h \in Hazards, row[h].state = "verified"
      PROVE  row'[h].state = "verified"
  <2>1. ASSUME NEW u \in Accounts, NEW g \in Hazards, NEW s \in Stations, NEW a \in Assignee,
               NEW e \in EvidenceText, ReportHazard(u, g, s, a, e)
        PROVE  row'[h].state = "verified"
    BY <1>1, <2>1 DEF ReportHazard, NoRow, IInv, TypeOK
  <2>2. ASSUME NEW w \in Workers, TransitionHazard(w)
        PROVE  row'[h].state = "verified"
    BY <1>1, <2>2, TransitionEffect DEF CanTransition, IInv, TypeOK
  <2> QED BY <1>1, <2>1, <2>2, RowSteps
<1>2. IInv /\ [Next]_vars
        => [\A h \in Hazards : row[h].state = "verified" => row'[h].state = "verified"]_vars
  BY <1>1
<1> QED BY <1>2, Invariance, PTL DEF Spec, ClosedIsFinal

(* No rectification lands on a hazard that belongs to someone else at the    *)
(* moment of the write.                                                      *)
THEOREM RectifiersAreAssigned == Spec => OnlyAssigneeRectifies
<1>1. ASSUME IInv, [Next]_vars, NEW h \in Hazards, row'[h] # row[h], row'[h].state = "rectified"
      PROVE  row[h].assigned \in {row'[h].assigned, NoOne}
  <2>1. ASSUME NEW u \in Accounts, NEW g \in Hazards, NEW s \in Stations, NEW a \in Assignee,
               NEW e \in EvidenceText, ReportHazard(u, g, s, a, e)
        PROVE  FALSE
    BY <1>1, <2>1 DEF ReportHazard, NewRow, IInv, TypeOK
  <2>2. ASSUME NEW w \in Workers, TransitionHazard(w)
        PROVE  row[h].assigned \in {row'[h].assigned, NoOne}
    <3>1. h = req[w].hazard /\ row'[h] = Updated(row[h], req[w]) /\ req[w].next = "rectified"
      BY <1>1, <2>2, TransitionEffect DEF IInv, TypeOK
    <3>2. MayRectify(req[w].assigned, row[h]) /\ req[w].assigned \in Operators
      BY <1>1, <2>2, <3>1, TransitionEffect
    <3> QED BY <3>1, <3>2 DEF Updated, MayRectify
  <2> QED BY <1>1, <2>1, <2>2, RowSteps
<1>2. IInv /\ [Next]_vars
        => [\A h \in Hazards :
              row'[h] # row[h] /\ row'[h].state = "rectified"
                => row[h].assigned \in {row'[h].assigned, NoOne}]_vars
  BY <1>1
<1> QED BY <1>2, Invariance, PTL DEF Spec, OnlyAssigneeRectifies

-----------------------------------------------------------------------------
(* The service implements HazardLifecycle *)

Shown == [h \in Hazards |-> [state    |-> row[h].state,
                             assigned |-> row[h].assigned,
                             evidence |-> row[h].evidence]]

(* The tables of a new installation show absent hazards only.                *)
LEMMA ShownInit == Init => Life!Init
  BY DEF Init, Life!Init, Life!Absent, NoRow

(* ReportHazard is the atomic Report.                                        *)
LEMMA ReportIsLifeStep ==
  ASSUME IInv, NEW u \in Accounts, NEW h \in Hazards, NEW s \in Stations,
         NEW a \in Assignee, NEW e \in EvidenceText, ReportHazard(u, h, s, a, e)
  PROVE  Life!Report(h, a, e)
<1>1. row[h].state = "absent" /\ row' = [row EXCEPT ![h] = NewRow(a, e)]
  BY DEF ReportHazard, NoRow
<1>2. Shown' = [Shown EXCEPT ![h] = [state |-> "open", assigned |-> a, evidence |-> e]]
  BY <1>1 DEF Shown, NewRow, IInv, TypeOK
<1> QED BY <1>1, <1>2 DEF Life!Report, Shown

(* The guarded UPDATE is the atomic Assign, Rectify or Verify: what the      *)
(* request checked when it read is true of the row it changes.               *)
LEMMA TransitionIsLifeStep ==
  ASSUME IInv, NEW w \in Workers, TransitionHazard(w)
  PROVE  Life!Next
<1> PICK q \in Request, h \in Hazards : q = req[w] /\ h = q.hazard
  BY TransitionEffect
<1>1. /\ row[h] \in Row
      /\ row' = [row EXCEPT ![h] = Updated(row[h], q)]
      /\ CanTransition(row[h].state, q.next)
      /\ q.next = "assigned" => q.evidence = NoEvidence
      /\ q.next = "rectified" => /\ q.assigned \in Operators
                                 /\ q.evidence \in Evidence
                                 /\ MayRectify(q.assigned, row[h])
      /\ q.next = "verified" => q.assigned = NoOne /\ q.evidence \in Evidence
  BY TransitionEffect
<1>2. Shown' = [Shown EXCEPT ![h] =
                  [state    |-> q.next,
                   assigned |-> IF q.assigned = NoOne THEN row[h].assigned ELSE q.assigned,
                   evidence |-> IF q.evidence = NoEvidence THEN row[h].evidence ELSE q.evidence]]
  BY <1>1 DEF Shown, Updated, IInv, TypeOK
<1>3. Shown[h] = [state |-> row[h].state, assigned |-> row[h].assigned,
                  evidence |-> row[h].evidence]
  BY <1>1 DEF Shown
<1>4. CASE q.next = "assigned"
  <2>1. q.assigned \in People \cup {NoOne} /\ row[h].state \in {"open", "assigned", "rejected"}
    BY <1>1, <1>4 DEF Request, Assignee, CanTransition
  <2>2. Life!Assign(h, q.assigned)
    BY <1>1, <1>2, <1>3, <1>4, <2>1 DEF Life!Assign, Shown
  <2> QED BY <1>1, <2>1, <2>2 DEF Life!Next
<1>5. CASE q.next = "rectified"
  <2>1. row[h].state \in {"assigned", "rectified"} /\ row[h].assigned \in {q.assigned, NoOne}
    BY <1>1, <1>5 DEF CanTransition, MayRectify
  <2>2. Life!Rectify(h, q.assigned, q.evidence)
    BY <1>1, <1>2, <1>3, <1>5, <2>1 DEF Life!Rectify, Shown
  <2> QED BY <1>1, <1>5, <2>2 DEF Life!Next
<1>6. CASE q.next = "verified"
  <2>1. row[h].state \in {"rectified", "verified"}
    BY <1>1, <1>6 DEF CanTransition
  <2>2. Life!Verify(h, q.evidence)
    BY <1>1, <1>2, <1>3, <1>6, <2>1 DEF Life!Verify, Shown
  <2> QED BY <1>1, <1>6, <2>2 DEF Life!Next
<1> QED BY <1>1, <1>4, <1>5, <1>6 DEF Request

(* Seen through its rows, the service is the atomic life cycle: every step   *)
(* of every interleaving is one abstract operation or none.                  *)
THEOREM ServiceIsAtomic == Spec => ActsAtomically
<1>1. ASSUME IInv, [Next]_vars
      PROVE  Life!Next \/ Shown' = Shown
  <2>1. ASSUME NEW u \in Accounts, NEW h \in Hazards, NEW s \in Stations, NEW a \in Assignee,
               NEW e \in EvidenceText, ReportHazard(u, h, s, a, e)
        PROVE  Life!Next
    <3>1. Life!Report(h, a, e)
      BY <1>1, <2>1, ReportIsLifeStep
    <3> QED BY <2>1, <3>1 DEF Life!Next, Assignee, EvidenceText
  <2>2. ASSUME NEW w \in Workers, TransitionHazard(w)
        PROVE  Life!Next
    BY <1>1, <2>2, TransitionIsLifeStep
  <2>3. row' = row => Shown' = Shown
    BY DEF Shown
  <2> QED BY <1>1, <2>1, <2>2, <2>3, RowSteps
<1>2. IInv /\ [Next]_vars => [Life!Next]_Shown
  BY <1>1
<1>3. QED BY <1>2, ShownInit, Invariance, PTL DEF Spec, ActsAtomically, Life!Spec, Shown
==============================================================================
