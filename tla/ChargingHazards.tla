--------------------------- MODULE ChargingHazards ---------------------------
(***************************************************************************)
(* The charging service over its SQLite repository.  A request reads a     *)
(* hazard, decides on the copy it read, and later issues one UPDATE that   *)
(* is guarded by the version it read.  Other requests run in between.      *)
(* The store has one connection, so every statement is indivisible.        *)
(***************************************************************************)
EXTENDS Naturals

CONSTANTS
  Stations,     (* station identifiers                                     *)
  Hazards,      (* hazard identifiers                                      *)
  Accounts,     (* user ids a session can carry                            *)
  Role,         (* the role each account logs in with                      *)
  People,       (* every id a client may name as the responsible person    *)
  NoOne,        (* the empty assigned_to column                            *)
  Evidence,     (* non-empty evidence texts                                *)
  NoEvidence,   (* the empty evidence column                               *)
  Idle,         (* marks a worker with no request                          *)
  Workers,      (* HTTP requests that can be in flight together            *)
  MaxVersion    (* bound on the updates of one hazard                      *)

Roles == {"prosecutor", "regulator", "operator", "inspector"}

Operators == {u \in Accounts : Role[u] = "operator"}

ASSUME RoleAssumption     == Role \in [Accounts -> Roles]
ASSUME PeopleAssumption   == Operators \subseteq People /\ NoOne \notin People
ASSUME EvidenceAssumption == NoEvidence \notin Evidence
ASSUME VersionAssumption  == MaxVersion \in Nat \ {0}

VARIABLES
  stations,     (* rows of charging_stations                               *)
  row,          (* rows of charging_hazards, NoRow when there is none      *)
  req           (* per worker, the request between its read and its UPDATE *)

vars == <<stations, row, req>>

HazardStates == {"open", "assigned", "rectified", "verified", "rejected"}
Assignee     == People \cup {NoOne}
EvidenceText == Evidence \cup {NoEvidence}

NoRow == [state |-> "absent", assigned |-> NoOne, evidence |-> NoEvidence, version |-> 0]
Row   == [state : HazardStates, assigned : Assignee, evidence : EvidenceText,
          version : 1 .. MaxVersion]

(* A request that has read a hazard: the copy, the next state, and the       *)
(* values of the two columns it may overwrite.                               *)
Request == [hazard : Hazards, read : Row, next : {"assigned", "rectified", "verified"},
            assigned : Assignee, evidence : EvidenceText]

TypeOK ==
  /\ stations \subseteq Stations
  /\ row \in [Hazards -> Row \cup {NoRow}]
  /\ req \in [Workers -> Request \cup {Idle}]

Init ==
  /\ stations = {}
  /\ row = [h \in Hazards |-> NoRow]
  /\ req = [w \in Workers |-> Idle]

-----------------------------------------------------------------------------
(* Helpers *)

\* Mutant: closing no longer waits for the rectification.
CanTransition_SkipsRectify(from, to) ==
  from = to \/ <<from, to>> \in {<<"open", "assigned">>, <<"assigned", "rectified">>,
                                <<"assigned", "verified">>, <<"rectified", "verified">>}

CanTransition(from, to) ==
  \/ from = to
  \/ from = "open" /\ to = "assigned"
  \/ from = "assigned" /\ to = "rectified"
  \/ from = "rectified" /\ to \in {"verified", "rejected"}
  \/ from = "rejected" /\ to = "assigned"

MayRectify(u, r) == r.assigned \in {u, NoOne}

\* Mutant: the version of a new row is left at its zero value.
NewRow_NoVersion(a, e) == [state |-> "open", assigned |-> a, evidence |-> e, version |-> 0]

(* The row ReportHazard inserts: state and version are the service's, the    *)
(* assignee and the evidence are whatever the client put in the body.        *)
NewRow(a, e) == [state |-> "open", assigned |-> a, evidence |-> e, version |-> 1]

\* Mutant: the UPDATE forgets version = version + 1.
Updated_NoBump(r, q) ==
  [r EXCEPT !.state = q.next,
            !.assigned = IF q.assigned = NoOne THEN @ ELSE q.assigned,
            !.evidence = IF q.evidence = NoEvidence THEN @ ELSE q.evidence]

\* Mutant: the UPDATE keeps an evidence column that is already there, even empty.
Updated_KeepsEvidence(r, q) ==
  [r EXCEPT !.state = q.next, !.version = @ + 1,
            !.assigned = IF q.assigned = NoOne THEN @ ELSE q.assigned]

(* SET state, assigned_to, evidence, version of the UPDATE: an empty argument *)
(* keeps the column.                                                          *)
Updated(r, q) ==
  [state    |-> q.next,
   assigned |-> IF q.assigned = NoOne THEN r.assigned ELSE q.assigned,
   evidence |-> IF q.evidence = NoEvidence THEN r.evidence ELSE q.evidence,
   version  |-> r.version + 1]

\* Mutant: WHERE id = ? only.
VersionMatches_IdOnly(r, q) == r.version >= q.read.version

(* WHERE id = ? AND version = ? *)
VersionMatches(r, q) == r.version = q.read.version

(* A request reads h, finds the move legal and goes on to its UPDATE. *)
Issue(w, h, next, a, e) ==
  /\ req[w] = Idle
  /\ row[h] # NoRow
  /\ CanTransition(row[h].state, next)
  /\ req' = [req EXCEPT ![w] = [hazard |-> h, read |-> row[h], next |-> next,
                                assigned |-> a, evidence |-> e]]
  /\ UNCHANGED <<stations, row>>

-----------------------------------------------------------------------------
(* Operations *)

CreateStation(u, s) ==
  /\ Role[u] \in {"regulator", "prosecutor"}
  /\ stations' = stations \cup {s}
  /\ s \notin stations
  /\ UNCHANGED <<row, req>>

(* The station is looked up before the INSERT; stations are never removed,   *)
(* so the two statements act as one.  A second INSERT of an id fails.        *)
ReportHazard(u, h, s, a, e) ==
  /\ Role[u] \in {"inspector", "prosecutor"}
  /\ s \in stations
  /\ row[h] = NoRow
  /\ row' = [row EXCEPT ![h] = NewRow(a, e)]
  /\ UNCHANGED <<stations, req>>

(* The operator id is not validated and may be empty. *)
AssignHazard(w, u, h, a) ==
  /\ Role[u] \in {"regulator", "prosecutor"}
  /\ Issue(w, h, "assigned", a, NoEvidence)

RectifyHazard(w, u, h, e) ==
  /\ u \in Operators
  /\ MayRectify(u, row[h])
  /\ Issue(w, h, "rectified", u, e)

VerifyHazard(w, u, h, e) ==
  /\ Role[u] \in {"inspector", "regulator"}
  /\ Issue(w, h, "verified", NoOne, e)

(* The UPDATE finds the version it read. *)
TransitionHazard(w) ==
  /\ req[w] # Idle
  /\ VersionMatches(row[req[w].hazard], req[w])
  /\ row[req[w].hazard].version < MaxVersion
  /\ row' = [row EXCEPT ![req[w].hazard] = Updated(@, req[w])]
  /\ req' = [req EXCEPT ![w] = Idle]
  /\ UNCHANGED stations

(* The UPDATE touches no row: ErrConflict, and nothing is retried. *)
Conflict(w) ==
  /\ req[w] # Idle
  /\ ~VersionMatches(row[req[w].hazard], req[w])
  /\ req' = [req EXCEPT ![w] = Idle]
  /\ UNCHANGED <<stations, row>>

(* The client's context is cancelled before the UPDATE. *)
Abandon(w) ==
  /\ req[w] # Idle
  /\ req' = [req EXCEPT ![w] = Idle]
  /\ UNCHANGED <<stations, row>>

(* The process stops and starts: rows survive, requests do not. *)
Restart ==
  /\ req' = [w \in Workers |-> Idle]
  /\ UNCHANGED <<stations, row>>

Next ==
  \/ \E u \in Accounts, s \in Stations : CreateStation(u, s)
  \/ \E u \in Accounts, h \in Hazards, s \in Stations, a \in Assignee, e \in EvidenceText :
       ReportHazard(u, h, s, a, e)
  \/ \E w \in Workers, u \in Accounts, h \in Hazards :
       \/ \E a \in Assignee : AssignHazard(w, u, h, a)
       \/ \E e \in Evidence : RectifyHazard(w, u, h, e) \/ VerifyHazard(w, u, h, e)
  \/ \E w \in Workers : TransitionHazard(w) \/ Conflict(w) \/ Abandon(w)
  \/ Restart

Spec == Init /\ [][Next]_vars

-----------------------------------------------------------------------------
(* Properties *)

(* A request whose copy still has the version of the row has the row itself:  *)
(* the version check of TransitionHazard is as strong as comparing the row.   *)
(* It also keeps every row, and every copy, from running ahead of the row.    *)
SnapshotsAreCurrentOrOlder ==
  \A w \in Workers : req[w] # Idle =>
    LET q == req[w]  r == row[q.hazard]
    IN /\ q.read.version <= r.version
       /\ VersionMatches(r, q) => q.read = r

(* What a request decided on its copy: the checks its operation made. *)
RequestsAreDecided ==
  \A w \in Workers : req[w] # Idle =>
    LET q == req[w]
    IN /\ CanTransition(q.read.state, q.next)
       /\ q.next = "assigned" => q.evidence = NoEvidence
       /\ q.next = "rectified" => /\ q.assigned \in Operators
                                  /\ q.evidence \in Evidence
                                  /\ MayRectify(q.assigned, q.read)
       /\ q.next = "verified" => q.assigned = NoOne /\ q.evidence \in Evidence

(* A hazard that counts as rectified or closed carries evidence, although the *)
(* UPDATE keeps the old column when its argument is empty.                     *)
ClosedWithEvidence ==
  \A h \in Hazards : row[h].state \in {"rectified", "verified"} => row[h].evidence # NoEvidence

(* README "open -> assigned -> rectified -> verified": a closed hazard is     *)
(* never reopened, not even by a rectification that read it before it closed. *)
ClosedIsFinal ==
  [][\A h \in Hazards : row[h].state = "verified" => row'[h].state = "verified"]_vars

(* A rectification lands only on a hazard that, at the moment of the write,   *)
(* is assigned to the operator or to no one: a reassignment between the check *)
(* and the write defeats it.                                                  *)
OnlyAssigneeRectifies ==
  [][\A h \in Hazards :
       row'[h] # row[h] /\ row'[h].state = "rectified"
         => row[h].assigned \in {row'[h].assigned, NoOne}]_vars

(* Read, check and guarded UPDATE together behave as one indivisible step.    *)
Life == INSTANCE HazardLifecycle
          WITH hazard <- [h \in Hazards |-> [state    |-> row[h].state,
                                             assigned |-> row[h].assigned,
                                             evidence |-> row[h].evidence]]
ActsAtomically == Life!Spec
==============================================================================
