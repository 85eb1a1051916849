--------------------------- MODULE BackgroundProofs ---------------------------
(***************************************************************************)
(* Proofs about the work in the background: Scheduler for any set of       *)
(* tasks, retries and rows, and Overdue, whose monitor is one of the       *)
(* tasks, for any mails, routes, ceilings and pages.                       *)
(*                                                                         *)
(* Scheduler: Stop does not wait for goroutines that Start has not counted *)
(* yet; what keeps them off the closed store is that a context derived     *)
(* from an ended one is ended (StoppedMeansCancelled), so that they find   *)
(* the test before their first attempt failing (StoppedTasksRest).         *)
(*                                                                         *)
(* Overdue: the report classifies a mail under the ceiling in force at     *)
(* that moment (PromisesAreKept), which the report has met (ReportIsSound),*)
(* and no time is later than the clock it is compared with                 *)
(* (DepartedBefore).                                                       *)
(***************************************************************************)
EXTENDS Scheduler, Overdue, FiniteSetTheorems, TLAPS

Working == {"running", "updating", "backoff", "recording"}

(* Stop leaves a scheduler alone only if Start has not run, and then the     *)
(* signal that led to Stop ends the context Start derives later.             *)
StoppedMeansCancelled ==
  /\ main = "serving" /\ starter # "none" => running
  /\ main # "serving" => signalled
  /\ main # "serving" /\ starter # "none" => cancelled

NoneBeforeStart == starter = "none" => \A t \in Tasks : At(t, "absent")

(* From the return of Stop on no task is inside its RunFunc. *)
StoppedTasksRest ==
  main \in {"stopped", "closed"} => \A t \in Tasks : task[t].pc \notin Working

(* A backoff has an attempt to follow it. *)
BackoffIsFollowed == \A t \in Tasks : At(t, "backoff") => task[t].attempt < MaxRetry

(* Nothing writes a status that ListPending would list. *)
NothingIsPending == listed = {} /\ \A i \in Ids : rows[i] # "retrying"

(* The inductive invariant. *)
IInv ==
  /\ TypeOK /\ StoppedMeansCancelled /\ NoneBeforeStart /\ StoppedTasksRest
  /\ BackoffIsFollowed /\ NothingIsPending

USE SchedulerAssumption

(* A task before Start. *)
LEMMA FreshTask == Fresh \in [pc : Places, attempt : 0 .. MaxRetry] /\ Fresh.pc = "absent"
  BY DEF Fresh, Places

(* A process that has not started anything satisfies the invariant. *)
LEMMA InitIInv == Init => IInv
<1> SUFFICES ASSUME Init PROVE IInv
  OBVIOUS
<1>1. TypeOK
  BY FreshTask DEF Init, TypeOK, Status
<1>2. \A t \in Tasks : task[t].pc = "absent"
  BY FreshTask DEF Init
<1> QED BY <1>1, <1>2 DEF Init, IInv, StoppedMeansCancelled, NoneBeforeStart, StoppedTasksRest,
              Working, BackoffIsFollowed, NothingIsPending, At

(* What a step of one task does to the invariant: it needs a context that    *)
(* has not ended to begin an attempt.                                        *)
LEMMA TaskMoves ==
  ASSUME IInv, NEW t \in Tasks, ~At(t, "absent"),
         NEW r \in [pc : Places \ {"absent"}, attempt : 0 .. MaxRetry],
         task' = [task EXCEPT ![t] = r],
         r.pc = "backoff" => r.attempt < MaxRetry,
         r.pc \in Working => (At(t, "check") /\ ~cancelled) \/ task[t].pc \in Working,
         UNCHANGED <<starter, running, signalled, cancelled, main, listed, rows, resolving>>
  PROVE  IInv'
<1>1. TypeOK'
  BY DEF IInv, TypeOK
<1>2. StoppedMeansCancelled' /\ NoneBeforeStart' /\ NothingIsPending'
  BY DEF IInv, StoppedMeansCancelled, NoneBeforeStart, NothingIsPending, At
<1>3. StoppedTasksRest'
  BY DEF IInv, TypeOK, StoppedTasksRest, StoppedMeansCancelled, NoneBeforeStart, At, Working
<1>4. BackoffIsFollowed'
  BY DEF IInv, TypeOK, BackoffIsFollowed, At
<1> QED BY <1>1, <1>2, <1>3, <1>4 DEF IInv

(* The steps of a task. *)
LEMMA TaskKeeps == ASSUME IInv, NEW t \in Tasks, TaskStep(t) PROVE IInv'
<1> DEFINE To(pc) == [task[t] EXCEPT !.pc = pc]
<1>1. task[t] \in [pc : Places, attempt : 0 .. MaxRetry]
  BY DEF IInv, TypeOK
<1>2. \A pc \in Places :
        To(pc) \in [pc : Places, attempt : 0 .. MaxRetry] /\ To(pc).pc = pc
          /\ To(pc).attempt = task[t].attempt
  BY <1>1
<1>3. \A pc \in Places : Go(t, pc) <=> task' = [task EXCEPT ![t] = To(pc)]
  BY DEF Go
<1>4. \A pc \in Places \ {"absent"} :
        To(pc) \in [pc : Places \ {"absent"}, attempt : 0 .. MaxRetry]
  BY <1>1, <1>2 DEF Places
<1> HIDE DEF To
<1>5. CASE TaskEnds(t)
  BY <1>2, <1>3, <1>4, <1>5, TaskMoves DEF TaskEnds, Leaves, At, Places, Working
<1>6. CASE Ticked(t)
  <2>1. [pc |-> "check", attempt |-> 0] \in [pc : Places \ {"absent"}, attempt : 0 .. MaxRetry]
    BY DEF Places
  <2> QED BY <1>6, <2>1, TaskMoves DEF Ticked, At, Working
<1>7. CASE Check(t)
  BY <1>2, <1>3, <1>4, <1>7, TaskMoves DEF Check, At, Places, Working
<1>8. CASE Returns(t)
  BY <1>1, <1>2, <1>3, <1>4, <1>8, TaskMoves DEF Returns, AfterFailure, At, Places, Working
<1>9. CASE ListPending(t)
  <2>1. UNCHANGED listed
    BY <1>9 DEF ListPending, IInv, NothingIsPending
  <2> QED BY <1>1, <1>2, <1>3, <1>4, <1>9, <2>1, TaskMoves
          DEF ListPending, AfterFailure, At, Places, Working
<1>10. CASE UpdateListed(t)
  <2>1. listed = {} /\ listed' = {}
    BY <1>10 DEF UpdateListed, IInv, NothingIsPending
  <2>2. rows' = [i \in Ids |-> rows[i]]
    BY <1>10, <2>1 DEF UpdateListed
  <2>3. UNCHANGED rows
    BY <2>2 DEF IInv, TypeOK
  <2> QED BY <1>2, <1>3, <1>4, <1>10, <2>1, <2>3, TaskMoves DEF UpdateListed, At, Places, Working
<1>11. CASE BackoffEnds(t)
  <2>1. CASE Go(t, "waiting")
    BY <1>2, <1>3, <1>4, <1>11, <2>1, TaskMoves DEF BackoffEnds, At, Places, Working
  <2>2. CASE task' = [task EXCEPT ![t] = [pc |-> "check", attempt |-> @.attempt + 1]]
    <3>1. task[t].attempt + 1 \in 0 .. MaxRetry
      BY <1>1, <1>11 DEF BackoffEnds, IInv, BackoffIsFollowed
    <3>2. [pc |-> "check", attempt |-> task[t].attempt + 1]
            \in [pc : Places \ {"absent"}, attempt : 0 .. MaxRetry]
      BY <3>1 DEF Places
    <3> QED BY <1>11, <2>2, <3>2, TaskMoves DEF BackoffEnds, At, Working
  <2> QED BY <1>11, <2>1, <2>2 DEF BackoffEnds
<1>12. CASE Record(t)
  <2>1. rows' \in [Ids -> Status] /\ \A i \in Ids : rows'[i] # "retrying"
    BY <1>12 DEF Record, RecordedStatus, IInv, TypeOK, NothingIsPending, Status
  <2>2. task' = [task EXCEPT ![t] = To("waiting")] /\ ~At(t, "absent")
    BY <1>3, <1>12 DEF Record, At, Places
  <2>3. TypeOK'
    BY <1>2, <1>12, <2>1, <2>2 DEF Record, IInv, TypeOK, Places
  <2>4. StoppedMeansCancelled' /\ NoneBeforeStart' /\ NothingIsPending'
    BY <1>12, <2>1, <2>2 DEF Record, IInv, StoppedMeansCancelled, NoneBeforeStart, NothingIsPending, At
  <2>5. StoppedTasksRest' /\ BackoffIsFollowed'
    BY <1>2, <1>12, <2>2 DEF Record, IInv, TypeOK, StoppedTasksRest, BackoffIsFollowed, At, Working, Places
  <2> QED BY <2>3, <2>4, <2>5 DEF IInv
<1> QED BY <1>5, <1>6, <1>7, <1>8, <1>9, <1>10, <1>11, <1>12 DEF TaskStep

(* Start, the signal, Stop and Shutdown. *)
LEMMA ProcessKeeps ==
  ASSUME IInv,
         \/ Start \/ Signal \/ Propagate \/ StopBegins \/ StopEnds \/ CloseStore \/ Restart
         \/ \E t \in Tasks : Spawn(t)
  PROVE  IInv'
<1>1. CASE Start
  BY <1>1 DEF Start, IInv, TypeOK, StoppedMeansCancelled, NoneBeforeStart, StoppedTasksRest,
              BackoffIsFollowed, NothingIsPending, At
<1>2. CASE Signal
  BY <1>2 DEF Signal, IInv, TypeOK, StoppedMeansCancelled, NoneBeforeStart, StoppedTasksRest,
              BackoffIsFollowed, NothingIsPending, At
<1>3. CASE Propagate
  BY <1>3 DEF Propagate, IInv, TypeOK, StoppedMeansCancelled, NoneBeforeStart, StoppedTasksRest,
              BackoffIsFollowed, NothingIsPending, At
<1>4. CASE StopBegins
  BY <1>4 DEF StopBegins, IInv, TypeOK, StoppedMeansCancelled, NoneBeforeStart, StoppedTasksRest,
              BackoffIsFollowed, NothingIsPending, At, Working
<1>5. CASE StopEnds
  <2>1. \A t \in Tasks : task[t].pc \notin Working
    BY <1>5 DEF StopEnds, WaitIsOver, Alive, Working
  <2> QED BY <1>5, <2>1 DEF StopEnds, IInv, TypeOK, StoppedMeansCancelled, NoneBeforeStart,
              StoppedTasksRest, BackoffIsFollowed, NothingIsPending, At
<1>6. CASE CloseStore
  BY <1>6 DEF CloseStore, IInv, TypeOK, StoppedMeansCancelled, NoneBeforeStart, StoppedTasksRest,
              BackoffIsFollowed, NothingIsPending, At
<1>7. CASE Restart
  <2>1. TypeOK'
    BY <1>7, FreshTask DEF Restart, IInv, TypeOK
  <2>2. \A t \in Tasks : task'[t].pc = "absent"
    BY <1>7, FreshTask DEF Restart
  <2> QED BY <1>7, <2>1, <2>2 DEF Restart, IInv, StoppedMeansCancelled, NoneBeforeStart,
              StoppedTasksRest, BackoffIsFollowed, NothingIsPending, At, Working
<1>8. ASSUME NEW t \in Tasks, Spawn(t) PROVE IInv'
  <2>1. task[t] \in [pc : Places, attempt : 0 .. MaxRetry]
    BY DEF IInv, TypeOK
  <2>2. task' = [task EXCEPT ![t] = [task[t] EXCEPT !.pc = "waiting"]]
    BY <1>8 DEF Spawn, Go
  <2>3. TypeOK'
    BY <1>8, <2>1, <2>2 DEF Spawn, IInv, TypeOK, Places
  <2>4. StoppedMeansCancelled' /\ NoneBeforeStart' /\ NothingIsPending'
    BY <1>8 DEF Spawn, IInv, StoppedMeansCancelled, NoneBeforeStart, NothingIsPending
  <2>5. StoppedTasksRest' /\ BackoffIsFollowed'
    BY <1>8, <2>1, <2>2 DEF Spawn, IInv, TypeOK, StoppedTasksRest, BackoffIsFollowed, At, Working
  <2> QED BY <2>3, <2>4, <2>5 DEF IInv
<1> QED BY <1>1, <1>2, <1>3, <1>4, <1>5, <1>6, <1>7, <1>8

(* The operator. *)
LEMMA OperatorKeeps ==
  ASSUME IInv, NEW i \in Ids, GetFailure(i) \/ ResolveFailure(i) PROVE IInv'
<1>1. rows' \in [Ids -> Status] /\ resolving' \subseteq Ids /\ \A j \in Ids : rows'[j] # "retrying"
  BY DEF GetFailure, ResolveFailure, IInv, TypeOK, NothingIsPending, Status
<1> QED BY <1>1 DEF GetFailure, ResolveFailure, IInv, TypeOK, StoppedMeansCancelled, NoneBeforeStart,
              StoppedTasksRest, BackoffIsFollowed, NothingIsPending, At

(* The invariant is inductive. *)
LEMMA NextIInv == IInv /\ [Next]_vars => IInv'
<1> SUFFICES ASSUME IInv, [Next]_vars PROVE IInv'
  OBVIOUS
<1>1. CASE UNCHANGED vars
  BY <1>1 DEF vars, IInv, TypeOK, StoppedMeansCancelled, NoneBeforeStart, StoppedTasksRest,
              BackoffIsFollowed, NothingIsPending, At
<1>2. CASE Next
  BY <1>2, TaskKeeps, ProcessKeeps, OperatorKeeps DEF Next
<1> QED BY <1>1, <1>2

(* The inductive invariant holds in every reachable state. *)
THEOREM SchedulerInvariance == Spec => []IInv
  BY InitIInv, NextIInv, PTL DEF Spec

(* The flags, the places of the tasks and the rows keep their types; no task *)
(* makes more than MaxRetry retries.                                         *)
THEOREM SchedulerTypeCorrect == Spec => []TypeOK
<1>1. IInv => TypeOK
  BY DEF IInv
<1> QED BY <1>1, SchedulerInvariance, PTL

(* Shutdown closes the store under no attempt, backoff or record, wherever   *)
(* the signal met Start.                                                     *)
THEOREM StoreOutlivesTasks == Spec => []NoTaskOutlivesStore
<1>1. IInv => NoTaskOutlivesStore
  BY DEF IInv, StoppedTasksRest, NoTaskOutlivesStore, At, Working
<1> QED BY <1>1, SchedulerInvariance, PTL

(* No step but an operator's changes a recorded failure.                     *)
THEOREM FailuresKept == Spec => FailuresAreKept
<1> DEFINE Kept == \A i \in Ids : rows[i] # "none" => rows'[i] = rows[i] \/ rows'[i] = "resolved"
<1>1. IInv /\ [Next]_vars => [Kept]_vars
  <2> SUFFICES ASSUME IInv, Next, rows' # rows PROVE Kept
    BY DEF vars
  <2>1. rows \in [Ids -> Status] /\ listed = {}
    BY DEF IInv, TypeOK, NothingIsPending
  <2>2. ASSUME NEW i \in Ids, GetFailure(i) \/ ResolveFailure(i) PROVE Kept
    BY <2>1, <2>2 DEF GetFailure, ResolveFailure
  <2>3. ASSUME NEW t \in Tasks, Spawn(t) \/ TaskStep(t) PROVE Kept
    <3>1. CASE UpdateListed(t)
      <4>1. rows' = [i \in Ids |-> rows[i]]
        BY <2>1, <3>1 DEF UpdateListed
      <4> QED BY <4>1
    <3>2. CASE Record(t)
      BY <2>1, <3>2 DEF Record
    <3> QED BY <2>3, <3>1, <3>2 DEF Spawn, TaskStep, TaskEnds, Ticked, Check, Returns, ListPending,
                BackoffEnds
  <2>4. ~(Start \/ Signal \/ Propagate \/ StopBegins \/ StopEnds \/ CloseStore \/ Restart)
    BY DEF Start, Signal, Propagate, StopBegins, StopEnds, CloseStore, Restart
  <2> QED BY <2>2, <2>3, <2>4 DEF Next
<1>2. [][Kept]_vars => FailuresAreKept
  BY PTL DEF FailuresAreKept
<1> QED BY <1>1, <1>2, SchedulerInvariance, PTL DEF Spec

-----------------------------------------------------------------------------
(* Overdue *)

(* The ceiling a route was promised is the one that Classify would find.     *)
PromisesAreKept == \A r \in Routes : governs[r] = ActiveMax(r)

(* A mail's times are not in the future ...                                  *)
DepartedBefore == \A m \in Mails : mail[m].started = Never \/ mail[m].started <= now

(* ... and those of the copies not in that of the report, which has met the   *)
(* ceilings that are in force.                                               *)
ReportIsSound ==
  /\ report.left \subseteq DOMAIN report.copies
  /\ DOMAIN report.class \subseteq DOMAIN report.copies
  /\ \A m \in DOMAIN report.copies : report.copies[m] = Never \/ report.copies[m] <= report.at
  /\ report # NoReport => \A r \in Routes : governs[r] \in report.seen[r]

(* The inductive invariant of Overdue. *)
OverdueIInv ==
  /\ OverdueTypeOK /\ PromisesAreKept /\ DepartedBefore /\ ReportIsSound
  /\ ClassesWereInForce

(* Division rounds down. *)
LEMMA DivisionRoundsDown ==
  ASSUME NEW a \in Nat, NEW c \in Nat \ {0}
  PROVE  a \div c \in Nat /\ c * (a \div c) <= a /\ a < c * (a \div c) + c
  OBVIOUS

(* How many ceilings d hours are, begun ones counted whole. *)
LEMMA BegunCeilings ==
  ASSUME NEW d \in Nat, NEW c \in Nat \ {0}, NEW used, used = (d + c - 1) \div c
  PROVE  /\ used <= 1 <=> d <= c
         /\ used = 2 <=> d > c /\ d <= c * 2
<1>1. d + c - 1 \in Nat
  OBVIOUS
<1>2. used \in Nat /\ c * used <= d + c - 1 /\ d + c - 1 < c * used + c
  BY <1>1, DivisionRoundsDown
<1>3. CASE used = 0
  <2>1. c * used = 0
    BY <1>3
  <2>2. d <= c
    BY <1>2, <2>1
  <2> QED BY <1>3, <2>2
<1>4. CASE used = 1
  <2>1. c * used = c
    BY <1>4
  <2>2. d <= c
    BY <1>2, <2>1
  <2> QED BY <1>4, <2>2
<1>5. CASE used = 2
  <2>1. c * used = c * 2 /\ c * 2 = c + c
    BY <1>5
  <2>2. d > c /\ d <= c * 2
    BY <1>2, <2>1
  <2> QED BY <1>5, <2>2
<1>6. CASE used >= 3
  <2>1. \E k \in Nat : used = k + 3
    <3>1. used - 3 \in Nat /\ used = (used - 3) + 3
      BY <1>2, <1>6
    <3> QED BY <3>1
  <2>2. PICK k \in Nat : used = k + 3
    BY <2>1
  <2>3. c * used = c * k + (c + c + c) /\ c * k \in Nat
    BY <2>2
  <2>4. d > c * 2 /\ d > c
    BY <1>2, <2>3
  <2> QED BY <1>6, <2>4
<1> QED BY <1>2, <1>3, <1>4, <1>5, <1>6

(* Classify is the reference for the ceiling it finds. *)
LEMMA ClassifyIs ==
  ASSUME NEW m \in Mails, ActiveMax(RouteOf[m]) \in Nat, NEW at \in Nat,
         NEW started, started = Never \/ (started \in Nat /\ started <= at)
  PROVE  Classify(m, started, at) = ReferenceClass(started, at, ActiveMax(RouteOf[m]))
<1> DEFINE c == ActiveMax(RouteOf[m])
<1>0. /\ c \in Nat
      /\ Classify(m, started, at) =
           IF started = Never \/ c = 0 THEN "unknown_route"
           ELSE IF at - started <= c THEN "on_time"
           ELSE IF at - started <= c * 2 THEN "overdue" ELSE "critical"
  BY DEF Classify
<1> HIDE DEF c
<1>1. CASE started = Never \/ c = 0
  BY <1>0, <1>1 DEF ReferenceClass, c
<1>2. CASE started # Never /\ c # 0
  <2> DEFINE d == at - started
             used == (d + c - 1) \div c
  <2>1. d \in Nat /\ c \in Nat \ {0}
    BY <1>0, <1>2
  <2>2. ReferenceClass(started, at, c) =
          IF used <= 1 THEN "on_time" ELSE IF used = 2 THEN "overdue" ELSE "critical"
    BY <1>2 DEF ReferenceClass
  <2>3. Classify(m, started, at) =
          IF d <= c THEN "on_time" ELSE IF d <= c * 2 THEN "overdue" ELSE "critical"
    BY <1>0, <1>2
  <2>4. used = (d + c - 1) \div c
    OBVIOUS
  <2> HIDE DEF d, used
  <2>5. /\ used <= 1 <=> d <= c
        /\ used = 2 <=> d > c /\ d <= c * 2
    BY <2>1, <2>4, BegunCeilings
  <2>6. d > c <=> ~(d <= c)
    BY <2>1
  <2>7. Classify(m, started, at) = ReferenceClass(started, at, c)
    BY <2>2, <2>3, <2>5, <2>6
  <2> QED BY <2>7 DEF c
<1> QED BY <1>1, <1>2

(* What the constants are. *)
LEMMA OverdueConstants ==
  /\ IsFiniteSet(Mails) /\ \A m \in Mails : RouteOf[m] \in Routes
  /\ Ceilings \subseteq Nat /\ Default \in Nat /\ MaxTime \in Nat
  /\ Page \in Nat /\ ReportPage \in Nat
  BY OverdueAssumption

(* The parts of the type, and the times as numbers. *)
LEMMA OverdueTypes ==
  ASSUME OverdueTypeOK
  PROVE  /\ now \in 0 .. MaxTime /\ rules \in [Routes -> Rule \cup {NoRule}]
         /\ governs \in [Routes -> Ceilings \cup {Default}] /\ mail \in [Mails -> Mail]
         /\ detected \subseteq Mails /\ monitor \subseteq Mails /\ report \in Report
         /\ Cardinality(DOMAIN report.copies) <= ReportPage /\ Cardinality(monitor) <= Page
         /\ \A r \in Routes : governs[r] \in Nat
         /\ MaxTime \in Nat
<1>1. Ceilings \cup {Default} \subseteq Nat /\ MaxTime \in Nat
  BY OverdueConstants
<1>2. \A r \in Routes : governs[r] \in Nat
  BY <1>1 DEF OverdueTypeOK
<1> QED BY <1>1, <1>2 DEF OverdueTypeOK

(* The type says what it says of a mail. *)
LEMMA MailFields ==
  ASSUME OverdueTypeOK, NEW m \in Mails
  PROVE  /\ mail[m] \in Mail /\ mail[m].started \in (0 .. MaxTime) \cup {Never}
         /\ mail[m].registered \in 0 .. MaxTime
<1>1. mail[m] \in Mail
  BY OverdueTypes
<1> QED BY <1>1 DEF Mail

(* A function on some of the mails. *)
Partial(X) == UNION {[S -> X] : S \in SUBSET Mails}

(* It is one on its domain. *)
LEMMA PartialIs ==
  ASSUME NEW X, NEW f
  PROVE  f \in Partial(X) <=> DOMAIN f \subseteq Mails /\ f \in [DOMAIN f -> X]
  BY DEF Partial

(* A report by its fields. *)
LEMMA ReportParts ==
  Report = [copies : Partial((0 .. MaxTime) \cup {Never}), left : SUBSET Mails, at : 0 .. MaxTime,
              class : Partial(Class), seen : [Routes -> SUBSET (Ceilings \cup {Default})]]
  BY DEF Report, Partial

(* What the fields are. *)
LEMMA ReportFields ==
  ASSUME NEW x \in Report
  PROVE  /\ x.copies \in Partial((0 .. MaxTime) \cup {Never}) /\ x.left \in SUBSET Mails
         /\ x.at \in 0 .. MaxTime /\ x.class \in Partial(Class)
         /\ x.seen \in [Routes -> SUBSET (Ceilings \cup {Default})]
<1> DEFINE A == Partial((0 .. MaxTime) \cup {Never})
           B == SUBSET Mails
           T == 0 .. MaxTime
           C == Partial(Class)
           D == [Routes -> SUBSET (Ceilings \cup {Default})]
<1>1. Report = [copies : A, left : B, at : T, class : C, seen : D]
  BY ReportParts
<1> HIDE DEF A, B, T, C, D
<1>2. x.copies \in A /\ x.left \in B /\ x.at \in T /\ x.class \in C /\ x.seen \in D
  BY <1>1
<1> QED BY <1>2 DEF A, B, T, C, D

(* What a report is when it has met another ceiling. *)
LEMMA ReportMeets ==
  ASSUME NEW x \in Report, NEW s \in [Routes -> SUBSET (Ceilings \cup {Default})],
         NEW y, y = [x EXCEPT !.seen = s]
  PROVE  /\ y \in Report
         /\ y.copies = x.copies /\ y.left = x.left /\ y.at = x.at /\ y.class = x.class /\ y.seen = s
<1> DEFINE A == Partial((0 .. MaxTime) \cup {Never})
           B == SUBSET Mails
           T == 0 .. MaxTime
           C == Partial(Class)
           D == [Routes -> SUBSET (Ceilings \cup {Default})]
<1>1. Report = [copies : A, left : B, at : T, class : C, seen : D] /\ s \in D
  BY ReportParts
<1> HIDE DEF A, B, T, C, D
<1> QED BY <1>1

(* There is nothing in a report that is not there. *)
LEMMA NoReportIs ==
  /\ NoReport \in Report
  /\ NoReport.left = {} /\ NoReport.class = NoMails /\ NoReport.copies = NoMails
  /\ \A r \in Routes : NoReport.seen[r] = {}
  /\ DOMAIN NoMails = {} /\ Cardinality(DOMAIN NoMails) = 0
<1>1. DOMAIN NoMails = {} /\ \A X : NoMails \in Partial(X)
  <2>1. DOMAIN NoMails = {}
    BY DEF NoMails
  <2>2. \A X : NoMails \in [DOMAIN NoMails -> X]
    BY DEF NoMails
  <2> QED BY <2>1, <2>2, PartialIs
<1>2. 0 \in 0 .. MaxTime
  BY OverdueConstants
<1>3. [r \in Routes |-> {}] \in [Routes -> SUBSET (Ceilings \cup {Default})]
  OBVIOUS
<1>4. NoReport \in [copies : Partial((0 .. MaxTime) \cup {Never}), left : SUBSET Mails, at : 0 .. MaxTime,
                      class : Partial(Class), seen : [Routes -> SUBSET (Ceilings \cup {Default})]]
  BY <1>1, <1>2, <1>3 DEF NoReport
<1>5. NoReport \in Report
  BY <1>4 DEF Report, Partial
<1>6. Cardinality(DOMAIN NoMails) = 0
  BY <1>1, FS_EmptySet
<1>7. /\ NoReport.left = {} /\ NoReport.class = NoMails /\ NoReport.copies = NoMails
      /\ NoReport.seen = [r \in Routes |-> {}]
  BY DEF NoReport
<1> QED BY <1>1, <1>5, <1>6, <1>7

(* A step that leaves the report leaves its classes as they are. *)
LEMMA ReportStays ==
  ASSUME OverdueIInv, report' = report, \A r \in Routes : governs'[r] = governs[r]
  PROVE  ReportIsSound' /\ ClassesWereInForce'
<1>1. ReportIsSound'
  BY DEF OverdueIInv, ReportIsSound
<1>2. ClassesWereInForce'
  BY DEF OverdueIInv, ClassesWereInForce
<1> QED BY <1>1, <1>2

(* A rule enters the table: the report at work meets its ceiling. *)
LEMMA SetRuleKeeps ==
  ASSUME OverdueIInv, NEW r \in Routes, NEW rule \in Rule,
         NEW ceiling \in Ceilings \cup {Default},
         ceiling = (IF rule.state = "active" THEN rule.max ELSE Default),
         rule # NoRule,
         SetRule(r, rule, ceiling)
  PROVE  OverdueIInv'
<1>1. /\ rules' = [rules EXCEPT ![r] = rule] /\ governs' = [governs EXCEPT ![r] = ceiling]
      /\ report' = IF report = NoReport THEN report
                   ELSE [report EXCEPT !.seen[r] = report.seen[r] \cup {ceiling}]
      /\ UNCHANGED <<now, mail, detected, monitor>>
  BY DEF SetRule
<1>2. /\ OverdueTypeOK /\ PromisesAreKept /\ DepartedBefore /\ ReportIsSound /\ ClassesWereInForce
  BY DEF OverdueIInv
<1>3. /\ rules' \in [Routes -> Rule \cup {NoRule}] /\ governs' \in [Routes -> Ceilings \cup {Default}]
      /\ rules'[r] = rule /\ governs'[r] = ceiling
      /\ \A q \in Routes : q # r => rules'[q] = rules[q] /\ governs'[q] = governs[q]
  BY <1>1, <1>2, OverdueTypes
<1>4. PromisesAreKept'
  BY <1>2, <1>3 DEF PromisesAreKept, ActiveMax
<1>5. DepartedBefore'
  BY <1>1, <1>2 DEF DepartedBefore
<1>6. /\ report' \in Report /\ report'.copies = report.copies /\ report'.left = report.left
      /\ report'.at = report.at /\ report'.class = report.class
      /\ \A q \in Routes : report.seen[q] \subseteq report'.seen[q]
      /\ report' # NoReport => report # NoReport /\ ceiling \in report'.seen[r]
  <2>1. CASE report = NoReport
    BY <1>1, <1>2, <2>1, OverdueTypes
  <2>2. CASE report # NoReport
    <3> DEFINE s == [report.seen EXCEPT ![r] = report.seen[r] \cup {ceiling}]
    <3>1. report \in Report /\ report.seen \in [Routes -> SUBSET (Ceilings \cup {Default})]
      BY <1>2, OverdueTypes, ReportFields
    <3>2. s \in [Routes -> SUBSET (Ceilings \cup {Default})]
      BY <3>1
    <3>3. ceiling \in s[r] /\ \A q \in Routes : report.seen[q] \subseteq s[q]
      BY <3>1
    <3>4. report' = [report EXCEPT !.seen = s]
      BY <1>1, <2>2
    <3> HIDE DEF s
    <3>5. /\ report' \in Report /\ report'.copies = report.copies /\ report'.left = report.left
          /\ report'.at = report.at /\ report'.class = report.class /\ report'.seen = s
      BY <3>1, <3>2, <3>4, ReportMeets
    <3> QED BY <2>2, <3>3, <3>5
  <2> QED BY <2>1, <2>2
<1>7. OverdueTypeOK'
  BY <1>1, <1>2, <1>3, <1>6, OverdueTypes DEF OverdueTypeOK
<1>8. ReportIsSound'
  BY <1>2, <1>3, <1>6 DEF ReportIsSound
<1>9. ClassesWereInForce'
  <2> SUFFICES ASSUME NEW m \in DOMAIN report.class
               PROVE  \E c \in report'.seen[RouteOf[m]] :
                        report.class[m] = ReferenceClass(report.copies[m], report.at, c)
    BY <1>6 DEF ClassesWereInForce
  <2>1. m \in Mails
    BY <1>2, OverdueTypes, ReportFields, PartialIs
  <2>2. RouteOf[m] \in Routes
    BY <2>1, OverdueConstants
  <2> QED BY <1>2, <1>6, <2>2 DEF ClassesWereInForce
<1> QED BY <1>4, <1>5, <1>7, <1>8, <1>9 DEF OverdueIInv

(* The invariant holds at the start: no route has a rule, nothing moves. *)
LEMMA OverdueStarts ==
  ASSUME OverdueInit
  PROVE  OverdueIInv
<1>1. /\ now = 0 /\ rules = [r \in Routes |-> NoRule] /\ governs = [r \in Routes |-> Default]
      /\ mail = [m \in Mails |-> Out("absent")] /\ detected = {} /\ monitor = {}
      /\ report = NoReport
  BY DEF OverdueInit
<1>2. /\ report \in Report /\ report.left = {} /\ DOMAIN report.class = {}
      /\ DOMAIN report.copies = {} /\ Cardinality(DOMAIN report.copies) = 0
  BY <1>1, NoReportIs
<1>3. 0 \in 0 .. MaxTime /\ ReportPage \in Nat /\ Page \in Nat
  BY OverdueConstants
<1>4. Out("absent") \in Mail /\ Out("absent").started = Never
  BY <1>3 DEF Out, Mail
<1>5. Cardinality(monitor) = 0
  BY <1>1, FS_EmptySet
<1>6. Cardinality(DOMAIN report.copies) <= ReportPage /\ Cardinality(monitor) <= Page
  BY <1>2, <1>3, <1>5
<1>7. OverdueTypeOK
  <2>1. now \in 0 .. MaxTime /\ detected \subseteq Mails /\ monitor \subseteq Mails
    BY <1>1, <1>3
  <2>2. rules \in [Routes -> Rule \cup {NoRule}] /\ governs \in [Routes -> Ceilings \cup {Default}]
    BY <1>1
  <2>3. mail \in [Mails -> Mail]
    BY <1>1, <1>4
  <2> QED BY <1>2, <1>6, <2>1, <2>2, <2>3 DEF OverdueTypeOK
<1>8. PromisesAreKept
  BY <1>1 DEF PromisesAreKept, ActiveMax
<1>9. DepartedBefore
  BY <1>1, <1>4 DEF DepartedBefore
<1>10. ReportIsSound
  BY <1>1, <1>2 DEF ReportIsSound
<1>11. ClassesWereInForce
  BY <1>2 DEF ClassesWereInForce
<1> QED BY <1>7, <1>8, <1>9, <1>10, <1>11 DEF OverdueIInv

(* Add, Activate and Deprecate promise what the table then says. *)
LEMMA RulesKeep ==
  ASSUME OverdueIInv, NEW r \in Routes,
         Activate(r) \/ Deprecate(r) \/ \E max \in Ceilings : Add(r, max)
  PROVE  OverdueIInv'
<1>1. NoRule \notin Rule
  BY NoRuleAssumption
<1>2. rules[r] \in Rule \cup {NoRule}
  BY OverdueTypes DEF OverdueIInv
<1>3. CASE Activate(r)
  <2>1. rules[r] # NoRule /\ SetRule(r, [rules[r] EXCEPT !.state = "active"], rules[r].max)
    BY <1>3 DEF Activate
  <2> DEFINE rule == [rules[r] EXCEPT !.state = "active"]
  <2>2. rule \in Rule /\ rule.state = "active" /\ rule.max = rules[r].max /\ rules[r].max \in Ceilings
    BY <1>2, <2>1 DEF Rule
  <2>3. rules[r].max = (IF rule.state = "active" THEN rule.max ELSE Default) /\ rule # NoRule
    BY <1>1, <2>2
  <2>4. SetRule(r, rule, rules[r].max)
    BY <2>1
  <2> HIDE DEF rule
  <2> QED BY <2>2, <2>3, <2>4, SetRuleKeeps
<1>4. CASE Deprecate(r)
  <2>1. rules[r] # NoRule /\ SetRule(r, [rules[r] EXCEPT !.state = "deprecated"], Default)
    BY <1>4 DEF Deprecate
  <2> DEFINE rule == [rules[r] EXCEPT !.state = "deprecated"]
  <2>2. rule \in Rule /\ rule.state = "deprecated"
    BY <1>2, <2>1 DEF Rule
  <2>3. Default = (IF rule.state = "active" THEN rule.max ELSE Default) /\ rule # NoRule
    BY <1>1, <2>2
  <2>4. SetRule(r, rule, Default) /\ Default \in Ceilings \cup {Default}
    BY <2>1
  <2> HIDE DEF rule
  <2> QED BY <2>2, <2>3, <2>4, SetRuleKeeps
<1>5. ASSUME NEW max \in Ceilings, Add(r, max)
      PROVE  OverdueIInv'
  <2> DEFINE rule == [max |-> max, state |-> "draft"]
  <2>1. rule \in Rule /\ rule.state = "draft"
    BY DEF Rule
  <2>2. Default = (IF rule.state = "active" THEN rule.max ELSE Default) /\ rule # NoRule
    BY <1>1, <2>1
  <2>3. SetRule(r, rule, Default) /\ Default \in Ceilings \cup {Default}
    BY <1>5 DEF Add
  <2> HIDE DEF rule
  <2> QED BY <2>1, <2>2, <2>3, SetRuleKeeps
<1> QED BY <1>3, <1>4, <1>5

(* A mail's row changes, and its start is now or unknown. *)
LEMMA MailMoves ==
  ASSUME OverdueIInv, NEW m \in Mails, NEW row \in Mail,
         row.started = Never \/ row.started = now,
         mail' = [mail EXCEPT ![m] = row],
         UNCHANGED <<now, rules, governs, detected, monitor, report>>
  PROVE  OverdueIInv'
<1>1. /\ OverdueTypeOK /\ PromisesAreKept /\ DepartedBefore /\ ReportIsSound
  BY DEF OverdueIInv
<1>2. mail \in [Mails -> Mail] /\ now \in Nat
  BY <1>1, OverdueTypes
<1>3. /\ mail' \in [Mails -> Mail] /\ mail'[m] = row
      /\ \A n \in Mails : n # m => mail'[n] = mail[n]
  BY <1>2
<1>4. OverdueTypeOK'
  BY <1>1, <1>3 DEF OverdueTypeOK
<1>5. PromisesAreKept'
  BY <1>1 DEF PromisesAreKept, ActiveMax
<1>6. DepartedBefore'
  BY <1>1, <1>2, <1>3 DEF DepartedBefore
<1>7. ReportIsSound' /\ ClassesWereInForce'
  BY ReportStays
<1> QED BY <1>4, <1>5, <1>6, <1>7 DEF OverdueIInv

(* Registration, departure and the end of the way. *)
LEMMA MailsKeep ==
  ASSUME OverdueIInv, NEW m \in Mails,
         Register(m) \/ Depart(m) \/ Leave(m)
  PROVE  OverdueIInv'
<1>1. now \in 0 .. MaxTime /\ MaxTime \in Nat /\ mail[m] \in Mail /\ 0 \in 0 .. MaxTime
  <2>1. OverdueTypeOK
    BY DEF OverdueIInv
  <2>2. now \in 0 .. MaxTime /\ MaxTime \in Nat /\ mail[m] \in Mail
    BY <2>1, OverdueTypes, MailFields
  <2> QED BY <2>2
<1>2. CASE Register(m)
  <2>1. PICK row : row = [state |-> "registered", registered |-> now, started |-> Never]
    OBVIOUS
  <2>2. row \in Mail /\ row.started = Never
    BY <1>1, <2>1 DEF Mail
  <2>3. mail' = [mail EXCEPT ![m] = row] /\ UNCHANGED <<now, rules, governs, detected, monitor, report>>
    BY <1>2, <2>1 DEF Register
  <2> QED BY <2>2, <2>3, MailMoves
<1>3. CASE Depart(m)
  <2>1. PICK started \in {now, Never} :
          mail' = [mail EXCEPT ![m] = [mail[m] EXCEPT !.state = "in_transit", !.started = started]]
    BY <1>3 DEF Depart
  <2>2. PICK row : row = [mail[m] EXCEPT !.state = "in_transit", !.started = started]
    OBVIOUS
  <2>3. row \in Mail /\ row.started = started
    BY <1>1, <2>1, <2>2 DEF Mail
  <2>4. mail' = [mail EXCEPT ![m] = row] /\ UNCHANGED <<now, rules, governs, detected, monitor, report>>
    BY <1>3, <2>1, <2>2 DEF Depart
  <2>5. row.started = Never \/ row.started = now
    BY <2>1, <2>3
  <2> QED BY <2>3, <2>4, <2>5, MailMoves
<1>4. CASE Leave(m)
  <2>1. PICK row : row = Out("gone")
    OBVIOUS
  <2>2. row \in Mail /\ row.started = Never
    BY <1>1, <2>1 DEF Mail, Out
  <2>3. mail' = [mail EXCEPT ![m] = row] /\ UNCHANGED <<now, rules, governs, detected, monitor, report>>
    BY <1>4, <2>1 DEF Leave
  <2> QED BY <2>2, <2>3, MailMoves
<1> QED BY <1>2, <1>3, <1>4

(* What started before now started before any later moment. *)
LEMMA TickKeeps ==
  ASSUME OverdueIInv, Tick
  PROVE  OverdueIInv'
<1>1. /\ OverdueTypeOK /\ PromisesAreKept /\ DepartedBefore
  BY DEF OverdueIInv
<1>2. now < MaxTime /\ now' = now + 1 /\ UNCHANGED <<rules, governs, mail, detected, monitor, report>>
  BY DEF Tick
<1>3. now \in 0 .. MaxTime /\ MaxTime \in Nat
  BY <1>1, OverdueTypes
<1>4. now' \in 0 .. MaxTime
  BY <1>2, <1>3
<1>5. OverdueTypeOK'
  BY <1>1, <1>2, <1>4 DEF OverdueTypeOK
<1>6. PromisesAreKept'
  BY <1>1, <1>2 DEF PromisesAreKept, ActiveMax
<1>7. DepartedBefore'
  <2> SUFFICES ASSUME NEW m \in Mails, mail[m].started # Never
               PROVE  mail[m].started <= now + 1
    BY <1>2 DEF DepartedBefore
  <2>1. mail[m].started \in 0 .. MaxTime /\ mail[m].started <= now
    BY <1>1, MailFields DEF DepartedBefore
  <2> QED BY <1>3, <2>1
<1>8. ReportIsSound' /\ ClassesWereInForce'
  BY <1>2, ReportStays
<1> QED BY <1>5, <1>6, <1>7, <1>8 DEF OverdueIInv

(* A page has mails, and no more than it may. *)
LEMMA ListedIs ==
  ASSUME NEW limit \in Nat, NEW S \in Listed(limit)
  PROVE  S \subseteq Mails /\ IsFiniteSet(S) /\ Cardinality(S) <= limit
<1>1. S \subseteq Mails /\ Cardinality(S) <= limit
  BY DEF Listed, Late
<1>2. IsFiniteSet(S)
  BY <1>1, OverdueConstants, FS_Subset
<1> QED BY <1>1, <1>2

(* The monitor lists a page, and the page gets shorter. *)
LEMMA MonitorKeeps ==
  ASSUME OverdueIInv,
         MonitorLists \/ \E m \in Mails : MonitorRecords(m) \/ MonitorLoses(m)
  PROVE  OverdueIInv'
<1>1. /\ OverdueTypeOK /\ PromisesAreKept /\ DepartedBefore
  BY DEF OverdueIInv
<1>2. UNCHANGED <<now, rules, governs, mail, report>>
  BY DEF MonitorLists, MonitorRecords, MonitorLoses
<1>3. monitor' \subseteq Mails /\ detected' \subseteq Mails /\ Cardinality(monitor') <= Page
  <2>1. monitor \subseteq Mails /\ detected \subseteq Mails /\ Cardinality(monitor) <= Page
    BY <1>1, OverdueTypes
  <2>2. IsFiniteSet(monitor) /\ Page \in Nat
    BY <2>1, OverdueConstants, FS_Subset
  <2>3. CASE MonitorLists
    BY <2>1, <2>2, <2>3, ListedIs DEF MonitorLists
  <2>4. ASSUME NEW m \in Mails, MonitorRecords(m) \/ MonitorLoses(m)
        PROVE  monitor' \subseteq Mails /\ detected' \subseteq Mails /\ Cardinality(monitor') <= Page
    <3>1. m \in monitor /\ monitor' = monitor \ {m} /\ detected' \in {detected, detected \cup {m}}
      BY <2>4 DEF MonitorRecords, MonitorLoses
    <3>2. Cardinality(monitor') = Cardinality(monitor) - 1 /\ Cardinality(monitor) \in Nat
      BY <2>2, <3>1, FS_RemoveElement, FS_CardinalityType
    <3>3. Cardinality(monitor') <= Page
      BY <2>1, <2>2, <3>2
    <3> QED BY <2>1, <3>1, <3>3
  <2> QED BY <2>3, <2>4
<1>4. OverdueTypeOK'
  BY <1>1, <1>2, <1>3 DEF OverdueTypeOK
<1>5. PromisesAreKept'
  BY <1>1, <1>2 DEF PromisesAreKept, ActiveMax
<1>6. DepartedBefore'
  BY <1>1, <1>2 DEF DepartedBefore
<1>7. ReportIsSound' /\ ClassesWereInForce'
  BY <1>2, ReportStays
<1> QED BY <1>4, <1>5, <1>6, <1>7 DEF OverdueIInv

(* A report begins with the copies of a page, the clock and the ceilings. *)
LEMMA ReportListsKeeps ==
  ASSUME OverdueIInv, ReportLists
  PROVE  OverdueIInv'
<1>1. /\ OverdueTypeOK /\ PromisesAreKept /\ DepartedBefore
  BY DEF OverdueIInv
<1>2. UNCHANGED <<now, rules, governs, mail, detected, monitor>>
  BY DEF ReportLists
<1> DEFINE started == (0 .. MaxTime) \cup {Never}
<1>3. PICK S \in Listed(ReportPage) :
        report' = [copies |-> [m \in S |-> mail[m].started], left |-> S, at |-> now,
                   class |-> NoMails, seen |-> [r \in Routes |-> {governs[r]}]]
  BY DEF ReportLists
<1>4. S \subseteq Mails /\ Cardinality(S) <= ReportPage
  BY OverdueConstants, ListedIs
<1> DEFINE copies == [m \in S |-> mail[m].started]
           seen == [r \in Routes |-> {governs[r]}]
<1>5. DOMAIN copies = S /\ copies \in Partial(started) /\ \A m \in S : copies[m] = mail[m].started
  <2>1. \A m \in S : mail[m].started \in started
    BY <1>1, <1>4, MailFields
  <2>2. DOMAIN copies = S /\ copies \in [S -> started]
    BY <2>1
  <2> QED BY <1>4, <2>2, PartialIs
<1>6. seen \in [Routes -> SUBSET (Ceilings \cup {Default})] /\ \A r \in Routes : governs[r] \in seen[r]
  BY <1>1, OverdueTypes
<1>7. now \in 0 .. MaxTime /\ NoMails \in Partial(Class) /\ DOMAIN NoMails = {}
  <2>1. NoReport \in Report /\ NoReport.class = NoMails /\ DOMAIN NoMails = {}
    BY NoReportIs
  <2> QED BY <1>1, <2>1, OverdueTypes, ReportFields
<1>8. /\ report'.copies = copies /\ report'.left = S /\ report'.at = now
      /\ report'.class = NoMails /\ report'.seen = seen
  BY <1>3
<1>9. report' \in Report
  <2>1. report' = [copies |-> copies, left |-> S, at |-> now, class |-> NoMails, seen |-> seen]
    BY <1>3
  <2> HIDE DEF copies, seen
  <2> QED BY <1>4, <1>5, <1>6, <1>7, <2>1, ReportParts
<1> HIDE DEF copies, seen
<1>10. OverdueTypeOK'
  <2>1. Cardinality(DOMAIN report'.copies) <= ReportPage
    BY <1>4, <1>5, <1>8
  <2> QED BY <1>1, <1>2, <1>9, <2>1 DEF OverdueTypeOK
<1>11. PromisesAreKept'
  BY <1>1, <1>2 DEF PromisesAreKept, ActiveMax
<1>12. DepartedBefore'
  BY <1>1, <1>2 DEF DepartedBefore
<1>13. ReportIsSound'
  <2>1. \A m \in S : copies[m] = Never \/ copies[m] <= now
    BY <1>1, <1>4, <1>5 DEF DepartedBefore
  <2> QED BY <1>2, <1>5, <1>6, <1>7, <1>8, <2>1 DEF ReportIsSound
<1>14. ClassesWereInForce'
  BY <1>7, <1>8 DEF ClassesWereInForce
<1> QED BY <1>10, <1>11, <1>12, <1>13, <1>14 DEF OverdueIInv

(* One class is one of four. *)
LEMMA ClassifyHasType ==
  ASSUME NEW m, NEW started, NEW at
  PROVE  Classify(m, started, at) \in Class
  BY DEF Classify, Class

(* A class is found under the ceiling in force at that moment, which the      *)
(* report has met.                                                           *)
LEMMA SummaryKeeps ==
  ASSUME OverdueIInv, NEW m \in Mails, SummaryClassifies(m)
  PROVE  OverdueIInv'
<1>1. /\ OverdueTypeOK /\ PromisesAreKept /\ DepartedBefore /\ ReportIsSound /\ ClassesWereInForce
  BY DEF OverdueIInv
<1> DEFINE c == Classify(m, report.copies[m], report.at)
           L == report.left \ {m}
           K == [n \in DOMAIN report.class \cup {m} |-> IF n = m THEN c ELSE report.class[n]]
<1>2. /\ m \in report.left /\ UNCHANGED <<now, rules, governs, mail, detected, monitor>>
      /\ report' = [report EXCEPT !.left = L, !.class = K]
  BY DEF SummaryClassifies
<1>3. report \in Report
  BY <1>1, OverdueTypes
<1>4. /\ DOMAIN report.class \subseteq Mails /\ report.class \in [DOMAIN report.class -> Class]
      /\ report.at \in Nat /\ report.left \subseteq Mails
      /\ report.copies \in [DOMAIN report.copies -> (0 .. MaxTime) \cup {Never}]
  BY <1>3, ReportFields, PartialIs
<1>5. /\ DOMAIN K = DOMAIN report.class \cup {m} /\ K[m] = c
      /\ \A n \in DOMAIN report.class : n # m => K[n] = report.class[n]
  OBVIOUS
<1>6. K \in Partial(Class)
  <2>1. c \in Class
    BY ClassifyHasType
  <2> HIDE DEF c
  <2>2. K \in [DOMAIN K -> Class]
    BY <1>4, <2>1
  <2> QED BY <1>4, <1>5, <2>2, PartialIs
<1>7. L \in SUBSET Mails
  BY <1>4
<1>8. c = ReferenceClass(report.copies[m], report.at, governs[RouteOf[m]])
  <2>1. RouteOf[m] \in Routes
    BY OverdueConstants
  <2>2. governs[RouteOf[m]] = ActiveMax(RouteOf[m]) /\ governs[RouteOf[m]] \in Nat
    BY <1>1, <2>1, OverdueTypes DEF PromisesAreKept
  <2>3. m \in DOMAIN report.copies
    BY <1>1, <1>2 DEF ReportIsSound
  <2>4. report.copies[m] = Never \/ (report.copies[m] \in Nat /\ report.copies[m] <= report.at)
    <3>1. report.copies[m] \in (0 .. MaxTime) \cup {Never} /\ MaxTime \in Nat
      BY <1>4, <2>3, OverdueConstants
    <3>2. report.copies[m] = Never \/ report.copies[m] <= report.at
      BY <1>1, <2>3 DEF ReportIsSound
    <3> QED BY <3>1, <3>2
  <2> QED BY <1>4, <2>2, <2>4, ClassifyIs
<1>9. governs[RouteOf[m]] \in report.seen[RouteOf[m]]
  <2>1. report # NoReport
    BY <1>2, NoReportIs
  <2> QED BY <1>1, <2>1, OverdueConstants DEF ReportIsSound
<1> HIDE DEF c, L, K
<1>10. /\ report' \in Report /\ report'.copies = report.copies /\ report'.left = L
       /\ report'.at = report.at /\ report'.class = K /\ report'.seen = report.seen
  <2> DEFINE A == Partial((0 .. MaxTime) \cup {Never})
             B == SUBSET Mails
             T == 0 .. MaxTime
             C == Partial(Class)
             D == [Routes -> SUBSET (Ceilings \cup {Default})]
  <2>1. Report = [copies : A, left : B, at : T, class : C, seen : D] /\ L \in B /\ K \in C
    BY <1>6, <1>7, ReportParts
  <2>2. report' = [report EXCEPT !.left = L, !.class = K]
    BY <1>2
  <2> HIDE DEF A, B, T, C, D
  <2> QED BY <1>3, <2>1, <2>2
<1>11. OverdueTypeOK'
  BY <1>1, <1>2, <1>10 DEF OverdueTypeOK
<1>12. PromisesAreKept'
  BY <1>1, <1>2 DEF PromisesAreKept, ActiveMax
<1>13. DepartedBefore'
  BY <1>1, <1>2 DEF DepartedBefore
<1>14. ReportIsSound'
  <2>1. L \subseteq DOMAIN report.copies /\ DOMAIN K \subseteq DOMAIN report.copies
    BY <1>1, <1>2, <1>5 DEF ReportIsSound, L
  <2>2. \A r \in Routes : governs'[r] \in report'.seen[r]
    <3>1. report # NoReport
      BY <1>2, NoReportIs
    <3> QED BY <1>1, <1>2, <1>10, <3>1 DEF ReportIsSound
  <2> QED BY <1>1, <1>10, <2>1, <2>2 DEF ReportIsSound
<1>15. ClassesWereInForce'
  <2> SUFFICES ASSUME NEW n \in DOMAIN K
               PROVE  \E ceiling \in report.seen[RouteOf[n]] :
                        K[n] = ReferenceClass(report.copies[n], report.at, ceiling)
    BY <1>10 DEF ClassesWereInForce
  <2>1. CASE n = m
    BY <1>5, <1>8, <1>9, <2>1
  <2>2. CASE n # m
    <3>1. n \in DOMAIN report.class /\ K[n] = report.class[n]
      BY <1>5, <2>2
    <3> QED BY <1>1, <3>1 DEF ClassesWereInForce
  <2> QED BY <2>1, <2>2
<1> QED BY <1>11, <1>12, <1>13, <1>14, <1>15 DEF OverdueIInv

(* A report that went to its reader has no classes left. *)
LEMMA ReportEndsKeeps ==
  ASSUME OverdueIInv, ReportEnds
  PROVE  OverdueIInv'
<1>1. /\ OverdueTypeOK /\ PromisesAreKept /\ DepartedBefore
  BY DEF OverdueIInv
<1>2. report' = NoReport /\ UNCHANGED <<now, rules, governs, mail, detected, monitor>>
  BY DEF ReportEnds
<1>3. /\ report' \in Report /\ report'.left = {} /\ DOMAIN report'.class = {}
      /\ DOMAIN report'.copies = {} /\ Cardinality(DOMAIN report'.copies) = 0
  BY <1>2, NoReportIs
<1>4. OverdueTypeOK'
  <2>1. Cardinality(DOMAIN report'.copies) <= ReportPage
    BY <1>3, OverdueConstants
  <2> QED BY <1>1, <1>2, <1>3, <2>1 DEF OverdueTypeOK
<1>5. PromisesAreKept'
  BY <1>1, <1>2 DEF PromisesAreKept, ActiveMax
<1>6. DepartedBefore'
  BY <1>1, <1>2 DEF DepartedBefore
<1>7. ReportIsSound'
  BY <1>2, <1>3 DEF ReportIsSound
<1>8. ClassesWereInForce'
  BY <1>3 DEF ClassesWereInForce
<1> QED BY <1>4, <1>5, <1>6, <1>7, <1>8 DEF OverdueIInv

(* The inductive invariant of Overdue: a route's promise is its rule in the   *)
(* table, no time is in the future, and a report has met every ceiling that  *)
(* is in force while it is at work, however rules change between its mails.  *)
THEOREM OverdueInvariance == OverdueSpec => []OverdueIInv
<1>1. OverdueInit => OverdueIInv
  BY OverdueStarts
<1>2. OverdueIInv /\ [OverdueNext]_overdueVars => OverdueIInv'
  <2> SUFFICES ASSUME OverdueIInv, [OverdueNext]_overdueVars
               PROVE  OverdueIInv'
    OBVIOUS
  <2>1. ASSUME NEW r \in Routes, Activate(r) \/ Deprecate(r) \/ \E max \in Ceilings : Add(r, max)
        PROVE  OverdueIInv'
    BY <2>1, RulesKeep
  <2>2. ASSUME NEW m \in Mails, Register(m) \/ Depart(m) \/ Leave(m)
        PROVE  OverdueIInv'
    BY <2>2, MailsKeep
  <2>3. ASSUME NEW m \in Mails, MonitorRecords(m) \/ MonitorLoses(m)
        PROVE  OverdueIInv'
    BY <2>3, MonitorKeeps
  <2>4. ASSUME NEW m \in Mails, SummaryClassifies(m)
        PROVE  OverdueIInv'
    BY <2>4, SummaryKeeps
  <2>5. CASE Tick
    BY <2>5, TickKeeps
  <2>6. CASE MonitorLists
    BY <2>6, MonitorKeeps
  <2>7. CASE ReportLists
    BY <2>7, ReportListsKeeps
  <2>8. CASE ReportEnds
    BY <2>8, ReportEndsKeeps
  <2>9. CASE UNCHANGED overdueVars
    <3>1. UNCHANGED <<now, rules, governs, mail, detected, monitor, report>>
      BY <2>9 DEF overdueVars
    <3>2. OverdueTypeOK /\ PromisesAreKept /\ DepartedBefore
      BY DEF OverdueIInv
    <3>3. OverdueTypeOK'
      BY <3>1, <3>2 DEF OverdueTypeOK
    <3>4. PromisesAreKept' /\ DepartedBefore'
      BY <3>1, <3>2 DEF PromisesAreKept, DepartedBefore, ActiveMax
    <3>5. ReportIsSound' /\ ClassesWereInForce'
      BY <3>1, ReportStays
    <3> QED BY <3>3, <3>4, <3>5 DEF OverdueIInv
  <2>10. CASE OverdueNext
    BY <2>1, <2>2, <2>3, <2>4, <2>5, <2>6, <2>7, <2>8, <2>10 DEF OverdueNext
  <2> QED BY <2>9, <2>10
<1> QED BY <1>1, <1>2, PTL DEF OverdueSpec

(* Rules, mails, pages and reports keep their types: no page is longer than   *)
(* it may be.                                                                *)
THEOREM OverdueTypeCorrect == OverdueSpec => []OverdueTypeOK
<1>1. OverdueIInv => OverdueTypeOK
  BY DEF OverdueIInv
<1> QED BY <1>1, OverdueInvariance, PTL

(* Every class of a report is the one of a ceiling that its mail's route had  *)
(* while the report was at work (sla.go:99): for any ceilings, zero among     *)
(* them, any times and any changes of the rules between two mails.           *)
THEOREM ClassesInForce == OverdueSpec => []ClassesWereInForce
<1>1. OverdueIInv => ClassesWereInForce
  BY DEF OverdueIInv
<1> QED BY <1>1, OverdueInvariance, PTL
===============================================================================
