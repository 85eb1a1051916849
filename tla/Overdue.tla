------------------------------- MODULE Overdue -------------------------------
(***************************************************************************)
(* Mails that are in transit for too long: TimeoutMonitorTask lists them   *)
(* and leaves an audit record for each, OverdueService lists and counts    *)
(* them by the lateness that sla.RuleSet gives each route.  Rules change   *)
(* and mails move while either is at work.                                 *)
(*                                                                         *)
(* Some names begin with Overdue, so that one module can extend this one   *)
(* and Scheduler, which runs the monitor.                                  *)
(***************************************************************************)
EXTENDS Naturals, FiniteSets

CONSTANTS
  Mails,        (* mail ids                                                *)
  Routes,       (* route ids                                               *)
  RouteOf,      (* the route of each mail                                  *)
  Ceilings,     (* values of MaxTransitHours, zero among them              *)
  Default,      (* RuleSet.defaultMax                                      *)
  Timeout,      (* the sign-off timeout, in ticks of the clock             *)
  Page,         (* PageSize of the monitor                                 *)
  ReportPage,   (* PageSize of the report                                  *)
  NoRule,       (* a route without an entry in the map                     *)
  Never,        (* the zero time in in_transit_at                          *)
  MaxTime       (* bound on the clock                                      *)

ASSUME OverdueAssumption ==
  /\ IsFiniteSet(Mails) /\ RouteOf \in [Mails -> Routes]
  /\ Ceilings \subseteq Nat /\ Default \in Nat /\ Timeout \in Nat
  /\ Page \in Nat /\ ReportPage \in Nat /\ MaxTime \in Nat

VARIABLES
  now,          (* the clock                                               *)
  rules,        (* RuleSet.rules                                           *)
  governs,      (* the ceiling each route was promised, for the properties *)
  mail,         (* per mail, its state and times                           *)
  detected,     (* mails with an audit record "timeout_detected"           *)
  monitor,      (* mails the monitor has listed and not yet recorded       *)
  report        (* the report at work                                      *)

overdueVars == <<now, rules, governs, mail, detected, monitor, report>>

Rule == [max : Ceilings, state : {"draft", "active", "deprecated"}]

ASSUME NoRuleAssumption == NoRule \notin Rule

Mail == [state : {"absent", "registered", "in_transit", "gone"}, registered : 0 .. MaxTime,
         started : (0 .. MaxTime) \cup {Never}]

Class == {"on_time", "overdue", "critical", "unknown_route"}

(* The mails listed, with the in_transit_at of the copies; those not yet      *)
(* classified; the clock Summary was given; the classes so far; and, for the  *)
(* properties, the ceilings each route has had meanwhile.                     *)
Report == [copies : UNION {[S -> (0 .. MaxTime) \cup {Never}] : S \in SUBSET Mails},
           left : SUBSET Mails, at : 0 .. MaxTime,
           class : UNION {[S -> Class] : S \in SUBSET Mails},
           seen : [Routes -> SUBSET (Ceilings \cup {Default})]]

OverdueTypeOK ==
  /\ now \in 0 .. MaxTime
  /\ rules \in [Routes -> Rule \cup {NoRule}]
  /\ governs \in [Routes -> Ceilings \cup {Default}]
  /\ mail \in [Mails -> Mail]
  /\ detected \subseteq Mails
  /\ monitor \subseteq Mails
  /\ report \in Report
  /\ Cardinality(DOMAIN report.copies) <= ReportPage /\ Cardinality(monitor) <= Page

NoMails == [m \in {} |-> Never]

NoReport == [copies |-> NoMails, left |-> {}, at |-> 0, class |-> NoMails,
             seen |-> [r \in Routes |-> {}]]

(* What the actions tell apart of a mail that is not there (yet, or any more). *)
Out(state) == [state |-> state, registered |-> 0, started |-> Never]

OverdueInit ==
  /\ now = 0
  /\ rules = [r \in Routes |-> NoRule]
  /\ governs = [r \in Routes |-> Default]
  /\ mail = [m \in Mails |-> Out("absent")]
  /\ detected = {} /\ monitor = {}
  /\ report = NoReport

-----------------------------------------------------------------------------
(* RuleSet: every operation holds its lock throughout *)

Validate(from, to) ==
  from = to \/ <<from, to>> \in {<<"draft", "active">>, <<"active", "deprecated">>,
                                 <<"deprecated", "active">>}

(* A rule enters the table, and the report at work may meet its ceiling.     *)
SetRule(r, rule, ceiling) ==
  /\ rules' = [rules EXCEPT ![r] = rule]
  /\ governs' = [governs EXCEPT ![r] = ceiling]
  /\ report' = IF report = NoReport THEN report ELSE [report EXCEPT !.seen[r] = @ \cup {ceiling}]
  /\ UNCHANGED <<now, mail, detected, monitor>>

(* Add overwrites whatever rule the route has; a draft governs nothing. *)
Add(r, max) == SetRule(r, [max |-> max, state |-> "draft"], Default)

Activate(r) ==
  /\ rules[r] # NoRule
  /\ Validate(rules[r].state, "active")
  /\ SetRule(r, [rules[r] EXCEPT !.state = "active"], rules[r].max)

Deprecate(r) ==
  /\ rules[r] # NoRule
  /\ Validate(rules[r].state, "deprecated")
  /\ SetRule(r, [rules[r] EXCEPT !.state = "deprecated"], Default)

\* Mutant: a draft governs as well.
ActiveMax_Draft(r) == IF rules[r] # NoRule /\ rules[r].state # "deprecated" THEN rules[r].max ELSE Default

ActiveMax(r) == IF rules[r] # NoRule /\ rules[r].state = "active" THEN rules[r].max ELSE Default

(* Classify for a mail in transit: the boundary is in the milder class.      *)
Classify(m, started, at) ==
  LET maxH == ActiveMax(RouteOf[m]) IN
  IF started = Never \/ maxH = 0 THEN "unknown_route"
  ELSE IF at - started <= maxH THEN "on_time"
  ELSE IF at - started <= maxH * 2 THEN "overdue" ELSE "critical"

-----------------------------------------------------------------------------
(* Mails and the clock *)

Register(m) ==
  /\ mail[m].state = "absent"
  /\ mail' = [mail EXCEPT ![m] = [state |-> "registered", registered |-> now, started |-> Never]]
  /\ UNCHANGED <<now, rules, governs, detected, monitor, report>>

(* A mail goes on its way.  A save of the whole row leaves in_transit_at      *)
(* zero; only UpdateStateTx sets it.                                          *)
Depart(m) ==
  /\ mail[m].state = "registered"
  /\ \E started \in {now, Never} :
       mail' = [mail EXCEPT ![m] = [@ EXCEPT !.state = "in_transit", !.started = started]]
  /\ UNCHANGED <<now, rules, governs, detected, monitor, report>>

(* It arrives, is intercepted or redirected. *)
Leave(m) ==
  /\ mail[m].state = "in_transit"
  /\ mail' = [mail EXCEPT ![m] = Out("gone")]
  /\ UNCHANGED <<now, rules, governs, detected, monitor, report>>

Tick ==
  /\ now < MaxTime
  /\ now' = now + 1
  /\ UNCHANGED <<rules, governs, mail, detected, monitor, report>>

-----------------------------------------------------------------------------
(* The monitor and the report *)

(* WHERE state = 'in_transit' AND registered_at <= now - timeout *)
IsOverdue(m) == mail[m].state = "in_transit" /\ mail[m].registered + Timeout <= now

Late == {m \in Mails : IsOverdue(m)}

\* Mutant: LIMIT without a bound on what it is given.
Listed_Unlimited(limit) == {Late}

\* Mutant: the oldest first.
Listed_OldestFirst(limit) ==
  {S \in SUBSET Late :
     /\ Cardinality(S) <= limit
     /\ S # Late => Cardinality(S) = limit
     /\ \A m \in S, n \in Late \ S : mail[m].registered <= mail[n].registered}

(* ORDER BY registered_at DESC LIMIT ?: the newest ones, in some order among  *)
(* equals.                                                                    *)
Listed(limit) ==
  {S \in SUBSET Late :
     /\ Cardinality(S) <= limit
     /\ S # Late => Cardinality(S) = limit
     /\ \A m \in S, n \in Late \ S : mail[m].registered >= mail[n].registered}

(* RunFunc of TimeoutMonitorTask: the listing ... *)
MonitorLists ==
  /\ monitor = {}
  /\ monitor' \in Listed(Page)
  /\ UNCHANGED <<now, rules, governs, mail, detected, report>>

(* ... and one audit record after the other ...                              *)
MonitorRecords(m) ==
  /\ m \in monitor
  /\ monitor' = monitor \ {m}
  /\ detected' = detected \cup {m}
  /\ UNCHANGED <<now, rules, governs, mail, report>>

(* ... whose errors are ignored. *)
MonitorLoses(m) ==
  /\ m \in monitor
  /\ monitor' = monitor \ {m}
  /\ UNCHANGED <<now, rules, governs, mail, detected, report>>

(* GetOverdueReport: the listing and the clock that Summary is given ...     *)
ReportLists ==
  /\ report = NoReport
  /\ \E S \in Listed(ReportPage) \ {{}} :
       report' = [copies |-> [m \in S |-> mail[m].started], left |-> S, at |-> now,
                  class |-> NoMails, seen |-> [r \in Routes |-> {governs[r]}]]
  /\ UNCHANGED <<now, rules, governs, mail, detected, monitor>>

(* ... and one class after the other, each under a lock of its own.          *)
SummaryClassifies(m) ==
  /\ m \in report.left
  /\ report' = [report EXCEPT
       !.left = @ \ {m},
       !.class = [n \in DOMAIN @ \cup {m} |->
                    IF n = m THEN Classify(m, report.copies[m], report.at) ELSE @[n]]]
  /\ UNCHANGED <<now, rules, governs, mail, detected, monitor>>

(* The report goes to its reader. *)
ReportEnds ==
  /\ report # NoReport /\ report.left = {}
  /\ report' = NoReport
  /\ UNCHANGED <<now, rules, governs, mail, detected, monitor>>

OverdueNext ==
  \/ \E r \in Routes : Activate(r) \/ Deprecate(r) \/ \E max \in Ceilings : Add(r, max)
  \/ \E m \in Mails :
       \/ Register(m) \/ Depart(m) \/ Leave(m)
       \/ MonitorRecords(m) \/ MonitorLoses(m) \/ SummaryClassifies(m)
  \/ Tick \/ MonitorLists \/ ReportLists \/ ReportEnds

(* The ticker keeps starting the monitor, and an append that is tried again   *)
(* and again is not refused for ever.                                         *)
OverdueFairness ==
  /\ WF_overdueVars(MonitorLists)
  /\ \A m \in Mails : SF_overdueVars(MonitorRecords(m)) /\ WF_overdueVars(MonitorRecords(m) \/ MonitorLoses(m))

OverdueSpec == OverdueInit /\ [][OverdueNext]_overdueVars /\ OverdueFairness

-----------------------------------------------------------------------------
(* Properties *)

(* How often the ceiling has been used up, begun ceilings counted whole.     *)
ReferenceClass(started, at, ceiling) ==
  IF started = Never \/ ceiling = 0 THEN "unknown_route"
  ELSE LET used == (at - started + ceiling - 1) \div ceiling IN
       IF used <= 1 THEN "on_time" ELSE IF used = 2 THEN "overdue" ELSE "critical"

(* sla.go:99 "a mail exactly at the SLA ceiling is still on-time, and exactly *)
(* at twice the ceiling is overdue": every class of a report is the one of a  *)
(* ceiling that its route had while the report was at work, whichever rules   *)
(* were added, activated or deprecated between two mails.                     *)
ClassesWereInForce ==
  \A m \in DOMAIN report.class :
    \E ceiling \in report.seen[RouteOf[m]] :
      report.class[m] = ReferenceClass(report.copies[m], report.at, ceiling)

(* Mails that the listing puts before m, in the worst order of equals. *)
Before(m) == {n \in Late \ {m} : mail[n].registered >= mail[m].registered}

(* README "后台任务负责超期提醒": a mail that stays in transit past the timeout is *)
(* recorded in the end, unless a whole page of mails registered no earlier is *)
(* overdue with it for ever.                                                  *)
OverdueIsDetected ==
  \A m \in Mails :
    <>[](IsOverdue(m) /\ Cardinality(Before(m)) < Page) => <>(m \in detected)
===============================================================================
