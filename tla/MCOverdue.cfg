\* Default and Timeout come from one setting (app.go:64, 72); a rule of 0 hours
\* switches the classes of its route off.
CONSTANTS
  Mails <- MCMails
  Routes <- MCRoutes
  RouteOf <- MCRouteOf
  Ceilings <- MCCeilings
  Default = 1
  Timeout = 1
  Page = 1
  ReportPage = 2
  NoRule = NoRule
  Never = Never
  MaxTime = 3
SPECIFICATION OverdueSpec
INVARIANTS
  OverdueTypeOK
  ClassesWereInForce
PROPERTIES
  OverdueIsDetected
