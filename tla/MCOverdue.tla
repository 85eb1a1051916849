------------------------------ MODULE MCOverdue ------------------------------
EXTENDS Overdue

MCMails == {"a", "b"}
MCRoutes == {"north"}
MCRouteOf == [m \in MCMails |-> "north"]
MCCeilings == {0}
==============================================================================
