----------------------------- MODULE MCScheduler -----------------------------
EXTENDS Scheduler

MCTasks == {"failure_retry", "timeout_monitor", "event_pruner"}
MCRetrier == "failure_retry"
==============================================================================
