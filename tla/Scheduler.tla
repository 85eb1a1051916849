------------------------------ MODULE Scheduler ------------------------------
(***************************************************************************)
(* scheduler.Scheduler inside the life of the process: App.Start spawns    *)
(* one goroutine per task, a signal cancels the context, App.Shutdown      *)
(* stops the scheduler and closes the store.  A task is retried with       *)
(* backoff and, when it fails for good, leaves a row in                    *)
(* permanent_failures, which an operator resolves over HTTP.               *)
(***************************************************************************)
EXTENDS Naturals

CONSTANTS
  Tasks,        (* names of the scheduled tasks                            *)
  Retrier,      (* the task whose RunFunc is RetryFailures                 *)
  MaxRetry,     (* Task.MaxRetry                                           *)
  MaxRows       (* bound on the rows of permanent_failures                 *)

ASSUME SchedulerAssumption == Retrier \in Tasks /\ MaxRetry \in Nat /\ MaxRows \in Nat

VARIABLES
  starter,      (* App.Start: not called, spawning, or past the loop       *)
  running,      (* Scheduler.running                                       *)
  signalled,    (* the context of main has ended                           *)
  cancelled,    (* the context of the tasks has ended                      *)
  main,         (* where the main goroutine is                             *)
  task,         (* per task, where its goroutine is and the attempt        *)
  listed,       (* the failures RetryFailures has listed and not written   *)
  rows,         (* status of each row of permanent_failures                *)
  resolving     (* failures that a request has read and not yet resolved   *)

vars == <<starter, running, signalled, cancelled, main, task, listed, rows, resolving>>

Ids == 1 .. MaxRows

Status == {"none", "permanent", "retrying", "resolved"}

Places == {"absent", "waiting", "check", "running", "updating", "backoff", "recording", "ended"}

TypeOK ==
  /\ starter \in {"none", "spawning", "done"}
  /\ main \in {"serving", "stopping", "stopped", "closed"}
  /\ running \in BOOLEAN /\ signalled \in BOOLEAN /\ cancelled \in BOOLEAN
  /\ task \in [Tasks -> [pc : Places, attempt : 0 .. MaxRetry]]
  /\ listed \subseteq Ids /\ resolving \subseteq Ids
  /\ rows \in [Ids -> Status]

Fresh == [pc |-> "absent", attempt |-> 0]

Init ==
  /\ starter = "none" /\ main = "serving"
  /\ running = FALSE /\ signalled = FALSE /\ cancelled = FALSE
  /\ task = [t \in Tasks |-> Fresh]
  /\ listed = {} /\ resolving = {}
  /\ rows = [i \in Ids |-> "none"]

At(t, pc) == task[t].pc = pc

Go(t, pc) == task' = [task EXCEPT ![t].pc = pc]

(* The goroutines that the WaitGroup counts. *)
Alive == {t \in Tasks : task[t].pc \notin {"absent", "ended"}}

StoreIsOpen == main # "closed"

-----------------------------------------------------------------------------
(* Start and Stop *)

(* Scheduler.Start up to the unlock.  A child of an ended context is ended. *)
Start ==
  /\ starter = "none"
  /\ starter' = "spawning"
  /\ running' = TRUE
  /\ cancelled' = signalled
  /\ UNCHANGED <<signalled, main, task, listed, rows, resolving>>

(* wg.Add(1) and go runTask for the next task. *)
Spawn(t) ==
  /\ starter = "spawning"
  /\ At(t, "absent")
  /\ Go(t, "waiting")
  /\ starter' = IF \A u \in Tasks \ {t} : ~At(u, "absent") THEN "done" ELSE starter
  /\ UNCHANGED <<running, signalled, cancelled, main, listed, rows, resolving>>

(* SIGINT or SIGTERM ends the context of main ... *)
Signal ==
  /\ ~signalled
  /\ signalled' = TRUE
  /\ UNCHANGED <<starter, running, cancelled, main, task, listed, rows, resolving>>

(* ... and then the context derived from it. *)
Propagate ==
  /\ signalled /\ starter # "none" /\ ~cancelled
  /\ cancelled' = TRUE
  /\ UNCHANGED <<starter, running, signalled, main, task, listed, rows, resolving>>

(* Stop with the lock held: a scheduler that is not running is left alone.  *)
StopBegins ==
  /\ main = "serving" /\ signalled
  /\ IF running
     THEN running' = FALSE /\ cancelled' = TRUE /\ main' = "stopping"
     ELSE main' = "stopped" /\ UNCHANGED <<running, cancelled>>
  /\ UNCHANGED <<starter, signalled, task, listed, rows, resolving>>

\* Mutant: Stop returns without wg.Wait.
WaitIsOver_AtOnce == TRUE

(* The condition wg.Wait waits for. *)
WaitIsOver == Alive = {}

StopEnds ==
  /\ main = "stopping" /\ WaitIsOver
  /\ main' = "stopped"
  /\ UNCHANGED <<starter, running, signalled, cancelled, task, listed, rows, resolving>>

(* The rest of Shutdown: httpServer.Shutdown, at most 30 s, then store.Close. *)
CloseStore ==
  /\ main = "stopped"
  /\ main' = "closed"
  /\ UNCHANGED <<starter, running, signalled, cancelled, task, listed, rows, resolving>>

-----------------------------------------------------------------------------
(* One task *)

\* Mutant: the select of runTask has no case for the context.
Leaves_Never(t) == FALSE

(* case <-ctx.Done(): the goroutine ends. *)
Leaves(t) == At(t, "waiting") /\ cancelled

TaskEnds(t) ==
  /\ Leaves(t)
  /\ Go(t, "ended")
  /\ UNCHANGED <<starter, running, signalled, cancelled, main, listed, rows, resolving>>

(* case <-ticker.C: the first attempt.  A select with both cases ready picks *)
(* either.                                                                   *)
Ticked(t) ==
  /\ At(t, "waiting")
  /\ task' = [task EXCEPT ![t] = [pc |-> "check", attempt |-> 0]]
  /\ UNCHANGED <<starter, running, signalled, cancelled, main, listed, rows, resolving>>

(* The test of ctx.Err before an attempt. *)
Check(t) ==
  /\ At(t, "check")
  /\ Go(t, IF cancelled THEN "waiting" ELSE "running")
  /\ UNCHANGED <<starter, running, signalled, cancelled, main, listed, rows, resolving>>

\* Mutant: the loop backs off once more than there are attempts.
AfterFailure_OneMore(t) == IF task[t].attempt <= MaxRetry THEN "backoff" ELSE "recording"

(* What follows a failing attempt. *)
AfterFailure(t) == IF task[t].attempt < MaxRetry THEN "backoff" ELSE "recording"

(* RunFunc returns, with nil or with an error. *)
Returns(t) ==
  /\ At(t, "running")
  /\ t # Retrier
  /\ Go(t, "waiting") \/ Go(t, AfterFailure(t))
  /\ UNCHANGED <<starter, running, signalled, cancelled, main, listed, rows, resolving>>

(* RetryFailures: ListPending, WHERE status IN ('pending','retrying') ...    *)
ListPending(t) ==
  /\ At(t, "running")
  /\ t = Retrier
  /\ \/ Go(t, "updating") /\ listed' = {i \in Ids : rows[i] = "retrying"}
     \/ Go(t, AfterFailure(t)) /\ UNCHANGED listed
  /\ UNCHANGED <<starter, running, signalled, cancelled, main, rows, resolving>>

(* ... and the loop that writes each copy back as retrying, unless its time   *)
(* has not come.  The errors of Update are only logged.                      *)
UpdateListed(t) ==
  /\ At(t, "updating")
  /\ LET next == {i \in listed : \A j \in listed : i <= j} IN
     /\ \E written \in SUBSET IF cancelled THEN {} ELSE next :
          rows' = [i \in Ids |-> IF i \in written THEN "retrying" ELSE rows[i]]
     /\ listed' = listed \ next
  /\ Go(t, IF listed = {} THEN "waiting" ELSE "updating")
  /\ UNCHANGED <<starter, running, signalled, cancelled, main, resolving>>

(* The select of the backoff. *)
BackoffEnds(t) ==
  /\ At(t, "backoff")
  /\ \/ cancelled /\ Go(t, "waiting")
     \/ task' = [task EXCEPT ![t] = [pc |-> "check", attempt |-> @.attempt + 1]]
  /\ UNCHANGED <<starter, running, signalled, cancelled, main, listed, rows, resolving>>

\* Mutant: the failure is recorded as one to be retried.
RecordedStatus_Retrying == "retrying"

RecordedStatus == "permanent"

(* recordPermanentFailure: one INSERT, whose error (an ended context, a busy  *)
(* database) is only logged.                                                  *)
Record(t) ==
  /\ At(t, "recording")
  /\ \/ UNCHANGED rows
     \/ \E i \in Ids :
          /\ rows[i] = "none" /\ \A j \in Ids : j < i => rows[j] # "none"
          /\ ~cancelled
          /\ rows' = [rows EXCEPT ![i] = RecordedStatus]
  /\ Go(t, "waiting")
  /\ UNCHANGED <<starter, running, signalled, cancelled, main, listed, resolving>>

-----------------------------------------------------------------------------
(* The operator and the process *)

(* POST /failures/{id}/resolve: Get ... *)
GetFailure(i) ==
  /\ StoreIsOpen
  /\ rows[i] # "none"
  /\ resolving' = resolving \cup {i}
  /\ UNCHANGED <<starter, running, signalled, cancelled, main, task, listed, rows>>

(* ... and Update, by id alone, or its error. *)
ResolveFailure(i) ==
  /\ i \in resolving
  /\ \/ StoreIsOpen /\ rows' = [rows EXCEPT ![i] = "resolved"]
     \/ UNCHANGED rows
  /\ resolving' = resolving \ {i}
  /\ UNCHANGED <<starter, running, signalled, cancelled, main, task, listed>>

(* The process ends, after Shutdown or without it, and is started again.     *)
Restart ==
  /\ starter' = "none" /\ main' = "serving"
  /\ running' = FALSE /\ signalled' = FALSE /\ cancelled' = FALSE
  /\ task' = [t \in Tasks |-> Fresh]
  /\ listed' = {} /\ resolving' = {}
  /\ UNCHANGED rows

TaskStep(t) ==
  \/ TaskEnds(t) \/ Ticked(t) \/ Check(t) \/ Returns(t) \/ ListPending(t)
  \/ UpdateListed(t) \/ BackoffEnds(t) \/ Record(t)

Next ==
  \/ Start \/ Signal \/ Propagate \/ StopBegins \/ StopEnds \/ CloseStore
  \/ \E t \in Tasks : Spawn(t) \/ TaskStep(t)
  \/ \E i \in Ids : GetFailure(i) \/ ResolveFailure(i)
  \/ Restart

(* Goroutines are scheduled, timers fire and statements return.  A select    *)
(* whose context has ended does not pick a stale tick for ever.              *)
Fairness ==
  /\ WF_vars(StopEnds)
  /\ \A t \in Tasks :
       /\ WF_vars(Check(t) \/ Returns(t) \/ ListPending(t) \/ UpdateListed(t)
                    \/ BackoffEnds(t) \/ Record(t))
       /\ SF_vars(TaskEnds(t))

Spec == Init /\ [][Next]_vars /\ Fairness

-----------------------------------------------------------------------------
(* Properties *)

(* The store is closed under no task: Shutdown stops the scheduler first, and *)
(* a task that Stop did not wait for, because Start had not reached it or had *)
(* not run at all, finds its context ended before its first attempt.          *)
NoTaskOutlivesStore ==
  main = "closed" => \A t \in Tasks : ~\E pc \in {"running", "updating", "backoff", "recording"} : At(t, pc)

(* A recorded failure stays as it is until an operator resolves it, and then  *)
(* stays resolved: no retry in between writes an older copy over it.          *)
FailuresAreKept ==
  [][\A i \in Ids : rows[i] # "none" => rows'[i] = rows[i] \/ rows'[i] = "resolved"]_vars

(* Stop returns: no task holds it up by sleeping, retrying or waiting for its *)
(* next tick, wherever the signal meets it.                                   *)
StopReturns == main = "stopping" ~> main # "stopping"
===============================================================================
