-------------------------------- MODULE Batches --------------------------------
(***************************************************************************)
(* service.BatchService over batch_records, batch_items and mail_items,    *)
(* and the scheduler's BatchProcessorTask.  ProcessBatch delivers the      *)
(* mails of a batch one by one; if one fails it takes back, one by one,    *)
(* what this attempt delivered.  Every read and every write is a statement *)
(* or transaction of its own, and every row is written back whole.         *)
(***************************************************************************)
EXTENDS Naturals

CONSTANTS
  Batches,      (* batch ids                                               *)
  Mails,        (* registered mails                                        *)
  None,         (* no row, no request, no mail                             *)
  Workers,      (* HTTP requests that create and process batches           *)
  Tasks,        (* runs of BatchProcessorTask in flight: {} or one         *)
  Faults,       (* what may fail: "stop", a request stops half way;        *)
                (* "statement", an SQL statement whose error is ignored    *)
  MaxVersion    (* bound on the version of a batch                         *)

VARIABLES
  batch,        (* rows of batch_records                                   *)
  item,         (* rows of batch_items: per batch and mail the state       *)
  mail,         (* rows of mail_items: the state                           *)
  req,          (* per worker, the request in flight                       *)
  task,         (* per task, the rolled_back rows it listed                *)
  met           (* history: the faults met so far, "requeue" once a task   *)
                (* has overwritten a row that is not the one it listed,    *)
                (* "overlap" once two requests were at work on one batch   *)

vars == <<batch, item, mail, req, task, met>>

BatchStates == {"pending", "processing", "succeeded", "rolled_back", "completed"}

(* batchStateMachine *)
Transitions ==
  {<<"pending", "processing">>, <<"processing", "succeeded">>, <<"processing", "rolled_back">>,
   <<"rolled_back", "processing">>, <<"succeeded", "completed">>}

ItemStates == {"pending", "succeeded", "failed", "rolled_back"}

MailStates == {"registered", "in_transit", "arrived"}

Batch == [state : BatchStates, version : 1 .. MaxVersion]

Phases == {"create", "start", "list", "item", "saveMail", "saveItem", "complete",
           "compensate", "restoreMail", "restoreItem", "rollback"}

(* row: the handler's copy of the batch; items: its copy of the items; todo: *)
(* items still to visit; done: processedThisAttempt; cur: the item at hand.  *)
Request == [phase : Phases, batch : Batches, row : Batch, items : [Mails -> ItemStates \cup {None}],
            todo : SUBSET Mails, done : SUBSET Mails, cur : Mails \cup {None}]

ASSUME BatchAssumption == MaxVersion \in Nat \ {0}

ASSUME NoneAssumption ==
  None \notin Batch /\ None \notin Request /\ None \notin Mails /\ None \notin ItemStates

TypeOK ==
  /\ batch \in [Batches -> Batch \cup {None}]
  /\ item \in [Batches -> [Mails -> ItemStates \cup {None}]]
  /\ mail \in [Mails -> MailStates]
  /\ req \in [Workers -> Request \cup {None}]
  /\ task \in [Tasks -> [Batches -> Batch \cup {None}]]
  /\ met \subseteq Faults \cup {"requeue", "overlap"}

(* A mail is registered when its form is, and on its way when its truck is. *)
Init ==
  /\ batch = [b \in Batches |-> None]
  /\ item = [b \in Batches |-> [m \in Mails |-> None]]
  /\ mail \in [Mails -> {"registered", "in_transit"}]
  /\ req = [w \in Workers |-> None]
  /\ task = [t \in Tasks |-> [b \in Batches |-> None]]
  /\ met = {}

At(w, phase) == req[w] # None /\ req[w].phase = phase

\* Mutant: the version is counted up twice.
Moved_CountsTwice(r, s) == [r EXCEPT !.state = s, !.version = @ + 2]

Moved(r, s) == [r EXCEPT !.state = s, !.version = @ + 1]

\* Mutant: only equal states are refused.
Validate_Anything(from, to) == from \in BatchStates /\ to \in BatchStates

Validate(from, to) == from = to \/ <<from, to>> \in Transitions

-----------------------------------------------------------------------------
(* CreateBatch *)

Create(w, b, ms) ==
  /\ req[w] = None
  /\ batch[b] = None
  /\ LET r == [state |-> "pending", version |-> 1]
     IN /\ batch' = [batch EXCEPT ![b] = r]
        /\ req' = [req EXCEPT ![w] =
             [phase |-> "create", batch |-> b, row |-> r, items |-> [m \in Mails |-> None],
              todo |-> ms, done |-> {}, cur |-> None]]
  /\ UNCHANGED <<item, mail, task, met>>

CreateItem(w) ==
  LET q == req[w] IN
  /\ At(w, "create")
  /\ IF q.todo = {}
     THEN req' = [req EXCEPT ![w] = None] /\ UNCHANGED item
     ELSE \E m \in q.todo : /\ item' = [item EXCEPT ![q.batch][m] = "pending"]
                            /\ req' = [req EXCEPT ![w].todo = @ \ {m}]
  /\ UNCHANGED <<batch, mail, task, met>>

-----------------------------------------------------------------------------
(* ProcessBatch *)

(* Get and validate. *)
Process(w, b) ==
  /\ req[w] = None
  /\ batch[b] # None
  /\ batch[b].version + 3 <= MaxVersion
  /\ Validate(batch[b].state, "processing")
  /\ req' = [req EXCEPT ![w] =
       [phase |-> "start", batch |-> b, row |-> Moved(batch[b], "processing"),
        items |-> [m \in Mails |-> None], todo |-> {}, done |-> {}, cur |-> None]]
  /\ met' = IF \E v \in Workers : req[v] # None /\ req[v].batch = b THEN met \cup {"overlap"} ELSE met
  /\ UNCHANGED <<batch, item, mail, task>>

SaveRow(w) == batch' = [batch EXCEPT ![req[w].batch] = req[w].row]

Start(w) ==
  /\ At(w, "start")
  /\ SaveRow(w)
  /\ req' = [req EXCEPT ![w].phase = "list"]
  /\ UNCHANGED <<item, mail, task, met>>

(* Items that succeeded in an earlier attempt are skipped. *)
ToVisit(its) == {m \in Mails : its[m] \notin {None, "succeeded"}}

ListItems(w) ==
  LET its == item[req[w].batch] IN
  /\ At(w, "list")
  /\ req' = [req EXCEPT ![w] = [@ EXCEPT !.phase = "item", !.items = its, !.todo = ToVisit(its)]]
  /\ UNCHANGED <<batch, item, mail, task, met>>

(* A statement fails, and what it leaves undone goes unnoticed. *)
Lost == "statement" \in Faults /\ met' = met \cup {"statement"}

Done == met' = met

(* processItem: read the mail of one item; if it can be delivered, save it. *)
ReadMail(w) ==
  /\ At(w, "item")
  /\ \E m \in req[w].todo :
       LET q == [req[w] EXCEPT !.cur = m, !.todo = @ \ {m}] IN
       \/ /\ mail[m] \in {"in_transit", "arrived"} /\ Done
          /\ req' = [req EXCEPT ![w] = [q EXCEPT !.phase = "saveMail"]]
       \/ /\ (mail[m] = "registered" /\ Done) \/ Lost
          /\ req' = [req EXCEPT ![w] = [q EXCEPT !.phase = "saveItem", !.items[m] = "failed"]]
  /\ UNCHANGED <<batch, item, mail, task>>

SaveMail(w) ==
  LET q == req[w] IN
  /\ At(w, "saveMail")
  /\ \/ /\ mail' = [mail EXCEPT ![q.cur] = "arrived"] /\ Done
        /\ req' = [req EXCEPT ![w] = [q EXCEPT !.phase = "saveItem", !.done = @ \cup {q.cur},
                                               !.items[q.cur] = "succeeded"]]
     \/ /\ UNCHANGED mail /\ Lost
        /\ req' = [req EXCEPT ![w] = [q EXCEPT !.phase = "saveItem", !.items[q.cur] = "failed"]]
  /\ UNCHANGED <<batch, item, task>>

SaveItem(w) ==
  LET q == req[w] IN
  /\ At(w, "saveItem")
  /\ \/ item' = [item EXCEPT ![q.batch][q.cur] = q.items[q.cur]] /\ Done
     \/ UNCHANGED item /\ Lost
  /\ req' = [req EXCEPT ![w].phase = "item"]
  /\ UNCHANGED <<batch, mail, task>>

\* Mutant: one delivered item is enough.
AllSucceeded_Any(its) == \E m \in Mails : its[m] = "succeeded"

(* No item of this attempt failed. *)
AllSucceeded(its) == \A m \in Mails : its[m] # "failed"

(* The last item is done: succeeded and completed, two saves, or back. *)
Decide(w) ==
  LET q == req[w] IN
  /\ At(w, "item") /\ q.todo = {}
  /\ IF AllSucceeded(q.items)
     THEN /\ \/ batch' = [batch EXCEPT ![q.batch] = Moved(q.row, "succeeded")] /\ Done
             \/ UNCHANGED batch /\ Lost
          /\ req' = [req EXCEPT ![w] = [q EXCEPT !.phase = "complete",
                                                 !.row = Moved(Moved(q.row, "succeeded"), "completed")]]
     ELSE req' = [req EXCEPT ![w] = [@ EXCEPT !.phase = "compensate"]] /\ UNCHANGED <<batch, met>>
  /\ UNCHANGED <<item, mail, task>>

Complete(w) ==
  /\ At(w, "complete")
  /\ (SaveRow(w) /\ Done) \/ (UNCHANGED batch /\ Lost)
  /\ req' = [req EXCEPT ![w] = None]
  /\ UNCHANGED <<item, mail, task>>

\* Mutant: nothing is taken back.
ToRestore_None(done) == {}

ToRestore(done) == done

\* Mutant: the new state is not assigned.
RolledBack_StateLeft(r) == [r EXCEPT !.version = @ + 1]

RolledBack(r) == Moved(r, "rolled_back")

(* compensateItem: read the mail of a delivered item ... *)
Compensate(w) ==
  LET q == req[w] IN
  /\ At(w, "compensate")
  /\ IF ToRestore(q.done) = {}
     THEN /\ req' = [req EXCEPT ![w] = [q EXCEPT !.phase = "rollback", !.row = RolledBack(q.row)]]
          /\ Done
     ELSE \E m \in q.done, next \in {"restoreMail", "restoreItem"} :
            /\ \/ (next = "restoreMail" <=> mail[m] = "arrived") /\ Done
               \/ next = "restoreItem" /\ Lost
            /\ req' = [req EXCEPT ![w] = [q EXCEPT !.phase = next, !.cur = m, !.done = @ \ {m}]]
  /\ UNCHANGED <<batch, item, mail, task>>

(* ... put it on its way again ... *)
RestoreMail(w) ==
  /\ At(w, "restoreMail")
  /\ \/ mail' = [mail EXCEPT ![req[w].cur] = "in_transit"] /\ Done
     \/ UNCHANGED mail /\ Lost
  /\ req' = [req EXCEPT ![w].phase = "restoreItem"]
  /\ UNCHANGED <<batch, item, task>>

(* ... and record the item as rolled back. *)
RestoreItem(w) ==
  /\ At(w, "restoreItem")
  /\ \/ item' = [item EXCEPT ![req[w].batch][req[w].cur] = "rolled_back"] /\ Done
     \/ UNCHANGED item /\ Lost
  /\ req' = [req EXCEPT ![w].phase = "compensate"]
  /\ UNCHANGED <<batch, mail, task>>

RollBack(w) ==
  /\ At(w, "rollback")
  /\ (SaveRow(w) /\ Done) \/ (UNCHANGED batch /\ Lost)
  /\ req' = [req EXCEPT ![w] = None]
  /\ UNCHANGED <<item, mail, task>>

(* The request's time is up, a statement whose error is returned fails, the *)
(* item to roll back cannot be read (a nil dereference), the process stops. *)
Fail(w) ==
  /\ "stop" \in Faults
  /\ req[w] # None
  /\ req' = [req EXCEPT ![w] = None]
  /\ met' = met \cup {"stop"}
  /\ UNCHANGED <<batch, item, mail, task>>

-----------------------------------------------------------------------------
(* BatchProcessorTask *)

List(t) ==
  /\ \A b \in Batches : task[t][b] = None
  /\ task' = [task EXCEPT ![t] =
       [b \in Batches |-> IF batch[b] # None /\ batch[b].state = "rolled_back"
                             /\ batch[b].version < MaxVersion
                          THEN batch[b] ELSE None]]
  /\ task' # task
  /\ UNCHANGED <<batch, item, mail, req, met>>

(* The listed copy goes back as pending, whatever the row has become. *)
Requeue(t, b) ==
  /\ task[t][b] # None
  /\ batch' = [batch EXCEPT ![b] = Moved(task[t][b], "pending")]
  /\ task' = [task EXCEPT ![t][b] = None]
  /\ met' = IF batch[b] = task[t][b] THEN met ELSE met \cup {"requeue"}
  /\ UNCHANGED <<item, mail, req>>

(* The truck leaves with the mail: no code of the service writes this. *)
Depart(m) ==
  /\ mail[m] = "registered"
  /\ mail' = [mail EXCEPT ![m] = "in_transit"]
  /\ UNCHANGED <<batch, item, req, task, met>>

Steps(w) ==
  \/ CreateItem(w) \/ Start(w) \/ ListItems(w) \/ ReadMail(w) \/ SaveMail(w) \/ SaveItem(w)
  \/ Decide(w) \/ Complete(w) \/ Compensate(w) \/ RestoreMail(w) \/ RestoreItem(w) \/ RollBack(w)

Next ==
  \/ \E w \in Workers :
       \/ \E b \in Batches : Process(w, b) \/ \E ms \in SUBSET Mails : Create(w, b, ms)
       \/ Steps(w) \/ Fail(w)
  \/ \E t \in Tasks : List(t) \/ \E b \in Batches : Requeue(t, b)
  \/ \E m \in Mails : Depart(m)

Spec == Init /\ [][Next]_vars

(* A handler runs to its end. *)
FairSpec == Spec /\ \A w \in Workers : WF_vars(Steps(w))

-----------------------------------------------------------------------------
(* Properties *)

(* No attempt stopped half way, no statement failed unnoticed, and requests *)
(* took their turns at a batch.                                             *)
Undisturbed == met \subseteq {"requeue"}

(* Nothing keeps two batches from naming one mail; what one of them takes   *)
(* back is then taken from the other as well.                               *)
Shared(m) == \E b, c \in Batches : b # c /\ item[b][m] # None /\ item[c][m] # None

(* A completed batch delivered all its mails, and its items say so, also    *)
(* after attempts that were rolled back and requeued.                       *)
CompletedIsDelivered ==
  Undisturbed => \A b \in Batches : batch[b] # None /\ batch[b].state = "completed" =>
    \A m \in Mails : item[b][m] # None =>
      item[b][m] = "succeeded" /\ (Shared(m) \/ mail[m] = "arrived")

(* A batch that was rolled back left nothing delivered: what the attempt    *)
(* did to its mails is undone, and no item counts as delivered.             *)
RolledBackIsUndone ==
  Undisturbed => \A b \in Batches : batch[b] # None /\ batch[b].state = "rolled_back" =>
    \A m \in Mails : item[b][m] # None =>
      item[b][m] # "succeeded" /\ (Shared(m) \/ mail[m] # "arrived")

(* state_machine_test.go requires an error for completed -> processing: a   *)
(* completed batch is never taken up again, also after attempts that        *)
(* stopped half way or lost some of their writes.  The exceptions are a     *)
(* task that writes back a row it listed before, and two requests at once.  *)
CompletedIsFinal ==
  [][\A b \in Batches : /\ batch[b] # None /\ batch[b].state = "completed"
                        /\ met' \cap {"requeue", "overlap"} = {}
       => batch'[b].state = "completed"]_vars

(* Every processing of a batch comes to an end, completed or rolled back,   *)
(* unless a fault, the task or another request gets in between.             *)
ProcessingEnds ==
  \A b \in Batches : (batch[b] # None /\ batch[b].state = "processing")
    ~> (met # {} \/ (batch[b] # None /\ batch[b].state \in {"completed", "rolled_back"}))
===============================================================================
