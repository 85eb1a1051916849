----------------------------- MODULE BatchesProofs -----------------------------
(***************************************************************************)
(* Proofs about Batches for any batches, mails, requests, tasks and        *)
(* faults.  While nothing is disturbed, what the rows of a batch and its   *)
(* mails show is determined by where the request at work on it is: the     *)
(* items credited as delivered (CreditedMails) and the mails that have     *)
(* arrived (ArrivedMails) follow its copy; between requests a batch is     *)
(* delivered whole or not at all (Settled).                                *)
(***************************************************************************)
EXTENDS Batches, TLAPS

(* A request at work on the items of a batch. *)
Late == {"item", "saveMail", "saveItem", "complete",
         "compensate", "restoreMail", "restoreItem", "rollback"}

(* The copies that will be written, of a request and of a task. *)
CopyIsDue(q) ==
  /\ q.phase \notin {"create", "complete", "rollback"} =>
       q.row.state = "processing" /\ q.row.version + 2 <= MaxVersion
  /\ q.phase = "complete" => q.row.state = "completed"
  /\ q.phase = "rollback" => q.row.state = "rolled_back"
  /\ q.phase \in {"saveMail", "saveItem", "restoreMail", "restoreItem"} => q.cur \in Mails

CopiesAreDue ==
  /\ \A w \in Workers : req[w] # None => CopyIsDue(req[w])
  /\ \A t \in Tasks, b \in Batches : task[t][b] # None =>
       task[t][b].state = "rolled_back" /\ task[t][b].version + 1 <= MaxVersion

(* Requests and items belong to a batch that is there. *)
RowsExist ==
  /\ \A w \in Workers : req[w] # None => batch[req[w].batch] # None
  /\ \A b \in Batches, m \in Mails : item[b][m] # None => batch[b] # None

(* Until two requests overlap, a batch has one request, which is at work on  *)
(* a batch that is neither completed nor, once started, rolled back.         *)
RequestsTakeTurns ==
  "overlap" \notin met =>
    /\ \A v, w \in Workers : req[v] # None /\ req[w] # None /\ req[v].batch = req[w].batch => v = w
    /\ \A w \in Workers : req[w] # None =>
         /\ batch[req[w].batch].state # "completed"
         /\ req[w].phase \notin {"create", "start"} => batch[req[w].batch].state # "rolled_back"

SharedMails == {m \in Mails : Shared(m)}

Succeeded(q) == {m \in Mails : q.items[m] = "succeeded"}

(* The items that the rows of the batch credit as delivered ... *)
CreditedMails(q) ==
  CASE q.phase \in {"item", "saveMail"} -> Succeeded(q)
    [] q.phase = "saveItem" -> Succeeded(q) \ {q.cur}
    [] q.phase = "complete" -> Mails
    [] q.phase = "compensate" -> q.done
    [] q.phase \in {"restoreMail", "restoreItem"} -> q.done \cup {q.cur}
    [] OTHER -> {}

(* ... and those whose mails have arrived. *)
ArrivedMails(q) ==
  CASE q.phase = "saveItem" -> Succeeded(q)
    [] q.phase = "restoreItem" -> q.done
    [] OTHER -> CreditedMails(q)

(* The items of b that are credited are those in C, its own mails that have  *)
(* arrived are those in A.                                                   *)
Agree(b, C, A) ==
  \A m \in Mails : item[b][m] # None =>
    /\ item[b][m] = "succeeded" <=> m \in C
    /\ m \in SharedMails \/ (mail[m] = "arrived" <=> m \in A)

(* Delivered whole, or not at all. *)
Settled(b) ==
  \/ Agree(b, Mails, Mails) /\ batch[b].state # "rolled_back"
  \/ Agree(b, {}, {}) /\ batch[b].state # "completed"

(* The copy of the items: what was visited has an outcome, and either all    *)
(* was delivered before, or what succeeded is this attempt's.                *)
Books(q) ==
  /\ \A m \in Mails : q.items[m] = None <=> item[q.batch][m] = None
  /\ \A m \in q.todo : q.items[m] \notin {None, "succeeded"}
  /\ q.phase # "item" => q.cur \notin q.todo /\ q.items[q.cur] # None
  /\ q.phase = "saveMail" => q.items[q.cur] # "succeeded"
  /\ \A m \in Mails \ q.todo : (q.phase = "saveMail" => m # q.cur)
       => q.items[m] \in {None, "succeeded", "failed"}
  /\ \/ /\ q.phase = "item" /\ q.todo = {} /\ q.done = {}
        /\ \A m \in Mails : q.items[m] \in {None, "succeeded"}
     \/ q.done = Succeeded(q)

RequestIsSound(w) ==
  req[w] # None =>
    LET q == req[w] IN
    /\ q.phase = "create" => /\ \A m \in Mails : item[q.batch][m] # "succeeded"
                             /\ \A m \in q.todo : item[q.batch][m] = None
    /\ q.phase \in {"start", "list"} => q.done = {}
    /\ q.phase \in Late => Agree(q.batch, CreditedMails(q), ArrivedMails(q))
    /\ q.phase \in {"item", "saveMail", "saveItem"} => Books(q)
    /\ q.phase \in {"compensate", "restoreMail", "restoreItem"} =>
         \A m \in q.done : item[q.batch][m] # None
    /\ q.phase \in {"restoreMail", "restoreItem"} =>
         q.cur \notin q.done /\ item[q.batch][q.cur] # None

BatchIsSound(b) ==
  /\ batch[b] # None
  /\ \A w \in Workers : req[w] # None /\ req[w].batch = b => req[w].phase \notin Late
  => Settled(b)

(* Only mails that are in a batch have arrived. *)
MailsHaveItems ==
  \A m \in Mails : mail[m] = "arrived" => \E b \in Batches : item[b][m] # None

Sound ==
  /\ \A w \in Workers : RequestIsSound(w)
  /\ \A b \in Batches : BatchIsSound(b)
  /\ MailsHaveItems

(* What holds whatever fails, and the inductive invariant. *)
Base == TypeOK /\ CopiesAreDue /\ RowsExist /\ RequestsTakeTurns

IInv == Base /\ (Undisturbed => Sound)

USE BatchAssumption, NoneAssumption

-----------------------------------------------------------------------------
(* What holds whatever fails *)

(* With empty tables the invariant holds. *)
LEMMA InitIInv == Init => IInv
<1> SUFFICES ASSUME Init PROVE IInv
  OBVIOUS
<1>1. TypeOK
  BY DEF Init, TypeOK, MailStates
<1>2. CopiesAreDue /\ RowsExist /\ RequestsTakeTurns
  BY DEF Init, CopiesAreDue, RowsExist, RequestsTakeTurns
<1>3. Sound
  BY DEF Init, Sound, RequestIsSound, BatchIsSound, MailsHaveItems
<1> QED BY <1>1, <1>2, <1>3 DEF IInv, Base

(* A change of state counts the version up. *)
LEMMA MovedIsBatch ==
  ASSUME NEW r \in Batch, NEW s \in BatchStates, r.version + 1 <= MaxVersion
  PROVE  /\ Moved(r, s) \in Batch
         /\ Moved(r, s).state = s /\ Moved(r, s).version = r.version + 1
<1>1. r.version + 1 \in 1 .. MaxVersion
  BY DEF Batch
<1> QED BY <1>1 DEF Moved, Batch

(* The shape of every step of a request in flight: r is what becomes of it. *)
StepOf(w, r) ==
  /\ req[w] # None /\ r \in Request \cup {None}
  /\ req' = [req EXCEPT ![w] = r]
  /\ r # None => r.batch = req[w].batch /\ CopyIsDue(r)
  /\ task' = task
  /\ met \subseteq met' /\ met' \subseteq Faults \cup {"requeue", "overlap"}
  /\ mail' \in [Mails -> MailStates]
  /\ item' \in [Batches -> [Mails -> ItemStates \cup {None}]]
  /\ \A b \in Batches \ {req[w].batch} : item'[b] = item[b]

(* The batch is left alone, and the request does not start; or the row s is *)
(* written, completed or rolled back by the last step only.                 *)
RowKept(w, r) ==
  /\ batch' = batch
  /\ r # None /\ r.phase \notin {"create", "start"} => req[w].phase \notin {"create", "start"}

RowSaved(w, r, s) ==
  /\ s \in Batch
  /\ batch' = [batch EXCEPT ![req[w].batch] = s]
  /\ r # None => s.state \notin {"completed", "rolled_back"}

(* Such a step keeps what holds whatever fails. *)
LEMMA StepKeepsBase ==
  ASSUME Base, NEW w \in Workers, NEW r, NEW s, StepOf(w, r), RowKept(w, r) \/ RowSaved(w, r, s)
  PROVE  Base'
<1> USE DEF Base, StepOf
<1>a. req[w] \in Request /\ req[w].batch \in Batches
  BY DEF TypeOK, Request
<1>b. batch' = batch \/ (s \in Batch /\ batch' = [batch EXCEPT ![req[w].batch] = s])
  BY DEF RowKept, RowSaved
<1>1. TypeOK'
  <2>1. batch' \in [Batches -> Batch \cup {None}]
    BY <1>b DEF TypeOK
  <2>2. req' \in [Workers -> Request \cup {None}]
    BY DEF TypeOK
  <2> QED BY <2>1, <2>2 DEF TypeOK
<1>2. CopiesAreDue'
  <2>1. \A v \in Workers : req'[v] # None => CopyIsDue(req'[v])
    BY DEF CopiesAreDue, TypeOK
  <2> QED BY <2>1 DEF CopiesAreDue, CopyIsDue
<1>3. RowsExist'
  <2>1. \A b \in Batches : batch[b] # None => batch'[b] # None
    BY <1>a, <1>b DEF TypeOK
  <2>2. \A v \in Workers : req'[v] # None => req[v] # None /\ req'[v].batch = req[v].batch
    BY DEF TypeOK
  <2>3. \A v \in Workers : req[v] # None => req[v].batch \in Batches
    BY DEF TypeOK, Request
  <2>4. \A v \in Workers : req'[v] # None => batch'[req'[v].batch] # None
    BY <2>1, <2>2, <2>3 DEF RowsExist
  <2>5. batch'[req[w].batch] # None
    BY <1>a, <2>1 DEF RowsExist
  <2>6. \A b \in Batches, m \in Mails : item'[b][m] # None => batch'[b] # None
    BY <2>1, <2>5 DEF RowsExist
  <2> QED BY <2>4, <2>6 DEF RowsExist
<1>4. RequestsTakeTurns'
  <2> SUFFICES ASSUME "overlap" \notin met' PROVE RequestsTakeTurns'
    BY DEF RequestsTakeTurns
  <2>1. /\ \A v, u \in Workers : req[v] # None /\ req[u] # None /\ req[v].batch = req[u].batch => v = u
        /\ \A v \in Workers : req[v] # None =>
             /\ batch[req[v].batch].state # "completed"
             /\ req[v].phase \notin {"create", "start"} => batch[req[v].batch].state # "rolled_back"
    BY DEF RequestsTakeTurns
  <2>2. \A v \in Workers : v # w => req'[v] = req[v]
    BY DEF TypeOK
  <2>3. req'[w] = r
    BY DEF TypeOK
  <2>4. \A v, u \in Workers : req'[v] # None /\ req'[u] # None /\ req'[v].batch = req'[u].batch => v = u
    BY <2>1, <2>2, <2>3
  <2>5. \A b \in Batches : b # req[w].batch => batch'[b] = batch[b]
    BY <1>b DEF TypeOK
  <2>6. ASSUME NEW v \in Workers, req'[v] # None
        PROVE  /\ batch'[req'[v].batch].state # "completed"
               /\ req'[v].phase \notin {"create", "start"} => batch'[req'[v].batch].state # "rolled_back"
    <3>1. CASE v # w
      <4>1. req[v].batch \in Batches /\ req[v].batch # req[w].batch
        BY <2>1, <2>2, <2>6, <3>1 DEF TypeOK, Request
      <4> QED BY <2>1, <2>2, <2>5, <2>6, <3>1, <4>1
    <3>2. CASE v = w /\ RowKept(w, r)
      BY <2>1, <2>3, <2>6, <3>2 DEF RowKept
    <3>3. CASE v = w /\ RowSaved(w, r, s)
      <4>1. batch'[req[w].batch] = s
        BY <1>a, <3>3 DEF RowSaved, TypeOK
      <4> QED BY <2>3, <2>6, <3>3, <4>1 DEF RowSaved
    <3> QED BY <3>1, <3>2, <3>3
  <2> QED BY <2>4, <2>6 DEF RequestsTakeTurns
<1> QED BY <1>1, <1>2, <1>3, <1>4

-----------------------------------------------------------------------------
(* The steps of a request in flight: what becomes of it *)

(* Where a request is and what it carries. *)
LEMMA RequestFields ==
  ASSUME TypeOK, NEW w \in Workers, req[w] # None
  PROVE  /\ req[w] \in Request
         /\ req[w].phase \in Phases /\ req[w].batch \in Batches /\ req[w].row \in Batch
         /\ req[w].items \in [Mails -> ItemStates \cup {None}]
         /\ req[w].todo \subseteq Mails /\ req[w].done \subseteq Mails /\ req[w].cur \in Mails \cup {None}
  BY DEF TypeOK, Request

(* A request moves on with a new phase and its other fields as they are. *)
LEMMA PhaseChange ==
  ASSUME NEW q \in Request, NEW p \in Phases
  PROVE  LET r == [q EXCEPT !.phase = p] IN
         /\ r \in Request /\ r # None /\ r.phase = p
         /\ r.batch = q.batch /\ r.row = q.row /\ r.items = q.items
         /\ r.todo = q.todo /\ r.done = q.done /\ r.cur = q.cur
  BY DEF Request

(* An item is created, or the last one was. *)
LEMMA CreateItemIs ==
  ASSUME Base, NEW w \in Workers, CreateItem(w)
  PROVE  \E r :
    /\ StepOf(w, r) /\ RowKept(w, r) /\ mail' = mail /\ met' = met /\ req[w].phase = "create"
    /\ \/ r = None /\ item' = item /\ req[w].todo = {}
       \/ /\ r # None /\ r.phase = "create"
          /\ \E m \in req[w].todo : /\ item' = [item EXCEPT ![req[w].batch][m] = "pending"]
                                    /\ r.todo = req[w].todo \ {m}
<1>0. req[w] # None /\ req[w].phase = "create" /\ TypeOK /\ batch' = batch /\ mail' = mail /\ task' = task /\ met' = met
  BY DEF CreateItem, At, Base
<1>1. CASE req[w].todo = {}
  <2>1. req' = [req EXCEPT ![w] = None] /\ item' = item
    BY <1>1 DEF CreateItem
  <2>2. StepOf(w, None) /\ RowKept(w, None)
    BY <1>0, <2>1 DEF StepOf, RowKept, TypeOK
  <2> QED BY <1>0, <1>1, <2>1, <2>2
<1>2. CASE req[w].todo # {}
  <2>1. PICK m \in req[w].todo : /\ item' = [item EXCEPT ![req[w].batch][m] = "pending"]
                                 /\ req' = [req EXCEPT ![w].todo = @ \ {m}]
    BY <1>2 DEF CreateItem
  <2> DEFINE r == [req[w] EXCEPT !.todo = @ \ {m}]
  <2>2. /\ r \in Request /\ r # None /\ r.batch = req[w].batch /\ r.phase = "create"
        /\ r.todo = req[w].todo \ {m}
    BY <1>0, RequestFields DEF Request
  <2>3. req' = [req EXCEPT ![w] = r]
    BY <2>1
  <2> HIDE DEF r
  <2>4. /\ item' \in [Batches -> [Mails -> ItemStates \cup {None}]]
        /\ \A b \in Batches \ {req[w].batch} : item'[b] = item[b]
    BY <1>0, <2>1, RequestFields DEF TypeOK, ItemStates
  <2>5. StepOf(w, r) /\ RowKept(w, r)
    BY <1>0, <2>2, <2>3, <2>4 DEF StepOf, RowKept, TypeOK, CopyIsDue
  <2> QED BY <1>0, <2>1, <2>2, <2>5
<1> QED BY <1>1, <1>2

(* The row is saved as processing. *)
LEMMA StartIs ==
  ASSUME Base, NEW w \in Workers, Start(w)
  PROVE  \E r, s :
    /\ StepOf(w, r) /\ RowSaved(w, r, s) /\ mail' = mail /\ item' = item /\ met' = met
    /\ req[w].phase = "start" /\ s.state = "processing"
    /\ r # None /\ r.phase = "list" /\ r.done = req[w].done
<1>0. req[w] # None /\ req[w].phase = "start" /\ TypeOK /\ mail' = mail /\ task' = task /\ met' = met /\ item' = item
  BY DEF Start, At, Base
<1>1. batch' = [batch EXCEPT ![req[w].batch] = req[w].row]
  BY DEF Start, SaveRow
<1> DEFINE r == [req[w] EXCEPT !.phase = "list"]
<1>2. req[w] \in Request /\ "list" \in Phases
  BY <1>0, RequestFields DEF Phases
<1>3. /\ r \in Request /\ r # None /\ r.phase = "list" /\ r.batch = req[w].batch
      /\ r.row = req[w].row /\ r.done = req[w].done
  BY <1>2, PhaseChange
<1>4. req' = [req EXCEPT ![w] = r]
  BY DEF Start
<1> HIDE DEF r
<1>5. CopyIsDue(req[w])
  BY <1>0 DEF Base, CopiesAreDue
<1>6. StepOf(w, r)
  BY <1>0, <1>3, <1>4, <1>5 DEF StepOf, TypeOK, CopyIsDue
<1>7. RowSaved(w, r, req[w].row) /\ req[w].row.state = "processing"
  BY <1>0, <1>1, <1>5, RequestFields DEF RowSaved, CopyIsDue
<1> QED BY <1>0, <1>3, <1>6, <1>7

(* The items are read; those that did not succeed are to be visited. *)
LEMMA ListItemsIs ==
  ASSUME Base, NEW w \in Workers, ListItems(w)
  PROVE  \E r :
    /\ StepOf(w, r) /\ RowKept(w, r) /\ mail' = mail /\ item' = item /\ met' = met
    /\ req[w].phase = "list" /\ r # None /\ r.phase = "item"
    /\ r.items = item[req[w].batch] /\ r.todo = ToVisit(r.items) /\ r.done = req[w].done
<1>0. /\ req[w] # None /\ req[w].phase = "list" /\ TypeOK
      /\ mail' = mail /\ task' = task /\ met' = met /\ item' = item /\ batch' = batch
  BY DEF ListItems, At, Base
<1> DEFINE its == item[req[w].batch]
           r == [req[w] EXCEPT !.phase = "item", !.items = its, !.todo = ToVisit(its)]
<1>1. its \in [Mails -> ItemStates \cup {None}] /\ ToVisit(its) \in SUBSET Mails
  BY <1>0, RequestFields DEF TypeOK, ToVisit
<1>2. req' = [req EXCEPT ![w] = r]
  BY DEF ListItems
<1>3. req[w] \in Request /\ "item" \in Phases
  BY <1>0, RequestFields DEF Phases
<1> HIDE DEF its
<1>4. /\ r \in Request /\ r # None /\ r.phase = "item" /\ r.batch = req[w].batch
      /\ r.row = req[w].row /\ r.items = its /\ r.todo = ToVisit(its) /\ r.done = req[w].done
  BY <1>1, <1>3 DEF Request
<1> HIDE DEF r
<1>5. CopyIsDue(req[w])
  BY <1>0 DEF Base, CopiesAreDue
<1>6. StepOf(w, r) /\ RowKept(w, r)
  BY <1>0, <1>2, <1>4, <1>5 DEF StepOf, RowKept, TypeOK, CopyIsDue
<1> QED BY <1>0, <1>4, <1>6 DEF its

(* A statement that is lost disturbs; a step without one adds no fault. *)
LEMMA LostDisturbs ==
  ASSUME TypeOK, Lost \/ Done
  PROVE  /\ met \subseteq met' /\ met' \subseteq Faults \cup {"requeue", "overlap"}
         /\ Lost => ~ Undisturbed'
  BY DEF TypeOK, Lost, Done, Undisturbed

(* An item that can be delivered is to be saved, another one failed. *)
LEMMA ReadMailIs ==
  ASSUME Base, NEW w \in Workers, ReadMail(w)
  PROVE  \E r, m :
    /\ StepOf(w, r) /\ RowKept(w, r) /\ mail' = mail /\ item' = item
    /\ req[w].phase = "item" /\ m \in req[w].todo
    /\ r # None /\ r.cur = m /\ r.todo = req[w].todo \ {m} /\ r.done = req[w].done
    /\ \/ r.phase = "saveMail" /\ r.items = req[w].items
       \/ /\ r.phase = "saveItem" /\ r.items = [req[w].items EXCEPT ![m] = "failed"]
          /\ Undisturbed' => mail[m] = "registered"
<1>0. /\ req[w] # None /\ req[w].phase = "item" /\ TypeOK
      /\ mail' = mail /\ task' = task /\ item' = item /\ batch' = batch
  BY DEF ReadMail, At, Base
<1>1. PICK m \in req[w].todo :
        LET q == [req[w] EXCEPT !.cur = m, !.todo = @ \ {m}] IN
        \/ /\ mail[m] \in {"in_transit", "arrived"} /\ Done
           /\ req' = [req EXCEPT ![w] = [q EXCEPT !.phase = "saveMail"]]
        \/ /\ (mail[m] = "registered" /\ Done) \/ Lost
           /\ req' = [req EXCEPT ![w] = [q EXCEPT !.phase = "saveItem", !.items[m] = "failed"]]
  BY DEF ReadMail
<1>2. /\ met \subseteq met' /\ met' \subseteq Faults \cup {"requeue", "overlap"}
      /\ Lost => ~ Undisturbed'
  BY <1>0, <1>1, LostDisturbs
<1> DEFINE q == [req[w] EXCEPT !.cur = m, !.todo = @ \ {m}]
<1>3. /\ q \in Request /\ q.phase = "item" /\ q.batch = req[w].batch /\ q.row = req[w].row
      /\ q.items = req[w].items /\ q.cur = m /\ q.todo = req[w].todo \ {m} /\ q.done = req[w].done
  BY <1>0, <1>1, RequestFields DEF Request
<1>4. \/ Done /\ req' = [req EXCEPT ![w] = [q EXCEPT !.phase = "saveMail"]]
      \/ /\ (mail[m] = "registered" /\ Done) \/ Lost
         /\ req' = [req EXCEPT ![w] = [q EXCEPT !.phase = "saveItem", !.items[m] = "failed"]]
  BY <1>1
<1>5. CopyIsDue(req[w]) /\ m \in Mails
  BY <1>0, <1>1, RequestFields DEF Base, CopiesAreDue
<1> HIDE DEF q
<1>6. CASE req' = [req EXCEPT ![w] = [q EXCEPT !.phase = "saveMail"]]
  <2> DEFINE r == [q EXCEPT !.phase = "saveMail"]
  <2>1. /\ r \in Request /\ r # None /\ r.phase = "saveMail" /\ r.batch = req[w].batch /\ r.row = req[w].row
        /\ r.items = req[w].items /\ r.cur = m /\ r.todo = req[w].todo \ {m} /\ r.done = req[w].done
    BY <1>3 DEF Request, Phases
  <2>2. req' = [req EXCEPT ![w] = r]
    BY <1>6
  <2> HIDE DEF r
  <2>3. StepOf(w, r) /\ RowKept(w, r)
    BY <1>0, <1>2, <1>5, <2>1, <2>2 DEF StepOf, RowKept, TypeOK, CopyIsDue
  <2> QED BY <1>0, <1>1, <2>1, <2>3
<1>7. CASE /\ (mail[m] = "registered" /\ Done) \/ Lost
           /\ req' = [req EXCEPT ![w] = [q EXCEPT !.phase = "saveItem", !.items[m] = "failed"]]
  <2> DEFINE its == [req[w].items EXCEPT ![m] = "failed"]
             r == [q EXCEPT !.phase = "saveItem", !.items = its]
  <2>0. its \in [Mails -> ItemStates \cup {None}]
    BY <1>0, RequestFields DEF ItemStates
  <2>2. req' = [req EXCEPT ![w] = r]
    BY <1>3, <1>7
  <2>4. its = [req[w].items EXCEPT ![m] = "failed"]
    OBVIOUS
  <2> HIDE DEF its
  <2>5. "saveItem" \in Phases
    BY DEF Phases
  <2>1. /\ r \in Request /\ r # None /\ r.phase = "saveItem" /\ r.batch = req[w].batch /\ r.row = req[w].row
        /\ r.items = its /\ r.cur = m /\ r.todo = req[w].todo \ {m} /\ r.done = req[w].done
    <3>1. /\ r \in Request /\ r.phase = "saveItem" /\ r.batch = q.batch /\ r.row = q.row
          /\ r.items = its /\ r.cur = q.cur /\ r.todo = q.todo /\ r.done = q.done
      BY <1>3, <2>0, <2>5 DEF Request
    <3>2. r # None
      BY <3>1, NoneAssumption
    <3> QED BY <1>3, <3>1, <3>2
  <2> HIDE DEF r
  <2>3. StepOf(w, r) /\ RowKept(w, r)
    BY <1>0, <1>2, <1>5, <2>1, <2>2 DEF StepOf, RowKept, TypeOK, CopyIsDue
  <2>6. Undisturbed' => mail[m] = "registered"
    BY <1>2, <1>7
  <2>7. r.phase = "saveItem" /\ r.items = [req[w].items EXCEPT ![m] = "failed"]
    BY <2>1, <2>4
  <2> QED BY <1>0, <1>1, <2>1, <2>3, <2>6, <2>7
<1> QED BY <1>4, <1>6, <1>7

(* The mail is saved and counts as delivered, or that failed. *)
LEMMA SaveMailIs ==
  ASSUME Base, NEW w \in Workers, SaveMail(w)
  PROVE  \E r :
    /\ StepOf(w, r) /\ RowKept(w, r) /\ item' = item
    /\ req[w].phase = "saveMail" /\ r # None /\ r.phase = "saveItem"
    /\ r.cur = req[w].cur /\ r.todo = req[w].todo
    /\ Undisturbed' => /\ mail' = [mail EXCEPT ![r.cur] = "arrived"]
                       /\ r.done = req[w].done \cup {r.cur}
                       /\ r.items = [req[w].items EXCEPT ![r.cur] = "succeeded"]
<1> DEFINE q == req[w]
<1>0. /\ req[w] # None /\ req[w].phase = "saveMail" /\ TypeOK
      /\ task' = task /\ item' = item /\ batch' = batch
  BY DEF SaveMail, At, Base
<1>1. \/ /\ mail' = [mail EXCEPT ![q.cur] = "arrived"] /\ Done
         /\ req' = [req EXCEPT ![w] = [q EXCEPT !.phase = "saveItem", !.done = @ \cup {q.cur},
                                                !.items[q.cur] = "succeeded"]]
      \/ /\ UNCHANGED mail /\ Lost
         /\ req' = [req EXCEPT ![w] = [q EXCEPT !.phase = "saveItem", !.items[q.cur] = "failed"]]
  BY DEF SaveMail
<1>2. /\ met \subseteq met' /\ met' \subseteq Faults \cup {"requeue", "overlap"}
      /\ Lost => ~ Undisturbed'
  BY <1>0, <1>1, LostDisturbs
<1>3. CopyIsDue(q) /\ q.cur \in Mails /\ q \in Request
  BY <1>0, RequestFields DEF Base, CopiesAreDue, CopyIsDue
<1>4. ASSUME NEW its \in [Mails -> ItemStates \cup {None}], NEW done \in SUBSET Mails,
             req' = [req EXCEPT ![w] = [q EXCEPT !.phase = "saveItem", !.done = done, !.items = its]],
             mail' \in [Mails -> MailStates]
      PROVE  \E r : /\ StepOf(w, r) /\ RowKept(w, r) /\ r # None /\ r.phase = "saveItem"
                    /\ r.cur = q.cur /\ r.todo = q.todo /\ r.done = done /\ r.items = its
  <2> DEFINE r == [q EXCEPT !.phase = "saveItem", !.done = done, !.items = its]
  <2>1. /\ r \in Request /\ r # None /\ r.phase = "saveItem" /\ r.batch = q.batch /\ r.row = q.row
        /\ r.items = its /\ r.cur = q.cur /\ r.todo = q.todo /\ r.done = done
    BY <1>3 DEF Request, Phases
  <2>2. req' = [req EXCEPT ![w] = r]
    BY <1>4
  <2> HIDE DEF r
  <2>3. StepOf(w, r) /\ RowKept(w, r)
    BY <1>0, <1>2, <1>3, <1>4, <2>1, <2>2 DEF StepOf, RowKept, TypeOK, CopyIsDue
  <2> QED BY <2>1, <2>3
<1>5. q.items \in [Mails -> ItemStates \cup {None}] /\ q.done \in SUBSET Mails
  BY <1>0, RequestFields
<1>6. CASE /\ mail' = [mail EXCEPT ![q.cur] = "arrived"]
           /\ req' = [req EXCEPT ![w] = [q EXCEPT !.phase = "saveItem", !.done = @ \cup {q.cur},
                                                  !.items[q.cur] = "succeeded"]]
  <2> DEFINE its == [q.items EXCEPT ![q.cur] = "succeeded"]
             done == q.done \cup {q.cur}
  <2>1. its \in [Mails -> ItemStates \cup {None}] /\ done \in SUBSET Mails
    BY <1>3, <1>5 DEF ItemStates
  <2>2. mail' \in [Mails -> MailStates]
    BY <1>0, <1>6 DEF TypeOK, MailStates
  <2>3. req' = [req EXCEPT ![w] = [q EXCEPT !.phase = "saveItem", !.done = done, !.items = its]]
    BY <1>3, <1>6 DEF Request
  <2>4. \E r : /\ StepOf(w, r) /\ RowKept(w, r) /\ r # None /\ r.phase = "saveItem"
               /\ r.cur = q.cur /\ r.todo = q.todo /\ r.done = done /\ r.items = its
    <3> HIDE DEF its, done
    <3> QED BY <1>4, <2>1, <2>2, <2>3
  <2> QED BY <1>0, <1>6, <2>4
<1>7. CASE /\ UNCHANGED mail /\ Lost
           /\ req' = [req EXCEPT ![w] = [q EXCEPT !.phase = "saveItem", !.items[q.cur] = "failed"]]
  <2> DEFINE its == [q.items EXCEPT ![q.cur] = "failed"]
  <2>1. its \in [Mails -> ItemStates \cup {None}]
    BY <1>3, <1>5 DEF ItemStates
  <2>2. mail' \in [Mails -> MailStates]
    BY <1>0, <1>7 DEF TypeOK
  <2>3. req' = [req EXCEPT ![w] = [q EXCEPT !.phase = "saveItem", !.done = q.done, !.items = its]]
    BY <1>3, <1>7 DEF Request
  <2>4. \E r : /\ StepOf(w, r) /\ RowKept(w, r) /\ r # None /\ r.phase = "saveItem"
               /\ r.cur = q.cur /\ r.todo = q.todo /\ r.done = q.done /\ r.items = its
    <3> HIDE DEF its
    <3> QED BY <1>4, <1>5, <2>1, <2>2, <2>3
  <2> QED BY <1>0, <1>2, <1>7, <2>4
<1> QED BY <1>1, <1>6, <1>7

(* The outcome is recorded on the item's row, or that failed. *)
LEMMA SaveItemIs ==
  ASSUME Base, NEW w \in Workers, SaveItem(w)
  PROVE  \E r :
    /\ StepOf(w, r) /\ RowKept(w, r) /\ mail' = mail
    /\ req[w].phase = "saveItem" /\ r # None /\ r.phase = "item"
    /\ r.items = req[w].items /\ r.todo = req[w].todo /\ r.done = req[w].done
    /\ Undisturbed' =>
         item' = [item EXCEPT ![req[w].batch][req[w].cur] = req[w].items[req[w].cur]]
<1>0. /\ req[w] # None /\ req[w].phase = "saveItem" /\ TypeOK
      /\ task' = task /\ mail' = mail /\ batch' = batch
  BY DEF SaveItem, At, Base
<1>1. \/ item' = [item EXCEPT ![req[w].batch][req[w].cur] = req[w].items[req[w].cur]] /\ Done
      \/ UNCHANGED item /\ Lost
  BY DEF SaveItem
<1>2. /\ met \subseteq met' /\ met' \subseteq Faults \cup {"requeue", "overlap"}
      /\ Lost => ~ Undisturbed'
  BY <1>0, <1>1, LostDisturbs
<1>3. CopyIsDue(req[w]) /\ req[w].cur \in Mails /\ req[w] \in Request /\ "item" \in Phases
  BY <1>0, RequestFields DEF Base, CopiesAreDue, CopyIsDue, Phases
<1>4. /\ item' \in [Batches -> [Mails -> ItemStates \cup {None}]]
      /\ \A b \in Batches \ {req[w].batch} : item'[b] = item[b]
  <2>1. req[w].batch \in Batches /\ req[w].items[req[w].cur] \in ItemStates \cup {None}
    BY <1>0, <1>3, RequestFields
  <2>2. item \in [Batches -> [Mails -> ItemStates \cup {None}]]
    BY <1>0 DEF TypeOK
  <2> QED BY <1>1, <1>3, <2>1, <2>2
<1> DEFINE r == [req[w] EXCEPT !.phase = "item"]
<1>5. /\ r \in Request /\ r # None /\ r.phase = "item" /\ r.batch = req[w].batch /\ r.row = req[w].row
      /\ r.items = req[w].items /\ r.todo = req[w].todo /\ r.done = req[w].done
  BY <1>3, PhaseChange
<1>6. req' = [req EXCEPT ![w] = r]
  BY DEF SaveItem
<1> HIDE DEF r
<1>7. StepOf(w, r) /\ RowKept(w, r)
  BY <1>0, <1>2, <1>3, <1>4, <1>5, <1>6 DEF StepOf, RowKept, TypeOK, CopyIsDue
<1> QED BY <1>0, <1>1, <1>2, <1>5, <1>7

(* With every item visited, the batch has succeeded, or is taken back. *)
LEMMA DecideIs ==
  ASSUME Base, NEW w \in Workers, Decide(w)
  PROVE  \E r, s :
    /\ StepOf(w, r)
    /\ RowKept(w, r) \/ RowSaved(w, r, s)
    /\ mail' = mail /\ item' = item /\ req[w].phase = "item" /\ req[w].todo = {} /\ r # None
    /\ \/ AllSucceeded(req[w].items) /\ r.phase = "complete"
       \/ ~ AllSucceeded(req[w].items) /\ r.phase = "compensate" /\ r.done = req[w].done
<1>0. /\ req[w] # None /\ req[w].phase = "item" /\ req[w].todo = {} /\ TypeOK
      /\ task' = task /\ mail' = mail /\ item' = item
  BY DEF Decide, At, Base
<1>1. CopyIsDue(req[w]) /\ req[w] \in Request
  BY <1>0, RequestFields DEF Base, CopiesAreDue
<1>2. CASE AllSucceeded(req[w].items)
  <2>1. /\ \/ batch' = [batch EXCEPT ![req[w].batch] = Moved(req[w].row, "succeeded")] /\ Done
           \/ UNCHANGED batch /\ Lost
        /\ req' = [req EXCEPT ![w] = [req[w] EXCEPT !.phase = "complete",
                                                    !.row = Moved(Moved(req[w].row, "succeeded"), "completed")]]
    BY <1>2 DEF Decide
  <2>2. met \subseteq met' /\ met' \subseteq Faults \cup {"requeue", "overlap"}
    BY <1>0, <2>1, LostDisturbs
  <2> DEFINE s == Moved(req[w].row, "succeeded")
             row == Moved(s, "completed")
             r == [req[w] EXCEPT !.phase = "complete", !.row = row]
  <2>3. req[w].row \in Batch /\ req[w].row.version + 2 <= MaxVersion /\ req[w].row.version \in Nat
    BY <1>0, <1>1, RequestFields DEF CopyIsDue, Batch
  <2>4. s \in Batch /\ s.state = "succeeded" /\ s.version = req[w].row.version + 1
    BY <2>3, MovedIsBatch DEF BatchStates
  <2>5. row \in Batch /\ row.state = "completed"
    <3> HIDE DEF s
    <3>1. s.version + 1 <= MaxVersion
      BY <2>3, <2>4
    <3> QED BY <2>4, <3>1, MovedIsBatch DEF BatchStates
  <2>6. req' = [req EXCEPT ![w] = r]
    BY <2>1
  <2>7. batch' = [batch EXCEPT ![req[w].batch] = s] \/ batch' = batch
    BY <2>1
  <2> HIDE DEF s, row
  <2>8. r \in Request /\ r # None /\ r.phase = "complete" /\ r.batch = req[w].batch /\ r.row = row
    BY <1>1, <2>5 DEF Request, Phases
  <2> HIDE DEF r
  <2>9. StepOf(w, r)
    BY <1>0, <2>2, <2>5, <2>6, <2>8 DEF StepOf, TypeOK, CopyIsDue
  <2>10. RowKept(w, r) \/ RowSaved(w, r, s)
    BY <1>0, <2>4, <2>7, <2>8 DEF RowKept, RowSaved
  <2> QED BY <1>0, <1>2, <2>8, <2>9, <2>10
<1>3. CASE ~ AllSucceeded(req[w].items)
  <2>1. req' = [req EXCEPT ![w] = [@ EXCEPT !.phase = "compensate"]] /\ UNCHANGED <<batch, met>>
    BY <1>3 DEF Decide
  <2> DEFINE r == [req[w] EXCEPT !.phase = "compensate"]
  <2>2. /\ r \in Request /\ r # None /\ r.phase = "compensate" /\ r.batch = req[w].batch
        /\ r.row = req[w].row /\ r.done = req[w].done
    BY <1>1, PhaseChange DEF Phases
  <2>3. req' = [req EXCEPT ![w] = r]
    BY <2>1
  <2> HIDE DEF r
  <2>4. StepOf(w, r) /\ RowKept(w, r)
    BY <1>0, <1>1, <2>1, <2>2, <2>3 DEF StepOf, RowKept, TypeOK, CopyIsDue
  <2> QED BY <1>0, <1>3, <2>2, <2>4
<1> QED BY <1>2, <1>3

(* The copy goes back whole, and the request is over. *)
LEMMA LastStepIs ==
  ASSUME Base, NEW w \in Workers, Complete(w) \/ RollBack(w)
  PROVE  \E s :
    /\ StepOf(w, None)
    /\ RowKept(w, None) \/ RowSaved(w, None, s)
    /\ mail' = mail /\ item' = item
    /\ \/ Complete(w) /\ req[w].phase = "complete" /\ s.state = "completed"
       \/ RollBack(w) /\ req[w].phase = "rollback" /\ s.state = "rolled_back"
    /\ Undisturbed' => RowSaved(w, None, s)
<1>0. /\ req[w] # None /\ req[w].phase \in {"complete", "rollback"} /\ TypeOK
      /\ task' = task /\ mail' = mail /\ item' = item /\ req' = [req EXCEPT ![w] = None]
      /\ Complete(w) => req[w].phase = "complete"
      /\ RollBack(w) => req[w].phase = "rollback"
  BY DEF Complete, RollBack, At, Base
<1>1. (SaveRow(w) /\ Done) \/ (UNCHANGED batch /\ Lost)
  BY DEF Complete, RollBack
<1>2. /\ met \subseteq met' /\ met' \subseteq Faults \cup {"requeue", "overlap"}
      /\ Lost => ~ Undisturbed'
  BY <1>0, <1>1, LostDisturbs
<1>3. CopyIsDue(req[w]) /\ req[w].row \in Batch
  BY <1>0, RequestFields DEF Base, CopiesAreDue
<1>4. StepOf(w, None)
  BY <1>0, <1>2 DEF StepOf, TypeOK
<1>5. RowKept(w, None) \/ RowSaved(w, None, req[w].row)
  BY <1>1, <1>3 DEF RowKept, RowSaved, SaveRow
<1>6. Undisturbed' => RowSaved(w, None, req[w].row)
  BY <1>1, <1>2, <1>3 DEF RowSaved, SaveRow
<1>7. \/ Complete(w) /\ req[w].phase = "complete" /\ req[w].row.state = "completed"
      \/ RollBack(w) /\ req[w].phase = "rollback" /\ req[w].row.state = "rolled_back"
  BY <1>0, <1>3 DEF CopyIsDue
<1> QED BY <1>0, <1>4, <1>5, <1>6, <1>7

(* Everything is taken back, or the next delivered mail is looked at. *)
LEMMA CompensateIs ==
  ASSUME Base, NEW w \in Workers, Compensate(w)
  PROVE  \E r :
    /\ StepOf(w, r) /\ RowKept(w, r) /\ mail' = mail /\ item' = item
    /\ req[w].phase = "compensate" /\ r # None
    /\ \/ r.phase = "rollback" /\ req[w].done = {}
       \/ /\ r.phase \in {"restoreMail", "restoreItem"}
          /\ r.cur \in req[w].done /\ r.done = req[w].done \ {r.cur}
          /\ Undisturbed' => (r.phase = "restoreMail" <=> mail[r.cur] = "arrived")
<1>0. /\ req[w] # None /\ req[w].phase = "compensate" /\ TypeOK
      /\ batch' = batch /\ task' = task /\ mail' = mail /\ item' = item
  BY DEF Compensate, At, Base
<1>1. CopyIsDue(req[w]) /\ req[w] \in Request
  BY <1>0, RequestFields DEF Base, CopiesAreDue
<1>2. CASE req[w].done = {}
  <2>1. req' = [req EXCEPT ![w] = [req[w] EXCEPT !.phase = "rollback", !.row = RolledBack(req[w].row)]] /\ Done
    BY <1>2 DEF Compensate, ToRestore
  <2>2. met \subseteq met' /\ met' \subseteq Faults \cup {"requeue", "overlap"}
    BY <1>0, <2>1, LostDisturbs
  <2> DEFINE row == RolledBack(req[w].row)
             r == [req[w] EXCEPT !.phase = "rollback", !.row = row]
  <2>3. req[w].row \in Batch /\ req[w].row.version + 1 <= MaxVersion
    BY <1>0, <1>1, RequestFields DEF CopyIsDue, Batch
  <2>4. row \in Batch /\ row.state = "rolled_back"
    BY <2>3, MovedIsBatch DEF RolledBack, BatchStates
  <2>5. req' = [req EXCEPT ![w] = r]
    BY <2>1
  <2> HIDE DEF row
  <2>6. r \in Request /\ r # None /\ r.phase = "rollback" /\ r.batch = req[w].batch /\ r.row = row
    BY <1>1, <2>4 DEF Request, Phases
  <2> HIDE DEF r
  <2>7. StepOf(w, r) /\ RowKept(w, r)
    BY <1>0, <2>2, <2>4, <2>5, <2>6 DEF StepOf, RowKept, TypeOK, CopyIsDue
  <2> QED BY <1>0, <1>2, <2>6, <2>7
<1>3. CASE req[w].done # {}
  <2>1. PICK m \in req[w].done, next \in {"restoreMail", "restoreItem"} :
          /\ \/ (next = "restoreMail" <=> mail[m] = "arrived") /\ Done
             \/ next = "restoreItem" /\ Lost
          /\ req' = [req EXCEPT ![w] = [req[w] EXCEPT !.phase = next, !.cur = m, !.done = @ \ {m}]]
    BY <1>3 DEF Compensate, ToRestore
  <2>2. /\ met \subseteq met' /\ met' \subseteq Faults \cup {"requeue", "overlap"}
        /\ Lost => ~ Undisturbed'
    BY <1>0, <2>1, LostDisturbs
  <2>3. m \in Mails
    BY <1>0, <2>1, RequestFields
  <2> DEFINE r == [req[w] EXCEPT !.phase = next, !.cur = m, !.done = @ \ {m}]
  <2>4. /\ r \in Request /\ r # None /\ r.phase = next /\ r.batch = req[w].batch /\ r.row = req[w].row
        /\ r.cur = m /\ r.done = req[w].done \ {m}
    <3>1. req[w].done \ {m} \in SUBSET Mails /\ next \in Phases
      BY <1>0, RequestFields DEF Phases
    <3> QED BY <1>1, <2>3, <3>1 DEF Request
  <2>5. req' = [req EXCEPT ![w] = r]
    BY <2>1
  <2> HIDE DEF r
  <2>6. StepOf(w, r) /\ RowKept(w, r)
    BY <1>0, <1>1, <2>1, <2>2, <2>3, <2>4, <2>5 DEF StepOf, RowKept, TypeOK, CopyIsDue
  <2>7. Undisturbed' => (next = "restoreMail" <=> mail[m] = "arrived")
    BY <2>1, <2>2
  <2> QED BY <1>0, <2>1, <2>4, <2>6, <2>7
<1> QED BY <1>2, <1>3

(* The mail is on its way again, or that failed. *)
LEMMA RestoreMailIs ==
  ASSUME Base, NEW w \in Workers, RestoreMail(w)
  PROVE  \E r :
    /\ StepOf(w, r) /\ RowKept(w, r) /\ item' = item
    /\ req[w].phase = "restoreMail" /\ r # None /\ r.phase = "restoreItem"
    /\ r.cur = req[w].cur /\ r.done = req[w].done
    /\ Undisturbed' => mail' = [mail EXCEPT ![r.cur] = "in_transit"]
<1>0. /\ req[w] # None /\ req[w].phase = "restoreMail" /\ TypeOK
      /\ batch' = batch /\ task' = task /\ item' = item
  BY DEF RestoreMail, At, Base
<1>1. CopyIsDue(req[w]) /\ req[w] \in Request /\ req[w].cur \in Mails
  BY <1>0, RequestFields DEF Base, CopiesAreDue, CopyIsDue
<1>2. \/ mail' = [mail EXCEPT ![req[w].cur] = "in_transit"] /\ Done
      \/ mail' = mail /\ Lost
  BY DEF RestoreMail
<1>3. /\ met \subseteq met' /\ met' \subseteq Faults \cup {"requeue", "overlap"}
      /\ Lost => ~ Undisturbed'
  BY <1>0, <1>2, LostDisturbs
<1>4. mail' \in [Mails -> MailStates]
  BY <1>0, <1>2 DEF TypeOK, MailStates
<1> DEFINE r == [req[w] EXCEPT !.phase = "restoreItem"]
<1>5. /\ r \in Request /\ r # None /\ r.phase = "restoreItem" /\ r.batch = req[w].batch
      /\ r.row = req[w].row /\ r.cur = req[w].cur /\ r.done = req[w].done
  BY <1>1, PhaseChange DEF Phases
<1>6. req' = [req EXCEPT ![w] = r]
  BY DEF RestoreMail
<1> HIDE DEF r
<1>7. StepOf(w, r) /\ RowKept(w, r)
  BY <1>0, <1>1, <1>3, <1>4, <1>5, <1>6 DEF StepOf, RowKept, TypeOK, CopyIsDue
<1> QED BY <1>0, <1>2, <1>3, <1>5, <1>7

(* The item counts as rolled back, or that failed. *)
LEMMA RestoreItemIs ==
  ASSUME Base, NEW w \in Workers, RestoreItem(w)
  PROVE  \E r :
    /\ StepOf(w, r) /\ RowKept(w, r) /\ mail' = mail
    /\ req[w].phase = "restoreItem" /\ r # None /\ r.phase = "compensate" /\ r.done = req[w].done
    /\ Undisturbed' => item' = [item EXCEPT ![req[w].batch][req[w].cur] = "rolled_back"]
<1>0. /\ req[w] # None /\ req[w].phase = "restoreItem" /\ TypeOK
      /\ batch' = batch /\ task' = task /\ mail' = mail
  BY DEF RestoreItem, At, Base
<1>1. CopyIsDue(req[w]) /\ req[w] \in Request /\ req[w].batch \in Batches
  BY <1>0, RequestFields DEF Base, CopiesAreDue
<1>2. \/ item' = [item EXCEPT ![req[w].batch][req[w].cur] = "rolled_back"] /\ Done
      \/ item' = item /\ Lost
  BY DEF RestoreItem
<1>3. /\ met \subseteq met' /\ met' \subseteq Faults \cup {"requeue", "overlap"}
      /\ Lost => ~ Undisturbed'
  BY <1>0, <1>2, LostDisturbs
<1>4. /\ item' \in [Batches -> [Mails -> ItemStates \cup {None}]]
      /\ \A b \in Batches \ {req[w].batch} : item'[b] = item[b]
  <2>1. item \in [Batches -> [Mails -> ItemStates \cup {None}]]
    BY <1>0 DEF TypeOK
  <2> QED BY <1>1, <1>2, <2>1 DEF ItemStates
<1> DEFINE r == [req[w] EXCEPT !.phase = "compensate"]
<1>5. /\ r \in Request /\ r # None /\ r.phase = "compensate" /\ r.batch = req[w].batch
      /\ r.row = req[w].row /\ r.done = req[w].done
  BY <1>1, PhaseChange DEF Phases
<1>6. req' = [req EXCEPT ![w] = r]
  BY DEF RestoreItem
<1> HIDE DEF r
<1>7. StepOf(w, r) /\ RowKept(w, r)
  BY <1>0, <1>1, <1>3, <1>4, <1>5, <1>6 DEF StepOf, RowKept, TypeOK, CopyIsDue
<1> QED BY <1>0, <1>2, <1>3, <1>5, <1>7

(* A request that stops half way disturbs, and leaves the rows as they are. *)
LEMMA FailIs ==
  ASSUME Base, NEW w \in Workers, Fail(w)
  PROVE  StepOf(w, None) /\ RowKept(w, None) /\ ~ Undisturbed'
<1>1. TypeOK
  BY DEF Base
<1> QED BY <1>1 DEF Fail, StepOf, RowKept, Undisturbed, TypeOK

-----------------------------------------------------------------------------
(* The other steps: a request begins, the task, the truck *)

(* A new batch has one request, which creates its items. *)
LEMMA CreateIs ==
  ASSUME Base, NEW w \in Workers, NEW b \in Batches, NEW ms \in SUBSET Mails, Create(w, b, ms)
  PROVE  \E r \in Request :
    /\ req[w] = None /\ req' = [req EXCEPT ![w] = r]
    /\ r.phase = "create" /\ r.batch = b /\ r.todo = ms /\ CopyIsDue(r)
    /\ batch[b] = None /\ batch' = [batch EXCEPT ![b] = r.row] /\ r.row.state = "pending"
    /\ item' = item /\ mail' = mail /\ task' = task /\ met' = met
<1> DEFINE row == [state |-> "pending", version |-> 1]
           its == [m \in Mails |-> None]
           r == [phase |-> "create", batch |-> b, row |-> row, items |-> its,
                 todo |-> ms, done |-> {}, cur |-> None]
<1>1. /\ req[w] = None /\ req' = [req EXCEPT ![w] = r]
      /\ batch[b] = None /\ batch' = [batch EXCEPT ![b] = row]
      /\ item' = item /\ mail' = mail /\ task' = task /\ met' = met
  BY DEF Create
<1>2. row \in Batch /\ row.state = "pending"
  BY DEF Batch, BatchStates
<1>3. its \in [Mails -> ItemStates \cup {None}]
  OBVIOUS
<1> HIDE DEF row, its
<1>4. r \in Request /\ r.phase = "create" /\ r.batch = b /\ r.todo = ms /\ r.row = row
  BY <1>2, <1>3 DEF Request, Phases
<1> HIDE DEF r
<1> QED BY <1>1, <1>2, <1>4 DEF CopyIsDue

(* A batch that may be processed gets a request, an overlap is noted. *)
LEMMA ProcessIs ==
  ASSUME Base, NEW w \in Workers, NEW b \in Batches, Process(w, b)
  PROVE  \E r \in Request :
    /\ req[w] = None /\ req' = [req EXCEPT ![w] = r]
    /\ r.phase = "start" /\ r.batch = b /\ r.done = {} /\ CopyIsDue(r)
    /\ batch[b] # None /\ batch[b].state \notin {"completed", "succeeded"}
    /\ batch' = batch /\ item' = item /\ mail' = mail /\ task' = task
    /\ met' = IF \E v \in Workers : req[v] # None /\ req[v].batch = b
              THEN met \cup {"overlap"} ELSE met
<1> DEFINE row == Moved(batch[b], "processing")
           its == [m \in Mails |-> None]
           r == [phase |-> "start", batch |-> b, row |-> row, items |-> its,
                 todo |-> {}, done |-> {}, cur |-> None]
<1>1. /\ req[w] = None /\ req' = [req EXCEPT ![w] = r]
      /\ batch[b] # None /\ batch[b].version + 3 <= MaxVersion
      /\ Validate(batch[b].state, "processing")
      /\ batch' = batch /\ item' = item /\ mail' = mail /\ task' = task
      /\ met' = IF \E v \in Workers : req[v] # None /\ req[v].batch = b
                THEN met \cup {"overlap"} ELSE met
  BY DEF Process
<1>2. batch[b] \in Batch /\ batch[b].version \in Nat
  BY <1>1 DEF Base, TypeOK, Batch
<1>3. batch[b].version + 1 <= MaxVersion /\ batch[b].version + 1 + 2 <= MaxVersion
  BY <1>1, <1>2
<1>4. row \in Batch /\ row.state = "processing" /\ row.version = batch[b].version + 1
  BY <1>2, <1>3, MovedIsBatch DEF BatchStates
<1>5. batch[b].state \notin {"completed", "succeeded"}
  BY <1>1 DEF Validate, Transitions
<1>6. its \in [Mails -> ItemStates \cup {None}]
  OBVIOUS
<1> HIDE DEF row, its
<1>7. r \in Request /\ r.phase = "start" /\ r.batch = b /\ r.done = {} /\ r.row = row
  BY <1>4, <1>6 DEF Request, Phases
<1> HIDE DEF r
<1>8. CopyIsDue(r)
  BY <1>3, <1>4, <1>7 DEF CopyIsDue
<1> QED BY <1>1, <1>5, <1>7, <1>8

(* A rolled back batch goes back as pending; otherwise a requeue is noted. *)
LEMMA RequeueIs ==
  ASSUME Base, NEW t \in Tasks, NEW b \in Batches, Requeue(t, b)
  PROVE  \E s \in Batch :
    /\ (batch[b] = task[t][b] /\ batch[b].state = "rolled_back") \/ "requeue" \in met'
    /\ s.state = "pending" /\ batch' = [batch EXCEPT ![b] = s]
    /\ task' = [task EXCEPT ![t][b] = None]
    /\ met \subseteq met' /\ met' \subseteq met \cup {"requeue"}
    /\ item' = item /\ mail' = mail /\ req' = req
<1>1. /\ task[t][b] # None /\ task[t][b] \in Batch
      /\ task[t][b].state = "rolled_back" /\ task[t][b].version + 1 <= MaxVersion
  BY DEF Requeue, Base, TypeOK, CopiesAreDue
<1>2. Moved(task[t][b], "pending") \in Batch /\ Moved(task[t][b], "pending").state = "pending"
  BY <1>1, MovedIsBatch DEF BatchStates
<1> QED BY <1>1, <1>2 DEF Requeue

(* A new batch keeps the types, and its request is the first one on it. *)
LEMMA CreateKeepsBase ==
  ASSUME Base, NEW w \in Workers, NEW b \in Batches, NEW ms \in SUBSET Mails, Create(w, b, ms)
  PROVE  Base'
<1> USE DEF Base
<1>1. PICK r \in Request :
        /\ req[w] = None /\ req' = [req EXCEPT ![w] = r]
        /\ r.phase = "create" /\ r.batch = b /\ r.todo = ms /\ CopyIsDue(r)
        /\ batch[b] = None /\ batch' = [batch EXCEPT ![b] = r.row] /\ r.row.state = "pending"
        /\ item' = item /\ mail' = mail /\ task' = task /\ met' = met
  BY CreateIs
<1>2. r.row \in Batch /\ r # None
  BY DEF Request
<1>3. /\ req'[w] = r /\ \A v \in Workers : v # w => req'[v] = req[v]
      /\ batch'[b] = r.row /\ \A c \in Batches : c # b => batch'[c] = batch[c]
  BY <1>1 DEF TypeOK
<1>4. TypeOK'
  BY <1>1, <1>2 DEF TypeOK
<1>5. CopiesAreDue'
  BY <1>1, <1>3 DEF CopiesAreDue, CopyIsDue
<1>6. \A v \in Workers : req[v] # None => req[v].batch \in Batches /\ req[v].batch # b
  BY <1>1 DEF RowsExist, TypeOK, Request
<1>7. RowsExist'
  BY <1>1, <1>2, <1>3, <1>6 DEF RowsExist
<1>8. RequestsTakeTurns'
  BY <1>1, <1>2, <1>3, <1>6 DEF RequestsTakeTurns
<1> QED BY <1>4, <1>5, <1>7, <1>8

(* A request that begins on a busy batch is an overlap. *)
LEMMA ProcessKeepsBase ==
  ASSUME Base, NEW w \in Workers, NEW b \in Batches, Process(w, b)
  PROVE  Base'
<1> USE DEF Base
<1>1. PICK r \in Request :
        /\ req[w] = None /\ req' = [req EXCEPT ![w] = r]
        /\ r.phase = "start" /\ r.batch = b /\ r.done = {} /\ CopyIsDue(r)
        /\ batch[b] # None /\ batch[b].state \notin {"completed", "succeeded"}
        /\ batch' = batch /\ item' = item /\ mail' = mail /\ task' = task
        /\ met' = IF \E v \in Workers : req[v] # None /\ req[v].batch = b
                  THEN met \cup {"overlap"} ELSE met
  BY ProcessIs
<1>2. req'[w] = r /\ \A v \in Workers : v # w => req'[v] = req[v]
  BY <1>1 DEF TypeOK
<1>3. TypeOK'
  BY <1>1 DEF TypeOK
<1>4. CopiesAreDue'
  BY <1>1, <1>2 DEF CopiesAreDue, CopyIsDue
<1>5. RowsExist'
  BY <1>1, <1>2 DEF RowsExist
<1>6. "overlap" \notin met' =>
        "overlap" \notin met /\ \A v \in Workers : req[v] # None => req[v].batch # b
  BY <1>1
<1>7. RequestsTakeTurns'
  BY <1>1, <1>2, <1>6 DEF RequestsTakeTurns
<1> QED BY <1>3, <1>4, <1>5, <1>7

(* What the task writes back is pending and within the bound. *)
LEMMA RequeueKeepsBase ==
  ASSUME Base, NEW t \in Tasks, NEW b \in Batches, Requeue(t, b)
  PROVE  Base'
<1> USE DEF Base
<1>1. PICK s \in Batch :
        /\ (batch[b] = task[t][b] /\ batch[b].state = "rolled_back") \/ "requeue" \in met'
        /\ s.state = "pending" /\ batch' = [batch EXCEPT ![b] = s]
        /\ task' = [task EXCEPT ![t][b] = None]
        /\ met \subseteq met' /\ met' \subseteq met \cup {"requeue"}
        /\ item' = item /\ mail' = mail /\ req' = req
  BY RequeueIs
<1>2. batch'[b] = s /\ s # None /\ \A c \in Batches : c # b => batch'[c] = batch[c]
  BY <1>1 DEF TypeOK
<1>3. TypeOK'
  <2>1. batch' \in [Batches -> Batch \cup {None}] /\ task' \in [Tasks -> [Batches -> Batch \cup {None}]]
    BY <1>1 DEF TypeOK
  <2> QED BY <1>1, <2>1 DEF TypeOK
<1>4. CopiesAreDue'
  BY <1>1 DEF CopiesAreDue, CopyIsDue, TypeOK
<1>5. \A v \in Workers : req[v] # None => req[v].batch \in Batches
  BY DEF TypeOK, Request
<1>6. RowsExist'
  BY <1>1, <1>2, <1>5 DEF RowsExist
<1>7. RequestsTakeTurns'
  BY <1>1, <1>2, <1>5 DEF RequestsTakeTurns
<1> QED BY <1>3, <1>4, <1>6, <1>7

(* The task lists copies of rolled back rows that can be counted up. *)
LEMMA ListKeepsBase ==
  ASSUME Base, NEW t \in Tasks, List(t)
  PROVE  Base'
<1> USE DEF Base
<1> DEFINE rows == [b \in Batches |-> IF batch[b] # None /\ batch[b].state = "rolled_back"
                                         /\ batch[b].version < MaxVersion
                                      THEN batch[b] ELSE None]
<1>1. task' = [task EXCEPT ![t] = rows] /\ UNCHANGED <<batch, item, mail, req, met>>
  BY DEF List
<1>2. /\ rows \in [Batches -> Batch \cup {None}]
      /\ \A b \in Batches : rows[b] # None => rows[b].state = "rolled_back" /\ rows[b].version + 1 <= MaxVersion
  BY DEF TypeOK, Batch
<1> HIDE DEF rows
<1>3. TypeOK'
  BY <1>1, <1>2 DEF TypeOK
<1>4. CopiesAreDue'
  BY <1>1, <1>2 DEF CopiesAreDue, CopyIsDue, TypeOK
<1> QED BY <1>1, <1>3, <1>4 DEF RowsExist, RequestsTakeTurns

(* A truck that leaves changes a mail only. *)
LEMMA DepartKeepsBase ==
  ASSUME Base, NEW m \in Mails, Depart(m)
  PROVE  Base'
  BY DEF Depart, Base, TypeOK, MailStates, CopiesAreDue, CopyIsDue, RowsExist, RequestsTakeTurns

(* The steps of a request in flight keep what holds whatever fails. *)
LEMMA WorkerKeepsBase ==
  ASSUME Base, NEW w \in Workers, Steps(w) \/ Fail(w)
  PROVE  Base'
<1>1. CASE CreateItem(w)
  BY <1>1, CreateItemIs, StepKeepsBase
<1>2. CASE Start(w)
  BY <1>2, StartIs, StepKeepsBase
<1>3. CASE ListItems(w)
  BY <1>3, ListItemsIs, StepKeepsBase
<1>4. CASE ReadMail(w)
  BY <1>4, ReadMailIs, StepKeepsBase
<1>5. CASE SaveMail(w)
  BY <1>5, SaveMailIs, StepKeepsBase
<1>6. CASE SaveItem(w)
  BY <1>6, SaveItemIs, StepKeepsBase
<1>7. CASE Decide(w)
  BY <1>7, DecideIs, StepKeepsBase
<1>8. CASE Complete(w) \/ RollBack(w)
  BY <1>8, LastStepIs, StepKeepsBase
<1>9. CASE Compensate(w)
  BY <1>9, CompensateIs, StepKeepsBase
<1>10. CASE RestoreMail(w)
  BY <1>10, RestoreMailIs, StepKeepsBase
<1>11. CASE RestoreItem(w)
  BY <1>11, RestoreItemIs, StepKeepsBase
<1>12. CASE Fail(w)
  BY <1>12, FailIs, StepKeepsBase
<1> QED BY <1>1, <1>2, <1>3, <1>4, <1>5, <1>6, <1>7, <1>8, <1>9, <1>10, <1>11, <1>12 DEF Steps

(* What holds whatever fails is inductive on its own. *)
LEMMA NextKeepsBase == Base /\ [Next]_vars => Base'
<1> SUFFICES ASSUME Base, [Next]_vars PROVE Base'
  OBVIOUS
<1>1. CASE UNCHANGED vars
  BY <1>1 DEF vars, Base, TypeOK, CopiesAreDue, CopyIsDue, RowsExist, RequestsTakeTurns
<1>2. ASSUME NEW w \in Workers, NEW b \in Batches, Process(w, b) PROVE Base'
  BY <1>2, ProcessKeepsBase
<1>3. ASSUME NEW w \in Workers, NEW b \in Batches, NEW ms \in SUBSET Mails, Create(w, b, ms) PROVE Base'
  BY <1>3, CreateKeepsBase
<1>4. ASSUME NEW w \in Workers, Steps(w) \/ Fail(w) PROVE Base'
  BY <1>4, WorkerKeepsBase
<1>5. ASSUME NEW t \in Tasks, List(t) PROVE Base'
  BY <1>5, ListKeepsBase
<1>6. ASSUME NEW t \in Tasks, NEW b \in Batches, Requeue(t, b) PROVE Base'
  BY <1>6, RequeueKeepsBase
<1>7. ASSUME NEW m \in Mails, Depart(m) PROVE Base'
  BY <1>7, DepartKeepsBase
<1> QED BY <1>1, <1>2, <1>3, <1>4, <1>5, <1>6, <1>7 DEF Next

-----------------------------------------------------------------------------
(* What holds while nothing is disturbed *)

(* What disturbs stays, and requests took their turns so far. *)
LEMMA UndisturbedBefore ==
  ASSUME Undisturbed', met \subseteq met'
  PROVE  Undisturbed /\ "overlap" \notin met
  BY DEF Undisturbed

(* Rows of items stay, so what is shared stays shared. *)
LEMMA SharedStays ==
  ASSUME \A b \in Batches, m \in Mails : item[b][m] # None => item'[b][m] # None
  PROVE  SharedMails \subseteq SharedMails'
  BY DEF SharedMails, Shared

(* A step of one request that keeps its own batch sound keeps the others     *)
(* sound: no other request is at work on the batch, and a mail it moves that *)
(* is in another batch as well is shared.                                    *)
LEMMA StepKeepsSound ==
  ASSUME Base, Undisturbed, Sound, NEW w \in Workers, NEW r, StepOf(w, r),
         NEW b \in Batches, b = req[w].batch,
         \A c \in Batches : c # b => batch'[c] = batch[c],
         \A m \in Mails : item[b][m] # None => item'[b][m] # None,
         \A m \in Mails : (mail'[m] = "arrived" <=> mail[m] = "arrived") \/ item[b][m] # None,
         RequestIsSound(w)', BatchIsSound(b)'
  PROVE  Sound'
<1>1. /\ TypeOK /\ req'[w] = r /\ \A v \in Workers : v # w => req'[v] = req[v]
      /\ r # None => r.batch = b
      /\ \A c \in Batches : c # b => item'[c] = item[c]
  BY DEF Base, TypeOK, StepOf
<1>2. \A v \in Workers : v # w /\ req[v] # None => req[v].batch \in Batches /\ req[v].batch # b
  BY <1>1 DEF Base, TypeOK, Request, RequestsTakeTurns, Undisturbed, StepOf
<1>3. \A c \in Batches, m \in Mails : item[c][m] # None => item'[c][m] # None
  BY <1>1
<1>4. SharedMails \subseteq SharedMails'
  BY <1>3, SharedStays
<1>5. ASSUME NEW c \in Batches, c # b, NEW m \in Mails, item[c][m] # None
      PROVE  m \in SharedMails' \/ (mail'[m] = "arrived" <=> mail[m] = "arrived")
  BY <1>3, <1>5 DEF SharedMails, Shared
<1>6. \A v \in Workers : RequestIsSound(v)'
  <2>1. ASSUME NEW v \in Workers, v # w, req[v] # None
        PROVE  RequestIsSound(v)'
    <3> DEFINE q == req[v]  c == q.batch
    <3>1. /\ c \in Batches /\ c # b /\ item'[c] = item[c] /\ req'[v] = q /\ RequestIsSound(v)
      BY <1>1, <1>2, <2>1 DEF Sound
    <3>2. \A m \in Mails : item[c][m] # None =>
            m \in SharedMails' \/ (mail'[m] = "arrived" <=> mail[m] = "arrived")
      BY <1>5, <3>1
    <3>3. q.phase \in Late => Agree(c, CreditedMails(q), ArrivedMails(q))
      BY <2>1, <3>1 DEF RequestIsSound
    <3>4. q.phase \in Late => \A m \in Mails : item'[c][m] # None =>
            /\ item'[c][m] = "succeeded" <=> m \in CreditedMails(q)
            /\ m \in SharedMails' \/ (mail'[m] = "arrived" <=> m \in ArrivedMails(q))
      BY <1>4, <3>1, <3>2, <3>3 DEF Agree
    <3>5. q.phase \in {"item", "saveMail", "saveItem"} => Books(q)
      BY <2>1, <3>1 DEF RequestIsSound
    <3>6. (q.phase \in Late => Agree(c, CreditedMails(q), ArrivedMails(q)))'
      BY <3>1, <3>4 DEF Agree, CreditedMails, ArrivedMails, Succeeded
    <3>7. (q.phase \in {"item", "saveMail", "saveItem"} => Books(q))'
      BY <3>1, <3>5 DEF Books, Succeeded
    <3>8. RequestIsSound(v)
      BY <3>1
    <3> QED BY <2>1, <3>1, <3>6, <3>7, <3>8 DEF RequestIsSound
  <2>2. ASSUME NEW v \in Workers, v # w, req[v] = None
        PROVE  RequestIsSound(v)'
    BY <1>1, <2>2 DEF RequestIsSound
  <2> QED BY <2>1, <2>2
<1>7. ASSUME NEW c \in Batches PROVE BatchIsSound(c)'
  <2>1. CASE c = b
    BY <2>1
  <2>2. CASE c # b
    <3> SUFFICES ASSUME batch'[c] # None,
                        \A v \in Workers : req'[v] # None /\ req'[v].batch = c => req'[v].phase \notin Late
                 PROVE  Settled(c)'
      BY DEF BatchIsSound
    <3>1. batch[c] = batch'[c] /\ item'[c] = item[c]
      BY <1>1, <2>2
    <3>2. \A v \in Workers : req[v] # None /\ req[v].batch = c => req[v].phase \notin Late
      BY <1>1, <2>2
    <3>3. Settled(c)
      BY <3>1, <3>2 DEF Sound, BatchIsSound
    <3> QED BY <1>4, <1>5, <2>2, <3>1, <3>3 DEF Settled, Agree
  <2> QED BY <2>1, <2>2
<1>8. MailsHaveItems'
  BY <1>3 DEF Sound, MailsHaveItems
<1> QED BY <1>6, <1>7, <1>8 DEF Sound

(* The step of a request that stays at work on its batch. *)
LEMMA LateKeepsSound ==
  ASSUME Base, Undisturbed, Sound, NEW w \in Workers, NEW r, StepOf(w, r), r # None, r.phase \in Late,
         \A c \in Batches : c # req[w].batch => batch'[c] = batch[c],
         \A m \in Mails : item[req[w].batch][m] # None => item'[req[w].batch][m] # None,
         \A m \in Mails : (mail'[m] = "arrived" <=> mail[m] = "arrived") \/ item[req[w].batch][m] # None,
         RequestIsSound(w)'
  PROVE  Sound'
<1> DEFINE b == req[w].batch
<1>1. req'[w] = r /\ r.batch = b /\ b \in Batches
  BY DEF Base, TypeOK, Request, StepOf
<1>2. BatchIsSound(b)'
  BY <1>1 DEF BatchIsSound
<1> QED BY <1>1, <1>2, StepKeepsSound

(* A request of its own, before and after the step. *)
LEMMA OwnFacts ==
  ASSUME Base, Sound, NEW w \in Workers, NEW r, StepOf(w, r)
  PROVE  /\ req[w] # None /\ req'[w] = r /\ (r # None => r \in Request /\ r.batch = req[w].batch)
         /\ RequestIsSound(w)
         /\ req[w] \in Request /\ req[w].batch \in Batches
         /\ req[w].items \in [Mails -> ItemStates \cup {None}]
         /\ req[w].todo \subseteq Mails /\ req[w].done \subseteq Mails
         /\ item \in [Batches -> [Mails -> ItemStates \cup {None}]] /\ mail \in [Mails -> MailStates]
         /\ batch \in [Batches -> Batch \cup {None}]
  BY RequestFields DEF Base, Sound, StepOf, TypeOK

(* A missing item has no state. *)
LEMMA NoneIsNoState == None \notin {"pending", "succeeded", "failed", "rolled_back"}
  BY DEF ItemStates

(* Looking at a mail delivers nothing. *)
LEMMA ReadMailKeepsSound ==
  ASSUME Base, Undisturbed, Sound, Undisturbed', NEW w \in Workers, ReadMail(w)
  PROVE  Sound'
<1>1. PICK r, m :
        /\ StepOf(w, r) /\ RowKept(w, r) /\ mail' = mail /\ item' = item
        /\ req[w].phase = "item" /\ m \in req[w].todo
        /\ r # None /\ r.cur = m /\ r.todo = req[w].todo \ {m} /\ r.done = req[w].done
        /\ \/ r.phase = "saveMail" /\ r.items = req[w].items
           \/ /\ r.phase = "saveItem" /\ r.items = [req[w].items EXCEPT ![m] = "failed"]
              /\ Undisturbed' => mail[m] = "registered"
  BY ReadMailIs
<1> DEFINE q == req[w]  b == q.batch  its == q.items
<1>2. /\ q # None /\ req'[w] = r /\ r.batch = b /\ RequestIsSound(w) /\ b \in Batches
      /\ its \in [Mails -> ItemStates \cup {None}] /\ m \in Mails /\ q.todo \subseteq Mails
  BY <1>1, OwnFacts
<1>3. Books(q) /\ Agree(b, Succeeded(q), Succeeded(q))
  BY <1>1, <1>2 DEF RequestIsSound, Late, CreditedMails, ArrivedMails
<1>4. its[m] \notin {None, "succeeded"} /\ q.done = Succeeded(q)
  BY <1>1, <1>3 DEF Books
<1>5. Succeeded(r) = Succeeded(q)
  BY <1>1, <1>2, <1>4 DEF Succeeded
<1>6. /\ \A x \in Mails : x # m => r.items[x] = its[x]
      /\ \/ r.items[m] = its[m] /\ r.phase = "saveMail"
         \/ r.items[m] = "failed" /\ r.phase = "saveItem"
  BY <1>1, <1>2
<1>7. Books(r)
  <2>1. /\ r.batch = b /\ r.cur = m /\ r.todo = q.todo \ {m} /\ r.done = Succeeded(r)
        /\ r.phase \in {"saveMail", "saveItem"} /\ q.phase = "item" /\ m \in Mails /\ m \in q.todo
        /\ q.todo \subseteq Mails
    BY <1>1, <1>2, <1>4, <1>5
  <2> QED BY <1>3, <1>4, <1>6, <2>1, NoneIsNoState DEF Books
<1>8. CreditedMails(r) = Succeeded(q) /\ ArrivedMails(r) = Succeeded(q)
  BY <1>1, <1>4, <1>5 DEF CreditedMails, ArrivedMails, Succeeded
<1>9. SharedMails' = SharedMails
  BY <1>1 DEF SharedMails, Shared
<1>10. RequestIsSound(w)'
  <2> HIDE DEF q, b, its
  <2>1. Agree(b, CreditedMails(r), ArrivedMails(r))
    BY <1>3, <1>8
  <2> QED BY <1>1, <1>2, <1>7, <1>9, <2>1
       DEF RequestIsSound, Agree, Books, CreditedMails, ArrivedMails, Succeeded
<1> QED BY <1>1, <1>10, LateKeepsSound DEF RowKept, Late

(* The mail arrives before its item is credited. *)
LEMMA SaveMailKeepsSound ==
  ASSUME Base, Undisturbed, Sound, Undisturbed', NEW w \in Workers, SaveMail(w)
  PROVE  Sound'
<1>1. PICK r :
        /\ StepOf(w, r) /\ RowKept(w, r) /\ item' = item
        /\ req[w].phase = "saveMail" /\ r # None /\ r.phase = "saveItem"
        /\ r.cur = req[w].cur /\ r.todo = req[w].todo
        /\ Undisturbed' => /\ mail' = [mail EXCEPT ![r.cur] = "arrived"]
                           /\ r.done = req[w].done \cup {r.cur}
                           /\ r.items = [req[w].items EXCEPT ![r.cur] = "succeeded"]
  BY SaveMailIs
<1> DEFINE q == req[w]  b == q.batch  its == q.items  m == q.cur
<1>2. /\ q # None /\ req'[w] = r /\ r.batch = b /\ RequestIsSound(w) /\ b \in Batches
      /\ its \in [Mails -> ItemStates \cup {None}] /\ q.todo \subseteq Mails /\ mail \in [Mails -> MailStates]
  BY <1>1, OwnFacts
<1>3. Books(q) /\ Agree(b, Succeeded(q), Succeeded(q)) /\ m \in Mails
  BY <1>1, <1>2 DEF RequestIsSound, Late, CreditedMails, ArrivedMails, Base, CopiesAreDue, CopyIsDue
<1>4. its[m] \notin {None, "succeeded"} /\ m \notin q.todo /\ q.done = Succeeded(q) /\ item[b][m] # None
  BY <1>1, <1>3 DEF Books
<1>5. /\ \A x \in Mails : x # m => r.items[x] = its[x] /\ mail'[x] = mail[x]
      /\ r.items[m] = "succeeded" /\ mail'[m] = "arrived"
      /\ r.cur = m /\ r.todo = q.todo /\ r.done = q.done \cup {m} /\ r.phase = "saveItem" /\ q.phase = "saveMail"
  BY <1>1, <1>2, <1>3
<1>6. Succeeded(r) = Succeeded(q) \cup {m} /\ m \notin Succeeded(q)
  BY <1>3, <1>4, <1>5 DEF Succeeded
<1> HIDE DEF q, b, its, m
<1>7. Books(r)
  BY <1>2, <1>3, <1>4, <1>5, <1>6, NoneIsNoState DEF Books, its, m, b
<1>8. CreditedMails(r) = Succeeded(q) /\ ArrivedMails(r) = Succeeded(q) \cup {m}
  BY <1>5, <1>6 DEF CreditedMails, ArrivedMails
<1>9. SharedMails' = SharedMails
  BY <1>1 DEF SharedMails, Shared
<1>10. RequestIsSound(w)'
  <2>1. \A x \in Mails : item'[b][x] # None =>
          /\ item'[b][x] = "succeeded" <=> x \in CreditedMails(r)
          /\ x \in SharedMails' \/ (mail'[x] = "arrived" <=> x \in ArrivedMails(r))
    BY <1>1, <1>3, <1>5, <1>8, <1>9 DEF Agree
  <2> QED BY <1>1, <1>2, <1>7, <2>1
       DEF RequestIsSound, Agree, Books, CreditedMails, ArrivedMails, Succeeded
<1> QED BY <1>1, <1>4, <1>5, <1>10, LateKeepsSound DEF RowKept, Late, q, b, m

(* The item is credited as its copy says. *)
LEMMA SaveItemKeepsSound ==
  ASSUME Base, Undisturbed, Sound, Undisturbed', NEW w \in Workers, SaveItem(w)
  PROVE  Sound'
<1>1. PICK r :
        /\ StepOf(w, r) /\ RowKept(w, r) /\ mail' = mail
        /\ req[w].phase = "saveItem" /\ r # None /\ r.phase = "item"
        /\ r.items = req[w].items /\ r.todo = req[w].todo /\ r.done = req[w].done
        /\ Undisturbed' =>
             item' = [item EXCEPT ![req[w].batch][req[w].cur] = req[w].items[req[w].cur]]
  BY SaveItemIs
<1> DEFINE q == req[w]  b == q.batch  its == q.items  m == q.cur
<1>2. /\ q # None /\ req'[w] = r /\ r.batch = b /\ RequestIsSound(w) /\ b \in Batches
      /\ its \in [Mails -> ItemStates \cup {None}] /\ q.todo \subseteq Mails
      /\ item \in [Batches -> [Mails -> ItemStates \cup {None}]]
  BY <1>1, OwnFacts
<1>3. Books(q) /\ Agree(b, Succeeded(q) \ {m}, Succeeded(q)) /\ m \in Mails
  BY <1>1, <1>2 DEF RequestIsSound, Late, CreditedMails, ArrivedMails, Base, CopiesAreDue, CopyIsDue
<1>4. its[m] # None /\ m \notin q.todo /\ q.done = Succeeded(q) /\ item[b][m] # None
  BY <1>1, <1>3 DEF Books
<1>5. /\ \A x \in Mails : x # m => item'[b][x] = item[b][x]
      /\ item'[b][m] = its[m]
  BY <1>1, <1>2, <1>3
<1>6. /\ r.items = its /\ r.todo = q.todo /\ r.done = q.done /\ r.phase = "item" /\ q.phase = "saveItem"
      /\ Succeeded(r) = Succeeded(q)
  BY <1>1 DEF Succeeded
<1>0. \A c \in Batches, x \in Mails : item'[c][x] = None <=> item[c][x] = None
  BY <1>1, <1>2, <1>4, <1>5 DEF StepOf
<1> HIDE DEF q, b, its, m
<1>7. /\ \A x \in Mails : r.items[x] = None <=> item'[b][x] = None
      /\ \A x \in r.todo : r.items[x] \notin {None, "succeeded"}
      /\ \A x \in Mails \ r.todo : r.items[x] \in {None, "succeeded", "failed"}
      /\ r.done = Succeeded(r)
  BY <1>2, <1>3, <1>4, <1>5, <1>6 DEF Books, its, b
<1>8. CreditedMails(r) = Succeeded(q) /\ ArrivedMails(r) = Succeeded(q)
  BY <1>6 DEF CreditedMails, ArrivedMails
<1>9. SharedMails' = SharedMails
  BY <1>0 DEF SharedMails, Shared
<1>10. RequestIsSound(w)'
  <2>1. \A x \in Mails : item'[b][x] # None =>
          /\ item'[b][x] = "succeeded" <=> x \in CreditedMails(r)
          /\ x \in SharedMails' \/ (mail'[x] = "arrived" <=> x \in ArrivedMails(r))
    <3>1. m \in Succeeded(q) <=> its[m] = "succeeded"
      BY <1>3 DEF Succeeded, its
    <3> QED BY <1>1, <1>3, <1>4, <1>5, <1>8, <1>9, <3>1 DEF Agree
  <2> QED BY <1>1, <1>2, <1>7, <2>1
       DEF RequestIsSound, Agree, Books, CreditedMails, ArrivedMails, Succeeded
<1> QED BY <1>0, <1>1, <1>2, <1>10, LateKeepsSound DEF RowKept, Late, q, b

(* Before its items are listed, the batch of a request is settled. *)
LEMMA EarlyIsSettled ==
  ASSUME Base, Undisturbed, Sound, NEW w \in Workers, req[w] # None, req[w].phase \notin Late
  PROVE  Settled(req[w].batch)
<1>1. req[w].batch \in Batches /\ batch[req[w].batch] # None
  BY RequestFields DEF Base, RowsExist
<1>2. \A v \in Workers : req[v] # None /\ req[v].batch = req[w].batch => v = w
  BY DEF Base, RequestsTakeTurns, Undisturbed
<1> QED BY <1>1, <1>2 DEF Sound, BatchIsSound

(* A settled batch gives the attempt all of its items to visit, or none. *)
LEMMA ListItemsKeepsSound ==
  ASSUME Base, Undisturbed, Sound, Undisturbed', NEW w \in Workers, ListItems(w)
  PROVE  Sound'
<1>1. PICK r :
        /\ StepOf(w, r) /\ RowKept(w, r) /\ mail' = mail /\ item' = item /\ met' = met
        /\ req[w].phase = "list" /\ r # None /\ r.phase = "item"
        /\ r.items = item[req[w].batch] /\ r.todo = ToVisit(r.items) /\ r.done = req[w].done
  BY ListItemsIs
<1> DEFINE b == req[w].batch
<1>2. /\ req[w] # None /\ req'[w] = r /\ r.batch = b /\ RequestIsSound(w) /\ b \in Batches
      /\ item[b] \in [Mails -> ItemStates \cup {None}]
  BY <1>1, OwnFacts
<1>3. Settled(b) /\ r.done = {}
  BY <1>1, <1>2, EarlyIsSettled DEF RequestIsSound, Late
<1> HIDE DEF b
<1>4. r.items = item[b]
  BY <1>1 DEF b
<1>5. \/ r.todo = {} /\ \A m \in Mails : item[b][m] \in {None, "succeeded"}
      \/ Succeeded(r) = {}
  <2>1. CASE Agree(b, Mails, Mails)
    BY <1>1, <1>4, <2>1 DEF Agree, ToVisit
  <2>2. CASE Agree(b, {}, {})
    BY <1>4, <2>2, NoneIsNoState DEF Agree, Succeeded
  <2> QED BY <1>3, <2>1, <2>2 DEF Settled
<1>6. Agree(b, Succeeded(r), Succeeded(r))
  <2>1. CASE Agree(b, Mails, Mails)
    BY <1>4, <2>1 DEF Agree, Succeeded
  <2>2. CASE Agree(b, {}, {})
    BY <1>4, <2>2 DEF Agree, Succeeded
  <2> QED BY <1>3, <2>1, <2>2 DEF Settled
<1>7. Books(r)
  <2>1. r.todo = {m \in Mails : item[b][m] \notin {None, "succeeded"}}
    BY <1>1, <1>4 DEF ToVisit
  <2>2. r.batch = b /\ r.phase = "item" /\ r.done = {} /\ r.items = item[b]
    BY <1>1, <1>2, <1>3, <1>4
  <2> QED BY <1>5, <2>1, <2>2 DEF Books
<1>8. CreditedMails(r) = Succeeded(r) /\ ArrivedMails(r) = Succeeded(r)
  BY <1>1 DEF CreditedMails, ArrivedMails
<1>9. SharedMails' = SharedMails
  BY <1>1 DEF SharedMails, Shared
<1>10. RequestIsSound(w)'
  <2>1. Agree(b, CreditedMails(r), ArrivedMails(r))
    BY <1>6, <1>8
  <2>2. Agree(r.batch, CreditedMails(r), ArrivedMails(r))'
    BY <1>1, <1>2, <1>9, <2>1 DEF Agree, CreditedMails, ArrivedMails, Succeeded
  <2>3. Books(r)'
    BY <1>1, <1>7 DEF Books, Succeeded
  <2> QED BY <1>1, <1>2, <2>2, <2>3 DEF RequestIsSound
<1> QED BY <1>1, <1>10, LateKeepsSound DEF RowKept, Late

(* An attempt without a failure delivered everything; one with a failure *)
(* has to take back exactly what it delivered.                           *)
LEMMA DecideKeepsSound ==
  ASSUME Base, Undisturbed, Sound, Undisturbed', NEW w \in Workers, Decide(w)
  PROVE  Sound'
<1>1. PICK r, s :
        /\ StepOf(w, r)
        /\ RowKept(w, r) \/ RowSaved(w, r, s)
        /\ mail' = mail /\ item' = item /\ req[w].phase = "item" /\ req[w].todo = {} /\ r # None
        /\ \/ AllSucceeded(req[w].items) /\ r.phase = "complete"
           \/ ~ AllSucceeded(req[w].items) /\ r.phase = "compensate" /\ r.done = req[w].done
  BY DecideIs
<1> DEFINE q == req[w]  b == q.batch
<1>2. /\ q # None /\ req'[w] = r /\ r.batch = b /\ RequestIsSound(w) /\ b \in Batches
      /\ q.done \subseteq Mails /\ batch \in [Batches -> Batch \cup {None}]
  BY <1>1, OwnFacts
<1>3. Books(q) /\ Agree(b, Succeeded(q), Succeeded(q))
  BY <1>1, <1>2 DEF RequestIsSound, Late, CreditedMails, ArrivedMails
<1>4. SharedMails' = SharedMails
  BY <1>1 DEF SharedMails, Shared
<1>5. RequestIsSound(w)'
  <2>1. CASE AllSucceeded(q.items) /\ r.phase = "complete"
    <3>1. \A m \in Mails : item[b][m] # None => m \in Succeeded(q)
      BY <1>1, <1>3, <2>1 DEF Books, AllSucceeded, Succeeded
    <3>2. \A m \in Mails : item[b][m] # None =>
            item[b][m] = "succeeded" /\ (m \in SharedMails \/ mail[m] = "arrived")
      BY <1>3, <3>1 DEF Agree
    <3>3. CreditedMails(r) = Mails /\ ArrivedMails(r) = Mails
      BY <2>1 DEF CreditedMails, ArrivedMails
    <3>4. \A m \in Mails : item'[b][m] # None =>
            /\ item'[b][m] = "succeeded" <=> m \in CreditedMails(r)
            /\ m \in SharedMails' \/ (mail'[m] = "arrived" <=> m \in ArrivedMails(r))
      BY <1>1, <1>4, <3>2, <3>3
    <3> QED BY <1>2, <2>1, <3>4 DEF RequestIsSound, Agree, CreditedMails, ArrivedMails, Succeeded
  <2>2. CASE ~ AllSucceeded(q.items) /\ r.phase = "compensate" /\ r.done = q.done
    <3>1. q.done = Succeeded(q)
      BY <1>3, <2>2, NoneIsNoState DEF Books, AllSucceeded
    <3>2. \A m \in q.done : item[b][m] # None
      BY <1>3, <3>1, NoneIsNoState DEF Books, Succeeded
    <3>3. CreditedMails(r) = q.done /\ ArrivedMails(r) = q.done
      BY <2>2 DEF CreditedMails, ArrivedMails
    <3>4. \A m \in Mails : item'[b][m] # None =>
            /\ item'[b][m] = "succeeded" <=> m \in CreditedMails(r)
            /\ m \in SharedMails' \/ (mail'[m] = "arrived" <=> m \in ArrivedMails(r))
      BY <1>1, <1>3, <1>4, <3>1, <3>3 DEF Agree
    <3> QED BY <1>1, <1>2, <2>2, <3>2, <3>4
         DEF RequestIsSound, Agree, CreditedMails, ArrivedMails, Succeeded
  <2> QED BY <1>1, <2>1, <2>2
<1>6. \A c \in Batches : c # b => batch'[c] = batch[c]
  BY <1>1, <1>2 DEF RowKept, RowSaved
<1>7. r.phase \in Late
  BY <1>1 DEF Late
<1> QED BY <1>1, <1>5, <1>6, <1>7, LateKeepsSound

(* The row that is saved last says what items and mails show. *)
LEMMA LastStepKeepsSound ==
  ASSUME Base, Undisturbed, Sound, Undisturbed', NEW w \in Workers, Complete(w) \/ RollBack(w)
  PROVE  Sound'
<1>1. PICK s :
        /\ StepOf(w, None)
        /\ RowKept(w, None) \/ RowSaved(w, None, s)
        /\ mail' = mail /\ item' = item
        /\ \/ Complete(w) /\ req[w].phase = "complete" /\ s.state = "completed"
           \/ RollBack(w) /\ req[w].phase = "rollback" /\ s.state = "rolled_back"
        /\ Undisturbed' => RowSaved(w, None, s)
  BY LastStepIs
<1>0. PICK b \in Batches : b = req[w].batch
  BY <1>1, OwnFacts
<1>2. /\ req[w] # None /\ req'[w] = None /\ RequestIsSound(w)
      /\ batch \in [Batches -> Batch \cup {None}]
  BY <1>1, OwnFacts
<1>3. batch'[b] = s /\ \A c \in Batches : c # b => batch'[c] = batch[c]
  BY <1>0, <1>1, <1>2 DEF RowSaved
<1>4. SharedMails' = SharedMails
  BY <1>1 DEF SharedMails, Shared
<1>5. \/ Agree(b, Mails, Mails) /\ s.state = "completed"
      \/ Agree(b, {}, {}) /\ s.state = "rolled_back"
  BY <1>0, <1>1, <1>2 DEF RequestIsSound, Late, CreditedMails, ArrivedMails
<1>6. RequestIsSound(w)'
  BY <1>2 DEF RequestIsSound
<1>7. BatchIsSound(b)'
  <2>1. Settled(b)'
    BY <1>1, <1>3, <1>4, <1>5 DEF Settled, Agree
  <2> QED BY <2>1 DEF BatchIsSound
<1> QED BY <1>0, <1>1, <1>3, <1>6, <1>7, StepKeepsSound

(* A mail that has not arrived although its item did is shared. *)
LEMMA CompensateKeepsSound ==
  ASSUME Base, Undisturbed, Sound, Undisturbed', NEW w \in Workers, Compensate(w)
  PROVE  Sound'
<1>1. PICK r :
        /\ StepOf(w, r) /\ RowKept(w, r) /\ mail' = mail /\ item' = item
        /\ req[w].phase = "compensate" /\ r # None
        /\ \/ r.phase = "rollback" /\ req[w].done = {}
           \/ /\ r.phase \in {"restoreMail", "restoreItem"}
              /\ r.cur \in req[w].done /\ r.done = req[w].done \ {r.cur}
              /\ Undisturbed' => (r.phase = "restoreMail" <=> mail[r.cur] = "arrived")
  BY CompensateIs
<1> DEFINE q == req[w]  b == q.batch
<1>2. /\ q # None /\ req'[w] = r /\ r.batch = b /\ RequestIsSound(w) /\ b \in Batches
      /\ q.done \subseteq Mails
  BY <1>1, OwnFacts
<1>3. /\ Agree(b, q.done, q.done) /\ \A m \in q.done : item[b][m] # None
  BY <1>1, <1>2 DEF RequestIsSound, Late, CreditedMails, ArrivedMails
<1>4. SharedMails' = SharedMails
  BY <1>1 DEF SharedMails, Shared
<1>5. CreditedMails(r) = q.done
  BY <1>1 DEF CreditedMails
<1>6. \A m \in Mails : item[b][m] # None =>
        m \in SharedMails \/ (mail[m] = "arrived" <=> m \in ArrivedMails(r))
  <2>1. CASE r.phase = "restoreItem"
    <3>1. r.done = q.done \ {r.cur} /\ mail[r.cur] # "arrived" /\ r.cur \in q.done
      BY <1>1, <2>1
    <3>2. ArrivedMails(r) = q.done \ {r.cur}
      BY <2>1, <3>1 DEF ArrivedMails
    <3> QED BY <1>3, <3>1, <3>2 DEF Agree
  <2>2. CASE r.phase # "restoreItem"
    <3>1. ArrivedMails(r) = q.done
      BY <1>1, <1>5, <2>2 DEF ArrivedMails
    <3> QED BY <1>3, <3>1 DEF Agree
  <2> QED BY <2>1, <2>2
<1>7. RequestIsSound(w)'
  <2>1. \A m \in Mails : item'[b][m] # None =>
          /\ item'[b][m] = "succeeded" <=> m \in CreditedMails(r)
          /\ m \in SharedMails' \/ (mail'[m] = "arrived" <=> m \in ArrivedMails(r))
    BY <1>1, <1>3, <1>4, <1>5, <1>6 DEF Agree
  <2>2. r.phase \in {"rollback", "restoreMail", "restoreItem"}
    BY <1>1
  <2>3. r.phase \in {"restoreMail", "restoreItem"} =>
          /\ \A m \in r.done : item'[b][m] # None
          /\ r.cur \notin r.done /\ item'[b][r.cur] # None
    BY <1>1, <1>3
  <2> HIDE DEF q, b
  <2> QED BY <1>2, <2>1, <2>2, <2>3 DEF RequestIsSound, Agree, CreditedMails, ArrivedMails, Succeeded
<1> QED BY <1>1, <1>7, LateKeepsSound DEF RowKept, Late

(* The mail is taken back before its item is. *)
LEMMA RestoreMailKeepsSound ==
  ASSUME Base, Undisturbed, Sound, Undisturbed', NEW w \in Workers, RestoreMail(w)
  PROVE  Sound'
<1>1. PICK r :
        /\ StepOf(w, r) /\ RowKept(w, r) /\ item' = item
        /\ req[w].phase = "restoreMail" /\ r # None /\ r.phase = "restoreItem"
        /\ r.cur = req[w].cur /\ r.done = req[w].done
        /\ Undisturbed' => mail' = [mail EXCEPT ![r.cur] = "in_transit"]
  BY RestoreMailIs
<1> DEFINE q == req[w]  b == q.batch  m == q.cur
<1>2. /\ q # None /\ req'[w] = r /\ r.batch = b /\ RequestIsSound(w) /\ b \in Batches
      /\ q.done \subseteq Mails /\ mail \in [Mails -> MailStates]
  BY <1>1, OwnFacts
<1>3. /\ Agree(b, q.done \cup {m}, q.done \cup {m}) /\ \A x \in q.done : item[b][x] # None
      /\ m \notin q.done /\ item[b][m] # None
  BY <1>1, <1>2 DEF RequestIsSound, Late, CreditedMails, ArrivedMails
<1>4. SharedMails' = SharedMails
  BY <1>1 DEF SharedMails, Shared
<1>5. m \in Mails
  BY <1>1, <1>2 DEF Base, CopiesAreDue, CopyIsDue
<1>6. mail'[m] # "arrived" /\ \A x \in Mails : x # m => mail'[x] = mail[x]
  BY <1>1, <1>2, <1>5
<1>7. CreditedMails(r) = q.done \cup {m} /\ ArrivedMails(r) = q.done
  BY <1>1 DEF CreditedMails, ArrivedMails
<1>8. RequestIsSound(w)'
  <2>1. \A x \in Mails : item'[b][x] # None =>
          /\ item'[b][x] = "succeeded" <=> x \in CreditedMails(r)
          /\ x \in SharedMails' \/ (mail'[x] = "arrived" <=> x \in ArrivedMails(r))
    BY <1>1, <1>3, <1>4, <1>6, <1>7 DEF Agree
  <2> QED BY <1>1, <1>2, <1>3, <2>1 DEF RequestIsSound, Agree, CreditedMails, ArrivedMails, Succeeded
<1> QED BY <1>1, <1>3, <1>6, <1>8, LateKeepsSound DEF RowKept, Late

(* The item is taken back as well. *)
LEMMA RestoreItemKeepsSound ==
  ASSUME Base, Undisturbed, Sound, Undisturbed', NEW w \in Workers, RestoreItem(w)
  PROVE  Sound'
<1>1. PICK r :
        /\ StepOf(w, r) /\ RowKept(w, r) /\ mail' = mail
        /\ req[w].phase = "restoreItem" /\ r # None /\ r.phase = "compensate" /\ r.done = req[w].done
        /\ Undisturbed' => item' = [item EXCEPT ![req[w].batch][req[w].cur] = "rolled_back"]
  BY RestoreItemIs
<1> DEFINE q == req[w]  b == q.batch  m == q.cur
<1>2. /\ q # None /\ req'[w] = r /\ r.batch = b /\ RequestIsSound(w) /\ b \in Batches
      /\ q.done \subseteq Mails /\ item \in [Batches -> [Mails -> ItemStates \cup {None}]]
  BY <1>1, OwnFacts
<1>3. /\ Agree(b, q.done \cup {m}, q.done) /\ \A x \in q.done : item[b][x] # None
      /\ m \notin q.done /\ item[b][m] # None
  BY <1>1, <1>2 DEF RequestIsSound, Late, CreditedMails, ArrivedMails
<1>4. m \in Mails
  BY <1>1, <1>2 DEF Base, CopiesAreDue, CopyIsDue
<1>5. item'[b][m] = "rolled_back" /\ \A x \in Mails : x # m => item'[b][x] = item[b][x]
  BY <1>1, <1>2, <1>4
<1>6. \A c \in Batches, x \in Mails : item'[c][x] = None <=> item[c][x] = None
  BY <1>1, <1>2, <1>3, <1>5, NoneIsNoState DEF StepOf
<1>7. SharedMails' = SharedMails
  BY <1>6 DEF SharedMails, Shared
<1>8. CreditedMails(r) = q.done /\ ArrivedMails(r) = q.done
  BY <1>1 DEF CreditedMails, ArrivedMails
<1>9. RequestIsSound(w)'
  <2>1. \A x \in Mails : item'[b][x] # None =>
          /\ item'[b][x] = "succeeded" <=> x \in CreditedMails(r)
          /\ x \in SharedMails' \/ (mail'[x] = "arrived" <=> x \in ArrivedMails(r))
    BY <1>1, <1>3, <1>5, <1>6, <1>7, <1>8 DEF Agree
  <2>2. \A x \in r.done : item'[b][x] # None
    BY <1>1, <1>2, <1>3, <1>6
  <2> QED BY <1>1, <1>2, <2>1, <2>2 DEF RequestIsSound, Agree, CreditedMails, ArrivedMails, Succeeded
<1> QED BY <1>1, <1>2, <1>6, <1>9, LateKeepsSound DEF RowKept, Late

(* A new item is pending; if its mail has arrived, another batch has it too. *)
LEMMA CreateItemKeepsSound ==
  ASSUME Base, Undisturbed, Sound, Undisturbed', NEW w \in Workers, CreateItem(w)
  PROVE  Sound'
<1>1. PICK r :
        /\ StepOf(w, r) /\ RowKept(w, r) /\ mail' = mail /\ met' = met /\ req[w].phase = "create"
        /\ \/ r = None /\ item' = item /\ req[w].todo = {}
           \/ /\ r # None /\ r.phase = "create"
              /\ \E m \in req[w].todo : /\ item' = [item EXCEPT ![req[w].batch][m] = "pending"]
                                        /\ r.todo = req[w].todo \ {m}
  BY CreateItemIs
<1>2. PICK b \in Batches : b = req[w].batch
  BY <1>1, OwnFacts
<1>3. /\ req[w] # None /\ req'[w] = r /\ (r # None => r.batch = b) /\ RequestIsSound(w)
      /\ req[w].todo \subseteq Mails /\ item \in [Batches -> [Mails -> ItemStates \cup {None}]]
      /\ batch' = batch
  BY <1>1, <1>2, OwnFacts DEF RowKept
<1>4. /\ \A m \in Mails : item[b][m] # "succeeded"
      /\ \A m \in req[w].todo : item[b][m] = None
  BY <1>1, <1>2, <1>3 DEF RequestIsSound
<1>5. batch[b].state # "completed"
  BY <1>2, <1>3 DEF Base, RequestsTakeTurns, Undisturbed
<1>6. Agree(b, {}, {})
  <2>1. Settled(b)
    BY <1>1, <1>2, <1>3, EarlyIsSettled DEF Late
  <2> QED BY <1>4, <2>1 DEF Settled, Agree
<1>7. CASE r = None /\ item' = item
  <2>1. RequestIsSound(w)'
    BY <1>3, <1>7 DEF RequestIsSound
  <2>2. SharedMails' = SharedMails
    BY <1>7 DEF SharedMails, Shared
  <2>3. BatchIsSound(b)'
    BY <1>1, <1>3, <1>5, <1>6, <1>7, <2>2 DEF BatchIsSound, Settled, Agree
  <2> QED BY <1>1, <1>2, <1>3, <1>7, <2>1, <2>3, StepKeepsSound
<1>8. ASSUME r # None, r.phase = "create", NEW m \in req[w].todo,
             item' = [item EXCEPT ![req[w].batch][m] = "pending"], r.todo = req[w].todo \ {m}
      PROVE  Sound'
  <2>1. /\ item'[b][m] = "pending" /\ \A x \in Mails : x # m => item'[b][x] = item[b][x]
        /\ \A c \in Batches : c # b => item'[c] = item[c]
        /\ m \in Mails /\ item[b][m] = None
    BY <1>2, <1>3, <1>4, <1>8
  <2>2. \A c \in Batches, x \in Mails : item[c][x] # None => item'[c][x] # None
    BY <2>1
  <2>3. SharedMails \subseteq SharedMails'
    BY <2>2, SharedStays
  <2>4. RequestIsSound(w)'
    <3>1. \A x \in Mails : item'[b][x] # "succeeded"
      BY <1>4, <2>1
    <3>2. \A x \in r.todo : item'[b][x] = None
      BY <1>3, <1>4, <1>8, <2>1
    <3> QED BY <1>3, <1>8, <3>1, <3>2 DEF RequestIsSound, Late
  <2>5. mail[m] = "arrived" => m \in SharedMails'
    <3> SUFFICES ASSUME mail[m] = "arrived" PROVE m \in SharedMails'
      OBVIOUS
    <3>1. PICK c \in Batches : item[c][m] # None
      BY <2>1 DEF Sound, MailsHaveItems
    <3>2. c # b /\ item'[c][m] # None /\ item'[b][m] # None
      BY <2>1, <2>2, <3>1, NoneIsNoState
    <3> QED BY <2>1, <3>2 DEF SharedMails, Shared
  <2>6. BatchIsSound(b)'
    <3>1. \A x \in Mails : item'[b][x] # None =>
            item'[b][x] # "succeeded" /\ (x \in SharedMails' \/ mail'[x] # "arrived")
      <4> SUFFICES ASSUME NEW x \in Mails, item'[b][x] # None
                   PROVE  item'[b][x] # "succeeded" /\ (x \in SharedMails' \/ mail'[x] # "arrived")
        OBVIOUS
      <4>1. CASE x = m
        BY <1>1, <2>1, <2>5, <4>1
      <4>2. CASE x # m
        BY <1>1, <1>6, <2>1, <2>3, <4>2 DEF Agree
      <4> QED BY <4>1, <4>2
    <3> QED BY <1>3, <1>5, <3>1 DEF BatchIsSound, Settled, Agree
  <2> QED BY <1>1, <1>2, <1>3, <2>2, <2>4, <2>6, StepKeepsSound
<1> QED BY <1>1, <1>7, <1>8

(* A batch that is processing may still be settled. *)
LEMMA StartKeepsSound ==
  ASSUME Base, Undisturbed, Sound, Undisturbed', NEW w \in Workers, Start(w)
  PROVE  Sound'
<1>1. PICK r, s :
        /\ StepOf(w, r) /\ RowSaved(w, r, s) /\ mail' = mail /\ item' = item /\ met' = met
        /\ req[w].phase = "start" /\ s.state = "processing"
        /\ r # None /\ r.phase = "list" /\ r.done = req[w].done
  BY StartIs
<1>2. PICK b \in Batches : b = req[w].batch
  BY <1>1, OwnFacts
<1>3. /\ req[w] # None /\ req'[w] = r /\ r.batch = b /\ RequestIsSound(w)
      /\ batch \in [Batches -> Batch \cup {None}]
  BY <1>1, <1>2, OwnFacts
<1>4. batch'[b] = s /\ \A c \in Batches : c # b => batch'[c] = batch[c]
  BY <1>1, <1>2, <1>3 DEF RowSaved
<1>5. Settled(b)
  BY <1>1, <1>2, <1>3, EarlyIsSettled DEF Late
<1>6. SharedMails' = SharedMails
  BY <1>1 DEF SharedMails, Shared
<1>7. RequestIsSound(w)'
  <2>1. r.done = {}
    BY <1>1, <1>3 DEF RequestIsSound
  <2> QED BY <1>1, <1>3, <2>1 DEF RequestIsSound, Late
<1>8. BatchIsSound(b)'
  BY <1>1, <1>4, <1>5, <1>6 DEF BatchIsSound, Settled, Agree
<1> QED BY <1>1, <1>2, <1>4, <1>7, <1>8, StepKeepsSound

(* A step that leaves items and deliveries alone: a request begins, or a row *)
(* becomes pending.                                                          *)
LEMMA QuietKeepsSound ==
  ASSUME Base, Sound, item' = item,
         \A m \in Mails : mail'[m] = "arrived" <=> mail[m] = "arrived",
         \A v \in Workers :
           \/ req'[v] = req[v]
           \/ /\ req[v] = None /\ req'[v] # None /\ req'[v].batch \in Batches
              /\ \/ req'[v].phase = "create" /\ \A m \in Mails : item[req'[v].batch][m] = None
                 \/ req'[v].phase = "start" /\ req'[v].done = {},
         \A v \in Workers : req'[v] # None => req'[v].todo \subseteq Mails,
         \A c \in Batches : batch'[c] = batch[c] \/ batch'[c].state = "pending"
  PROVE  Sound'
<1>1. SharedMails' = SharedMails
  BY DEF SharedMails, Shared
<1>2. ASSUME NEW v \in Workers PROVE RequestIsSound(v)'
  <2>0. RequestIsSound(v)
    BY DEF Sound
  <2>1. CASE req'[v] = req[v]
    <3>1. CASE req[v] = None
      BY <2>1, <3>1 DEF RequestIsSound
    <3>2. CASE req[v] # None
      <4> DEFINE q == req[v]  c == q.batch
      <4>1. q.phase \in Late => Agree(c, CreditedMails(q), ArrivedMails(q))
        BY <2>0, <3>2 DEF RequestIsSound
      <4>2. q.phase \in Late => \A m \in Mails : item'[c][m] # None =>
              /\ item'[c][m] = "succeeded" <=> m \in CreditedMails(q)
              /\ m \in SharedMails' \/ (mail'[m] = "arrived" <=> m \in ArrivedMails(q))
        BY <1>1, <4>1 DEF Agree
      <4>3. q.phase \in {"item", "saveMail", "saveItem"} => Books(q)
        BY <2>0, <3>2 DEF RequestIsSound
      <4> QED BY <2>0, <2>1, <3>2, <4>2, <4>3
           DEF RequestIsSound, Agree, Books, CreditedMails, ArrivedMails, Succeeded
    <3> QED BY <3>1, <3>2
  <2>2. CASE req'[v] # req[v]
    BY <2>2, NoneIsNoState DEF RequestIsSound, Late
  <2> QED BY <2>1, <2>2
<1>3. ASSUME NEW c \in Batches PROVE BatchIsSound(c)'
  <2> SUFFICES ASSUME batch'[c] # None,
                      \A v \in Workers : req'[v] # None /\ req'[v].batch = c => req'[v].phase \notin Late
               PROVE  Settled(c)'
    BY DEF BatchIsSound
  <2>1. CASE batch[c] = None
    <3>1. \A m \in Mails : item'[c][m] = None
      BY <2>1 DEF Base, RowsExist
    <3>2. batch'[c].state = "pending"
      BY <2>1
    <3> QED BY <3>1, <3>2 DEF Settled, Agree
  <2>2. CASE batch[c] # None
    <3>1. Settled(c)
      BY <2>2 DEF Sound, BatchIsSound
    <3>2. batch'[c].state # "pending" => batch'[c] = batch[c]
      OBVIOUS
    <3> QED BY <1>1, <3>1, <3>2 DEF Settled, Agree
  <2> QED BY <2>1, <2>2
<1>4. MailsHaveItems'
  BY DEF Sound, MailsHaveItems
<1> QED BY <1>2, <1>3, <1>4 DEF Sound

(* The steps that are not of a request in flight keep batches sound. *)
LEMMA OthersKeepSound ==
  ASSUME Base, Sound, Undisturbed',
         \/ \E w \in Workers, b \in Batches : Process(w, b) \/ \E ms \in SUBSET Mails : Create(w, b, ms)
         \/ \E t \in Tasks : List(t) \/ \E b \in Batches : Requeue(t, b)
         \/ \E m \in Mails : Depart(m)
         \/ UNCHANGED vars
  PROVE  Sound'
<1> USE DEF Base
<1>0. \A v \in Workers : req[v] # None => req[v].todo \subseteq Mails
  BY RequestFields
<1>1. ASSUME NEW w \in Workers, NEW b \in Batches, Process(w, b) PROVE Sound'
  <2>1. PICK r \in Request :
          /\ req[w] = None /\ req' = [req EXCEPT ![w] = r]
          /\ r.phase = "start" /\ r.batch = b /\ r.done = {} /\ CopyIsDue(r)
          /\ batch[b] # None /\ batch[b].state \notin {"completed", "succeeded"}
          /\ batch' = batch /\ item' = item /\ mail' = mail /\ task' = task
          /\ met' = IF \E v \in Workers : req[v] # None /\ req[v].batch = b
                    THEN met \cup {"overlap"} ELSE met
    BY <1>1, ProcessIs
  <2>2. req'[w] = r /\ r # None /\ r.todo \subseteq Mails /\ \A v \in Workers : v # w => req'[v] = req[v]
    BY <2>1 DEF TypeOK, Request
  <2> QED BY <1>0, <2>1, <2>2, QuietKeepsSound
<1>2. ASSUME NEW w \in Workers, NEW b \in Batches, NEW ms \in SUBSET Mails, Create(w, b, ms) PROVE Sound'
  <2>1. PICK r \in Request :
          /\ req[w] = None /\ req' = [req EXCEPT ![w] = r]
          /\ r.phase = "create" /\ r.batch = b /\ r.todo = ms /\ CopyIsDue(r)
          /\ batch[b] = None /\ batch' = [batch EXCEPT ![b] = r.row] /\ r.row.state = "pending"
          /\ item' = item /\ mail' = mail /\ task' = task /\ met' = met
    BY <1>2, CreateIs
  <2>2. /\ req'[w] = r /\ r # None /\ \A v \in Workers : v # w => req'[v] = req[v]
        /\ \A c \in Batches : batch'[c] = batch[c] \/ batch'[c].state = "pending"
    BY <2>1 DEF TypeOK
  <2>3. \A m \in Mails : item[b][m] = None
    BY <2>1 DEF RowsExist
  <2> QED BY <1>0, <2>1, <2>2, <2>3, QuietKeepsSound
<1>3. ASSUME NEW t \in Tasks, NEW b \in Batches, Requeue(t, b) PROVE Sound'
  <2>1. PICK s \in Batch :
          /\ (batch[b] = task[t][b] /\ batch[b].state = "rolled_back") \/ "requeue" \in met'
          /\ s.state = "pending" /\ batch' = [batch EXCEPT ![b] = s]
          /\ task' = [task EXCEPT ![t][b] = None]
          /\ met \subseteq met' /\ met' \subseteq met \cup {"requeue"}
          /\ item' = item /\ mail' = mail /\ req' = req
    BY <1>3, RequeueIs
  <2>2. \A c \in Batches : batch'[c] = batch[c] \/ batch'[c].state = "pending"
    BY <2>1 DEF TypeOK
  <2> QED BY <1>0, <2>1, <2>2, QuietKeepsSound
<1>4. ASSUME NEW t \in Tasks, List(t) PROVE Sound'
  <2>1. batch' = batch /\ item' = item /\ mail' = mail /\ req' = req
    BY <1>4 DEF List
  <2> QED BY <1>0, <2>1, QuietKeepsSound
<1>5. ASSUME NEW m \in Mails, Depart(m) PROVE Sound'
  <2>1. /\ batch' = batch /\ item' = item /\ req' = req
        /\ mail[m] = "registered" /\ mail' = [mail EXCEPT ![m] = "in_transit"]
    BY <1>5 DEF Depart
  <2>2. \A x \in Mails : mail'[x] = "arrived" <=> mail[x] = "arrived"
    BY <2>1 DEF TypeOK
  <2> QED BY <1>0, <2>1, <2>2, QuietKeepsSound
<1>6. CASE UNCHANGED vars
  <2>1. batch' = batch /\ item' = item /\ mail' = mail /\ req' = req
    BY <1>6 DEF vars
  <2> QED BY <1>0, <2>1, QuietKeepsSound
<1> QED BY <1>1, <1>2, <1>3, <1>4, <1>5, <1>6

(* Every step of a request keeps batches sound; one that stops disturbs. *)
LEMMA WorkerKeepsSound ==
  ASSUME Base, Undisturbed, Sound, Undisturbed', NEW w \in Workers, Steps(w) \/ Fail(w)
  PROVE  Sound'
<1>1. ~ Fail(w)
  BY FailIs
<1>2. CASE CreateItem(w)
  BY <1>2, CreateItemKeepsSound
<1>3. CASE Start(w)
  BY <1>3, StartKeepsSound
<1>4. CASE ListItems(w)
  BY <1>4, ListItemsKeepsSound
<1>5. CASE ReadMail(w)
  BY <1>5, ReadMailKeepsSound
<1>6. CASE SaveMail(w)
  BY <1>6, SaveMailKeepsSound
<1>7. CASE SaveItem(w)
  BY <1>7, SaveItemKeepsSound
<1>8. CASE Decide(w)
  BY <1>8, DecideKeepsSound
<1>9. CASE Complete(w) \/ RollBack(w)
  BY <1>9, LastStepKeepsSound
<1>10. CASE Compensate(w)
  BY <1>10, CompensateKeepsSound
<1>11. CASE RestoreMail(w)
  BY <1>11, RestoreMailKeepsSound
<1>12. CASE RestoreItem(w)
  BY <1>12, RestoreItemKeepsSound
<1> QED BY <1>1, <1>2, <1>3, <1>4, <1>5, <1>6, <1>7, <1>8, <1>9, <1>10, <1>11, <1>12 DEF Steps

(* What was met is not forgotten. *)
LEMMA MetStays == Base /\ [Next]_vars => met \subseteq met'
<1> SUFFICES ASSUME Base, [Next]_vars PROVE met \subseteq met'
  OBVIOUS
<1>1. ASSUME NEW w \in Workers, Steps(w) \/ Fail(w) PROVE met \subseteq met'
  BY <1>1 DEF Steps, Fail, CreateItem, Start, ListItems, ReadMail, SaveMail, SaveItem,
              Decide, Complete, Compensate, RestoreMail, RestoreItem, RollBack, Lost, Done
<1> QED BY <1>1 DEF Next, vars, Process, Create, List, Requeue, Depart

(* Every step keeps the invariant. *)
LEMMA NextIInv == IInv /\ [Next]_vars => IInv'
<1> SUFFICES ASSUME IInv, [Next]_vars PROVE IInv'
  OBVIOUS
<1>1. Base /\ Base' /\ met \subseteq met'
  BY NextKeepsBase, MetStays DEF IInv
<1>2. ASSUME Undisturbed' PROVE Sound'
  <2>1. Undisturbed /\ Sound
    BY <1>1, <1>2, UndisturbedBefore DEF IInv
  <2>2. ASSUME NEW w \in Workers, Steps(w) \/ Fail(w) PROVE Sound'
    BY <1>1, <1>2, <2>1, <2>2, WorkerKeepsSound
  <2>3. \/ \E w \in Workers : Steps(w) \/ Fail(w)
        \/ \E w \in Workers, b \in Batches : Process(w, b) \/ \E ms \in SUBSET Mails : Create(w, b, ms)
        \/ \E t \in Tasks : List(t) \/ \E b \in Batches : Requeue(t, b)
        \/ \E m \in Mails : Depart(m)
        \/ UNCHANGED vars
    BY DEF Next
  <2> QED BY <1>1, <1>2, <2>1, <2>2, <2>3, OthersKeepSound
<1> QED BY <1>1, <1>2 DEF IInv

-----------------------------------------------------------------------------
(* Theorems *)

(* The inductive invariant: copies of rows are due, requests take their      *)
(* turns, and while nothing is disturbed the rows of every batch and its     *)
(* mails are what the request at work on it has made of them.                *)
THEOREM BatchInvariance == Spec => []IInv
<1>1. Init => IInv
  BY InitIInv
<1>2. IInv /\ [Next]_vars => IInv'
  BY NextIInv
<1> QED BY <1>1, <1>2, PTL DEF Spec

(* Batches, items, mails, requests and the task's copies have their types;   *)
(* in particular no version that is written exceeds the bound.               *)
THEOREM BatchesTypeCorrect == Spec => []TypeOK
<1>1. IInv => TypeOK
  BY DEF IInv, Base
<1> QED BY <1>1, BatchInvariance, PTL

(* A completed batch delivered all its mails, and its items say so, however  *)
(* often it was rolled back and requeued before.                             *)
THEOREM CompletedMeansDelivered == Spec => []CompletedIsDelivered
<1>1. IInv => CompletedIsDelivered
  <2> SUFFICES ASSUME IInv, Undisturbed, NEW b \in Batches, batch[b] # None, batch[b].state = "completed",
                      NEW m \in Mails, item[b][m] # None
               PROVE  item[b][m] = "succeeded" /\ (Shared(m) \/ mail[m] = "arrived")
    BY DEF CompletedIsDelivered
  <2>1. \A w \in Workers : req[w] # None /\ req[w].batch = b => req[w].phase \notin Late
    BY DEF IInv, Base, RequestsTakeTurns, Undisturbed
  <2>2. Settled(b)
    BY <2>1 DEF IInv, Sound, BatchIsSound
  <2> QED BY <2>2 DEF Settled, Agree, SharedMails
<1> QED BY <1>1, BatchInvariance, PTL

(* A batch that was rolled back has nothing delivered, neither by its items  *)
(* nor by the mails that are its own.                                        *)
THEOREM RolledBackMeansUndone == Spec => []RolledBackIsUndone
<1>1. IInv => RolledBackIsUndone
  <2> SUFFICES ASSUME IInv, Undisturbed, NEW b \in Batches, batch[b] # None, batch[b].state = "rolled_back",
                      NEW m \in Mails, item[b][m] # None
               PROVE  item[b][m] # "succeeded" /\ (Shared(m) \/ mail[m] # "arrived")
    BY DEF RolledBackIsUndone
  <2>1. \A w \in Workers : req[w] # None /\ req[w].batch = b => req[w].phase \notin Late
    BY DEF IInv, Base, RequestsTakeTurns, Undisturbed, Late
  <2>2. Settled(b)
    BY <2>1 DEF IInv, Sound, BatchIsSound
  <2> QED BY <2>2 DEF Settled, Agree, SharedMails
<1> QED BY <1>1, BatchInvariance, PTL

(* A step of a request writes the row of its own batch at most. *)
LEMMA WorkerWritesItsRow ==
  ASSUME Base, NEW w \in Workers, Steps(w) \/ Fail(w)
  PROVE  req[w] # None /\ \A b \in Batches : b # req[w].batch => batch'[b] = batch[b]
<1>1. \E r, s : StepOf(w, r) /\ (RowKept(w, r) \/ RowSaved(w, r, s))
  <2>1. CASE CreateItem(w)
    BY <2>1, CreateItemIs
  <2>2. CASE Start(w)
    BY <2>2, StartIs
  <2>3. CASE ListItems(w)
    BY <2>3, ListItemsIs
  <2>4. CASE ReadMail(w)
    BY <2>4, ReadMailIs
  <2>5. CASE SaveMail(w)
    BY <2>5, SaveMailIs
  <2>6. CASE SaveItem(w)
    BY <2>6, SaveItemIs
  <2>7. CASE Decide(w)
    BY <2>7, DecideIs
  <2>8. CASE Complete(w) \/ RollBack(w)
    BY <2>8, LastStepIs
  <2>9. CASE Compensate(w)
    BY <2>9, CompensateIs
  <2>10. CASE RestoreMail(w)
    BY <2>10, RestoreMailIs
  <2>11. CASE RestoreItem(w)
    BY <2>11, RestoreItemIs
  <2>12. CASE Fail(w)
    BY <2>12, FailIs
  <2> QED BY <2>1, <2>2, <2>3, <2>4, <2>5, <2>6, <2>7, <2>8, <2>9, <2>10, <2>11, <2>12 DEF Steps
<1> QED BY <1>1 DEF StepOf, RowKept, RowSaved, Base, TypeOK

(* A completed batch is never taken up again, whatever stops half way or     *)
(* loses its writes, unless a task writes back a row it listed before or two *)
(* requests are at work on the batch at once.                                *)
THEOREM CompletedStays == Spec => CompletedIsFinal
<1>1. IInv /\ [Next]_vars =>
        [\A b \in Batches : /\ batch[b] # None /\ batch[b].state = "completed"
                            /\ met' \cap {"requeue", "overlap"} = {}
           => batch'[b].state = "completed"]_vars
  <2> SUFFICES ASSUME IInv, [Next]_vars, NEW b \in Batches,
                      batch[b] # None, batch[b].state = "completed",
                      met' \cap {"requeue", "overlap"} = {}
               PROVE  batch'[b] = batch[b]
    OBVIOUS
  <2>1. Base /\ "overlap" \notin met
    BY MetStays DEF IInv
  <2>2. \A w \in Workers : req[w] # None => req[w].batch # b
    BY <2>1 DEF Base, RequestsTakeTurns
  <2>3. ASSUME NEW w \in Workers, Steps(w) \/ Fail(w) PROVE batch'[b] = batch[b]
    BY <2>1, <2>2, <2>3, WorkerWritesItsRow
  <2>4. ASSUME NEW w \in Workers, NEW c \in Batches, NEW ms \in SUBSET Mails, Create(w, c, ms)
        PROVE  batch'[b] = batch[b]
    <3>1. batch[c] = None /\ \E s : batch' = [batch EXCEPT ![c] = s]
      BY <2>4 DEF Create
    <3> QED BY <2>1, <3>1 DEF Base, TypeOK
  <2>5. ASSUME NEW t \in Tasks, NEW c \in Batches, Requeue(t, c) PROVE batch'[b] = batch[b]
    <3>1. PICK s \in Batch :
            /\ (batch[c] = task[t][c] /\ batch[c].state = "rolled_back") \/ "requeue" \in met'
            /\ s.state = "pending" /\ batch' = [batch EXCEPT ![c] = s]
            /\ task' = [task EXCEPT ![t][c] = None]
            /\ met \subseteq met' /\ met' \subseteq met \cup {"requeue"}
            /\ item' = item /\ mail' = mail /\ req' = req
      BY <2>1, <2>5, RequeueIs
    <3> QED BY <2>1, <3>1 DEF Base, TypeOK
  <2> QED BY <2>3, <2>4, <2>5 DEF Next, vars, Process, List, Depart
<1> QED BY <1>1, BatchInvariance, PTL DEF Spec, CompletedIsFinal
===============================================================================
