----------------------------- MODULE Dispositions -----------------------------
(***************************************************************************)
(* service.DispositionService over disposition_requests, the index         *)
(* active_dispositions (at most one row per mail) and mail_items.  Submit  *)
(* decides inside one transaction.  Review, Withdraw and Execute read a    *)
(* disposition, change the copy, and write the whole copy back whatever    *)
(* the row has become; Execute does the same with the mail, and so do the  *)
(* batches that deliver mails (module Batches has their own rows).         *)
(***************************************************************************)
EXTENDS Naturals

CONSTANTS
  Mails,        (* registered mails                                        *)
  Disps,        (* disposition ids, each used by one Submit                *)
  Types,        (* disposition types a client sends; not validated         *)
  Addressed,    (* dispositions submitted with a target_address            *)
  None,         (* no row, no request, an empty disposition_id             *)
  Workers,      (* HTTP requests that can be in flight together            *)
  Batches,      (* attempts to process a batch that can be in flight       *)
  MaxVersion    (* bound on the versions of a disposition                  *)

VARIABLES
  disp,         (* rows of disposition_requests                            *)
  active,       (* rows of active_dispositions: per mail, one disposition  *)
  mail,         (* rows of mail_items: state, disposition_id, and whose    *)
                (* target address receiver_addr is                         *)
  item,         (* per batch attempt, the changed mail it is about to save *)
  due,          (* dispositions whose newest state has no audit record     *)
                (* yet, and whose writer has not been cut short            *)
  req,          (* per worker, the request in flight                       *)
  stale,        (* history: dispositions whose row was overwritten by a    *)
                (* copy of an earlier row                                  *)
  crossed       (* history: mails with a disposition in stale, or written  *)
                (* while it was being executed (withdrawn or executed      *)
                (* again half way), or executed while a batch had the mail *)
                (* in hand                                                 *)

vars == <<disp, active, mail, item, due, req, stale, crossed>>

DispStates == {"pending", "under_review", "issued", "executing", "completed", "rejected",
               "withdrawn", "lost"}

ActiveStates == {"pending", "under_review", "issued", "executing"}

(* dispositionStateMachine *)
Transitions ==
  {<<"pending", "under_review">>, <<"pending", "issued">>, <<"pending", "rejected">>,
   <<"pending", "withdrawn">>, <<"pending", "lost">>,
   <<"under_review", "issued">>, <<"under_review", "rejected">>, <<"under_review", "lost">>,
   <<"issued", "executing">>, <<"issued", "withdrawn">>,
   <<"executing", "completed">>, <<"executing", "withdrawn">>, <<"withdrawn", "pending">>}

(* The mail state an executed disposition asks for; an unknown type asks for none. *)
MailStateFor == [intercept |-> "intercepted", redirect |-> "redirected",
                 return |-> "returned_to_sender"]

(* The states in which a mail is on the road, and a batch may deliver it. *)
OnTheRoad == {"in_transit", "arrived"}

ASSUME VersionAssumption == MaxVersion \in Nat \ {0}

(* issued: the issued_by column is set. *)
Disp == [mail : Mails, type : Types, state : DispStates, issued : BOOLEAN,
         version : 1 .. MaxVersion]

Mail == [state : {"registered", "intercepted", "redirected", "returned_to_sender"} \cup OnTheRoad,
         disposition : Disps \cup {None}, addr : Disps \cup {None}]

Item == [mail : Mails, row : Mail]

(* row is the changed copy of the disposition, copy the mail that was read. *)
Request == [id : Disps, phase : {"save", "getMail", "saveMail", "complete", "record"},
            row : Disp, copy : Mail \cup {None}]

ASSUME NoneAssumption ==
  /\ None \notin Disps /\ None \notin Disp /\ None \notin Mail
  /\ None \notin Item /\ None \notin Request

TypeOK ==
  /\ disp \in [Disps -> Disp \cup {None}]
  /\ active \in [Mails -> Disps \cup {None}]
  /\ mail \in [Mails -> Mail]
  /\ item \in [Batches -> Item \cup {None}]
  /\ due \subseteq Disps
  /\ req \in [Workers -> Request \cup {None}]
  /\ stale \subseteq Disps
  /\ crossed \subseteq Mails

(* A mail is registered when its form is, and on its way when its truck is. *)
Init ==
  /\ disp = [d \in Disps |-> None]
  /\ active = [m \in Mails |-> None]
  /\ mail \in [Mails -> {[state |-> s, disposition |-> None, addr |-> None] :
                         s \in {"registered", "in_transit"}}]
  /\ item = [b \in Batches |-> None]
  /\ due = {}
  /\ req = [w \in Workers |-> None]
  /\ stale = {}
  /\ crossed = {}

-----------------------------------------------------------------------------
(* Helpers *)

\* Mutant: the copy's state is not checked.
Validate_Anything(from, to) == from \in DispStates /\ to \in DispStates

Validate(from, to) == from = to \/ <<from, to>> \in Transitions

\* Mutant: what is being executed no longer counts as active.
IsDispositionActive_NotExecuting(s) == s \in ActiveStates \ {"executing"}

IsDispositionActive(s) == s \in ActiveStates

\* Mutant: REPLACE instead of INSERT OR IGNORE, and no DELETE.
Indexed_NeverRemoved(d, r) ==
  active' = [active EXCEPT ![r.mail] = IF IsDispositionActive(r.state) THEN d ELSE @]

(* INSERT OR IGNORE an active disposition, DELETE the entry of an inactive one. *)
Indexed(d, r) ==
  active' = [active EXCEPT ![r.mail] =
               IF IsDispositionActive(r.state) THEN (IF @ = None THEN d ELSE @)
                                               ELSE (IF @ = d THEN None ELSE @)]

\* Mutant: the version is counted up twice for one write.
Changed_CountsTwice(r, s) == [r EXCEPT !.state = s, !.version = @ + 2, !.issued = @ \/ s = "issued"]

(* The copy after an operation: next state, next version, issuer of an approval. *)
Changed(r, s) == [r EXCEPT !.state = s, !.version = @ + 1, !.issued = @ \/ s = "issued"]

At(w, phase) == req[w] # None /\ req[w].phase = phase

Goto(w, phase) == req' = [req EXCEPT ![w].phase = phase]

(* Execute works on the mail of this disposition. *)
Executing(d) == \E v \in Workers :
  req[v] # None /\ req[v].id = d /\ req[v].phase \in {"getMail", "saveMail"}

(* The row is a change of the row that is there. *)
Fresh(d, r) == disp[d] = None \/ disp[d].version = r.version - 1

(* SaveTx: the whole row by id, and the index with it. *)
SaveRow(d, r) ==
  /\ disp' = [disp EXCEPT ![d] = r]
  /\ Indexed(d, r)
  /\ due' = due \cup {d}
  /\ stale' = IF Fresh(d, r) THEN stale ELSE stale \cup {d}
  /\ crossed' = IF Fresh(d, r) /\ ~Executing(d) THEN crossed ELSE crossed \cup {r.mail}
  /\ UNCHANGED <<mail, item>>

-----------------------------------------------------------------------------
(* Operations *)

(* CountActiveByMailTx > 0 *)
Lost(m) == active[m] # None

Submit(w, d, m, ty) ==
  /\ req[w] = None
  /\ disp[d] = None
  /\ LET r == [mail |-> m, type |-> ty, state |-> IF Lost(m) THEN "lost" ELSE "pending",
               issued |-> FALSE, version |-> 1]
     IN /\ SaveRow(d, r)
        /\ req' = [req EXCEPT ![w] = [id |-> d, phase |-> "record", row |-> r, copy |-> None]]

(* Get and validate; the request goes on with its changed copy. *)
Begin(w, d, target) ==
  /\ req[w] = None
  /\ disp[d] # None
  /\ disp[d].version < MaxVersion
  /\ Validate(disp[d].state, target)
  /\ req' = [req EXCEPT ![w] = [id |-> d, phase |-> "save",
                                row |-> Changed(disp[d], target), copy |-> None]]
  /\ UNCHANGED <<disp, active, mail, item, due, stale, crossed>>

Review(w, d)   == Begin(w, d, "issued") \/ Begin(w, d, "rejected")
Withdraw(w, d) == Begin(w, d, "withdrawn")
Execute(w, d)  == Begin(w, d, "executing")

Save(w) ==
  /\ At(w, "save")
  /\ SaveRow(req[w].id, req[w].row)
  /\ Goto(w, IF req[w].row.state = "executing" THEN "getMail" ELSE "record")

GetMail(w) ==
  /\ At(w, "getMail")
  /\ req' = [req EXCEPT ![w].phase = "saveMail", ![w].copy = mail[req[w].row.mail]]
  /\ UNCHANGED <<disp, active, mail, item, due, stale, crossed>>

(* The mail's own state machine is not consulted. *)
Executed(m, d, ty) ==
  [state       |-> IF ty \in DOMAIN MailStateFor THEN MailStateFor[ty] ELSE m.state,
   disposition |-> d,
   addr        |-> IF ty = "redirect" /\ d \in Addressed THEN d ELSE m.addr]

InHand(m) == \E b \in Batches : item[b] # None /\ item[b].mail = m

SaveMail(w) ==
  LET q == req[w]  m == req[w].row.mail IN
  /\ At(w, "saveMail")
  /\ q.row.version < MaxVersion
  /\ mail' = [mail EXCEPT ![m] = Executed(q.copy, q.id, q.row.type)]
  /\ crossed' = IF InHand(m) THEN crossed \cup {m} ELSE crossed
  /\ req' = [req EXCEPT ![w] = [id |-> q.id, phase |-> "complete",
                                row |-> Changed(q.row, "completed"), copy |-> None]]
  /\ UNCHANGED <<disp, active, item, due, stale>>

Complete(w) ==
  /\ At(w, "complete")
  /\ SaveRow(req[w].id, req[w].row)
  /\ Goto(w, "record")

\* Mutant: rejections are not recorded.
Audited_NotRejected(q) == disp[q.id].state = q.row.state /\ q.row.state # "rejected"

(* The record that is written names the state the row is in. *)
Audited(q) == disp[q.id].state = q.row.state

(* Ledger, audit record and event; their errors are ignored. *)
Record(w) ==
  /\ At(w, "record")
  /\ due' = IF Audited(req[w]) THEN due \ {req[w].id} ELSE due
  /\ req' = [req EXCEPT ![w] = None]
  /\ UNCHANGED <<disp, active, mail, item, stale, crossed>>

(* The request ends where it is: a statement fails, its context expires, the *)
(* process stops.  Nothing is undone.                                        *)
Fail(w) ==
  /\ req[w] # None
  /\ due' = IF At(w, "save") THEN due ELSE due \ {req[w].id}
  /\ req' = [req EXCEPT ![w] = None]
  /\ UNCHANGED <<disp, active, mail, item, stale, crossed>>

-----------------------------------------------------------------------------
(* The mails of a batch: processItem delivers a mail, compensateItem takes   *)
(* the delivery back.                                                        *)

\* Mutant: whatever state a mail is in, it is delivered.
DeliveredFrom_Any(s) == TRUE

DeliveredFrom(s) == s \in OnTheRoad

TakenBackFrom(s) == s = "arrived"

(* The mail is read, checked and changed in memory. *)
ReadItem(b, m) ==
  /\ item[b] = None
  /\ \/ /\ DeliveredFrom(mail[m].state)
        /\ item' = [item EXCEPT ![b] = [mail |-> m, row |-> [mail[m] EXCEPT !.state = "arrived"]]]
     \/ /\ TakenBackFrom(mail[m].state)
        /\ item' = [item EXCEPT ![b] = [mail |-> m, row |-> [mail[m] EXCEPT !.state = "in_transit"]]]
  /\ UNCHANGED <<disp, active, mail, due, req, stale, crossed>>

(* The whole copy is written back, whatever the mail has become. *)
SaveItem(b) ==
  /\ item[b] # None
  /\ mail' = [mail EXCEPT ![item[b].mail] = item[b].row]
  /\ item' = [item EXCEPT ![b] = None]
  /\ UNCHANGED <<disp, active, due, req, stale, crossed>>

(* The save fails, or the attempt ends there. *)
FailItem(b) ==
  /\ item[b] # None
  /\ item' = [item EXCEPT ![b] = None]
  /\ UNCHANGED <<disp, active, mail, due, req, stale, crossed>>

Next ==
  \/ \E w \in Workers :
       \/ \E d \in Disps : \/ \E m \in Mails, ty \in Types : Submit(w, d, m, ty)
                           \/ Review(w, d) \/ Withdraw(w, d) \/ Execute(w, d)
       \/ Save(w) \/ GetMail(w) \/ SaveMail(w) \/ Complete(w) \/ Record(w) \/ Fail(w)
  \/ \E b \in Batches : SaveItem(b) \/ FailItem(b) \/ \E m \in Mails : ReadItem(b, m)

Spec == Init /\ [][Next]_vars

-----------------------------------------------------------------------------
(* Properties *)

(* What GetActiveByMail lists, and what makes a Submit lose, is a            *)
(* disposition of that mail that really is active; and every active          *)
(* disposition is listed, so that there is at most one per mail, also when   *)
(* requests end half way, as long as no stale copy was written over its row. *)
IndexIsExact ==
  /\ \A m \in Mails : active[m] # None =>
       LET d == active[m]
       IN disp[d] # None /\ disp[d].mail = m /\ disp[d].state \in ActiveStates
  /\ \A d \in Disps \ stale :
       disp[d] # None /\ disp[d].state \in ActiveStates => active[disp[d].mail] = d

(* A submission that lost stays lost, and never reaches its mail. *)
LostIsFinal ==
  [][\A d \in Disps : disp[d] # None /\ disp[d].state = "lost"
       => disp'[d] = disp[d] /\ \A m \in Mails : mail'[m].disposition # d]_vars

(* An execution that wrote its mail is not undone by the others that write   *)
(* mails from copies.  A batch only delivers the mail or takes that back;    *)
(* else only the one active disposition of the mail, while it is executed,   *)
(* puts its id, the state its type asks for and its own address there.  Lost *)
(* is only what the cases in crossed lose.                                   *)
NoExecutionIsUndone ==
  [][\A m \in Mails \ crossed' : mail'[m] # mail[m] =>
       LET d == mail'[m].disposition IN
       \/ /\ mail[m].state \in OnTheRoad /\ mail'[m].state \in OnTheRoad
          /\ mail'[m] = [mail[m] EXCEPT !.state = mail'[m].state]
       \/ /\ d \in Disps /\ active[m] = d /\ disp[d].state = "executing"
          /\ disp[d].type \in DOMAIN MailStateFor => mail'[m].state = MailStateFor[disp[d].type]
          /\ mail'[m].addr # mail[m].addr => d \in Addressed /\ mail'[m].addr = d]_vars

(* README "每次状态变化写入审计记录": the state a disposition is left in,     *)
(* once no request works on it, has an audit record, however requests were   *)
(* interleaved, unless the request that owed the record was cut short.       *)
StatesAreAudited ==
  \A d \in due : \E w \in Workers : req[w] # None /\ req[w].id = d

(* "an active disposition already exists for this mail": never two of them. *)
OneActivePerMail ==
  \A d, e \in Disps :
    /\ disp[d] # None /\ disp[d].state \in ActiveStates
    /\ disp[e] # None /\ disp[e].state \in ActiveStates
    /\ disp[d].mail = disp[e].mail
    => d = e
===============================================================================
