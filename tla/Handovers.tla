------------------------------- MODULE Handovers -------------------------------
(***************************************************************************)
(* service.HandoverService over handover_forms and mail_items.  Register   *)
(* looks the form number up, saves the form and then its mails, each in a  *)
(* transaction of its own.  HandoverSignoff reads, decides and writes the  *)
(* form under the process-wide signoffMu.  ModifyHandover reads the form,  *)
(* sees a draft, and writes the whole row back without that lock.          *)
(***************************************************************************)
EXTENDS Naturals, FiniteSets

CONSTANTS
  Forms,        (* form numbers; one row of handover_forms each            *)
  Mails,        (* mail numbers, unique in mail_items                      *)
  None,         (* no row, no request, nobody                              *)
  Clerks,       (* requests that register and sign                         *)
  Editors,      (* requests that modify a draft                            *)
  MaxVersion    (* bound on the version of a form                          *)

VARIABLES
  form,         (* rows of handover_forms                                  *)
  mailOf,       (* rows of mail_items: per mail its handover_id            *)
  lock,         (* holder of signoffMu                                     *)
  req,          (* per request in flight, where it is and what it read     *)
  registered,   (* history: requests whose Register succeeded, per form    *)
  acked,        (* history: successful signoffs, per form and party        *)
  overwritten   (* history: forms an edit has written a stale copy to      *)

vars == <<form, mailOf, lock, req, registered, acked, overwritten>>

Workers == Clerks \cup Editors

Parties == {"outbound", "arrival"}

FormStates == {"draft", "outbound_signed", "arrival_signed", "dual_signed"}

(* signers: the parties whose signer column is set. *)
Form == [state : FormStates, signers : SUBSET Parties, version : 1 .. MaxVersion,
         count : 0 .. Cardinality(Mails)]

Request == [phase : {"saveForm", "saveMails", "sign", "edit"}, form : Forms,
            copy : Form, todo : SUBSET Mails, party : Parties \cup {None}]

ASSUME FormAssumption == MaxVersion \in Nat \ {0} /\ IsFiniteSet(Mails)

ASSUME NoneAssumption ==
  None \notin Forms /\ None \notin Workers /\ None \notin Parties /\ None \notin Form /\ None \notin Request

TypeOK ==
  /\ form \in [Forms -> Form \cup {None}]
  /\ mailOf \in [Mails -> Forms \cup {None}]
  /\ lock \in Clerks \cup {None}
  /\ req \in [Workers -> Request \cup {None}]
  /\ \A w \in Clerks : lock = w <=> req[w] # None /\ req[w].phase = "sign"
  /\ registered \in [Forms -> SUBSET Clerks]
  /\ acked \in [Forms -> [Parties -> Nat]]
  /\ overwritten \subseteq Forms

Init ==
  /\ form = [f \in Forms |-> None]
  /\ mailOf = [m \in Mails |-> None]
  /\ lock = None
  /\ req = [w \in Workers |-> None]
  /\ registered = [f \in Forms |-> {}]
  /\ acked = [f \in Forms |-> [p \in Parties |-> 0]]
  /\ overwritten = {}

At(w, phase) == req[w] # None /\ req[w].phase = phase

-----------------------------------------------------------------------------
(* Register *)

(* GetByFormNo finds nothing. *)
Register(w, f, ms) ==
  /\ req[w] = None
  /\ form[f] = None
  /\ req' = [req EXCEPT ![w] =
       [phase |-> "saveForm", form |-> f, todo |-> ms, party |-> None,
        copy |-> [state |-> "draft", signers |-> {}, version |-> 1, count |-> Cardinality(ms)]]]
  /\ UNCHANGED <<form, mailOf, lock, registered, acked, overwritten>>

(* form_no is UNIQUE: saving a second row of it fails. *)
FormNoIsFree(f) == form[f] = None

SaveForm(w) ==
  LET q == req[w] IN
  /\ At(w, "saveForm")
  /\ FormNoIsFree(q.form)
  /\ form' = [form EXCEPT ![q.form] = q.copy]
  /\ req' = [req EXCEPT ![w].phase = "saveMails"]
  /\ UNCHANGED <<mailOf, lock, registered, acked, overwritten>>

\* Mutant: a number that is taken is passed over.
SaveMail_PassesOver(w) ==
  /\ At(w, "saveMails")
  /\ \E m \in req[w].todo :
       /\ mailOf' = [mailOf EXCEPT ![m] = IF @ = None THEN req[w].form ELSE @]
       /\ req' = [req EXCEPT ![w].todo = @ \ {m}]
  /\ UNCHANGED <<form, lock, registered, acked, overwritten>>

(* One mail, if its number is not taken. *)
SaveMail(w) ==
  /\ At(w, "saveMails")
  /\ \E m \in req[w].todo :
       /\ mailOf[m] = None
       /\ mailOf' = [mailOf EXCEPT ![m] = req[w].form]
       /\ req' = [req EXCEPT ![w].todo = @ \ {m}]
  /\ UNCHANGED <<form, lock, registered, acked, overwritten>>

Registered(w) ==
  /\ At(w, "saveMails") /\ req[w].todo = {}
  /\ registered' = [registered EXCEPT ![req[w].form] = @ \cup {w}]
  /\ req' = [req EXCEPT ![w] = None]
  /\ UNCHANGED <<form, mailOf, lock, acked, overwritten>>

-----------------------------------------------------------------------------
(* HandoverSignoff *)

(* HandoverNextStateAfterSignoff *)
HandoverNextState(state, party) ==
  CASE state = "draft" -> IF party = "outbound" THEN "outbound_signed" ELSE "arrival_signed"
    [] state = "outbound_signed" /\ party = "arrival" -> "dual_signed"
    [] state = "arrival_signed" /\ party = "outbound" -> "dual_signed"
    [] OTHER -> state

\* Mutant: HandoverSignoff calls Signoff instead of SignoffWithLock.
LockIsFree_Ignored == lock \in Clerks \cup {None}

LockIsFree == lock = None

\* Mutant: every signoff fills the outbound signer.
Signed_Outbound(r, party) ==
  [r EXCEPT !.state = HandoverNextState(@, party), !.version = @ + 1,
            !.signers = @ \cup {"outbound"}]

(* The copy after a signoff. *)
Signed(r, party) ==
  [r EXCEPT !.state = HandoverNextState(@, party), !.version = @ + 1, !.signers = @ \cup {party}]

(* Lock, Get, and the checks: the form is not complete and the party's turn *)
(* changes its state.                                                       *)
Signoff(w, f, party) ==
  /\ req[w] = None
  /\ LockIsFree
  /\ form[f] # None
  /\ form[f].state # "dual_signed"
  /\ HandoverNextState(form[f].state, party) # form[f].state
  /\ form[f].version < MaxVersion
  /\ lock' = w
  /\ req' = [req EXCEPT ![w] = [phase |-> "sign", form |-> f, todo |-> {}, party |-> party,
                                copy |-> Signed(form[f], party)]]
  /\ UNCHANGED <<form, mailOf, registered, acked, overwritten>>

SaveSignoff(w) ==
  LET q == req[w] IN
  /\ At(w, "sign")
  /\ form' = [form EXCEPT ![q.form] = q.copy]
  /\ acked' = [acked EXCEPT ![q.form][q.party] = @ + 1]
  /\ lock' = None
  /\ req' = [req EXCEPT ![w] = None]
  /\ UNCHANGED <<mailOf, registered, overwritten>>

-----------------------------------------------------------------------------
(* ModifyHandover *)

Modify(w, f) ==
  /\ req[w] = None
  /\ form[f] # None
  /\ form[f].state = "draft"
  /\ form[f].version < MaxVersion
  /\ req' = [req EXCEPT ![w] = [phase |-> "edit", form |-> f, todo |-> {}, party |-> None,
                                copy |-> [form[f] EXCEPT !.version = @ + 1]]]
  /\ UNCHANGED <<form, mailOf, lock, registered, acked, overwritten>>

(* The row is still the one the edit read; only its version was counted up. *)
IsCopyOfRow(w) == [req[w].copy EXCEPT !.version = @ - 1] = form[req[w].form]

ModifySave(w) ==
  /\ At(w, "edit")
  /\ form' = [form EXCEPT ![req[w].form] = req[w].copy]
  /\ overwritten' = IF IsCopyOfRow(w) THEN overwritten ELSE overwritten \cup {req[w].form}
  /\ req' = [req EXCEPT ![w] = None]
  /\ UNCHANGED <<mailOf, lock, registered, acked>>

(* A statement fails (a number is taken, the request's time is up), or the *)
(* process stops: the lock is released, what was saved stays.              *)
Fail(w) ==
  /\ req[w] # None
  /\ req' = [req EXCEPT ![w] = None]
  /\ lock' = IF lock = w THEN None ELSE lock
  /\ UNCHANGED <<form, mailOf, registered, acked, overwritten>>

Next ==
  \/ \E w \in Clerks :
       \/ \E f \in Forms : \/ \E ms \in SUBSET Mails : Register(w, f, ms)
                           \/ \E p \in Parties : Signoff(w, f, p)
       \/ SaveForm(w) \/ SaveMail(w) \/ Registered(w) \/ SaveSignoff(w)
  \/ \E w \in Editors : \/ \E f \in Forms : Modify(w, f)
                        \/ ModifySave(w)
  \/ \E w \in Workers : Fail(w)

Spec == Init /\ [][Next]_vars

-----------------------------------------------------------------------------
(* Properties *)

(* The parties a state stands for. *)
SignersOf(state) ==
  CASE state = "draft" -> {}
    [] state = "outbound_signed" -> {"outbound"}
    [] state = "arrival_signed" -> {"arrival"}
    [] OTHER -> Parties

(* Whatever stale copies were written back, the state of a form names       *)
(* exactly the parties whose signature it carries; dual_signed needs both.  *)
StateShowsSigners == \A f \in Forms : form[f] # None => form[f].signers = SignersOf(form[f].state)

MailsOf(f, rows) == {m \in Mails : rows[m] = f}

(* The unlocked check of the form number lets two registrations through;    *)
(* one of them succeeds, and mails name a form that exists.  A form whose   *)
(* registration was answered with success has the mails it counts, also     *)
(* when registrations compete for a mail number and some fail half way.     *)
RegistrationIsSound ==
  /\ \A f \in Forms : \A v, w \in registered[f] : v = w
  /\ \A w \in Clerks : At(w, "saveMails") => registered[req[w].form] = {}
  /\ \A m \in Mails : mailOf[m] # None => form[mailOf[m]] # None
  /\ \A f \in Forms : registered[f] # {} =>
       form[f] # None /\ form[f].count = Cardinality(MailsOf(f, mailOf))

(* concurrent_test.go: "exactly one arrival signoff should succeed": each   *)
(* party's signoff is acknowledged at most once, and what was acknowledged  *)
(* stays on the form, unless an edit wrote a draft over a signature.        *)
SignoffsCountOnce ==
  \A f \in Forms \ overwritten, p \in Parties :
    /\ acked[f][p] <= 1
    /\ acked[f][p] > 0 => form[f] # None /\ p \in form[f].signers
===============================================================================
