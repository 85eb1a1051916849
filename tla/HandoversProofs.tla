---------------------------- MODULE HandoversProofs ----------------------------
(***************************************************************************)
(* Proofs about Handovers for any forms, mails, clerks and editors.        *)
(* Nothing but the UNIQUE form number and signoffMu keeps two requests     *)
(* apart.  The first makes the one that saved a form the only one that     *)
(* saves its mails (SaversAreAlone); the second makes the copy a signoff   *)
(* will write one signature ahead of its form (SignsAreCurrent), unless an *)
(* edit, which takes no lock, has written an older copy in between.        *)
(***************************************************************************)
EXTENDS Handovers, FiniteSetTheorems, TLAPS

(* What a request in flight knows of its form, in the table rows.            *)
CopyAgrees(q, rows) ==
  /\ q.copy.signers = SignersOf(q.copy.state)
  /\ q.phase = "saveForm" => q.copy.count = Cardinality(q.todo)
  /\ q.phase # "saveForm" => rows[q.form] # None
  /\ q.phase \in {"sign", "edit"} => q.copy.count = rows[q.form].count
  /\ q.phase = "sign" => q.party \in Parties

CopiesAgree == \A w \in Workers : req[w] # None => CopyAgrees(req[w], form)

(* The request that saved a form is the only one that saves its mails, and   *)
(* those it has saved and those it has not are the mails the form counts.    *)
SaversAreAlone ==
  /\ \A v, w \in Workers :
       At(v, "saveMails") /\ At(w, "saveMails") /\ req[v].form = req[w].form => v = w
  /\ \A w \in Workers : At(w, "saveMails") =>
       /\ registered[req[w].form] = {}
       /\ form[req[w].form].count = Cardinality(MailsOf(req[w].form, mailOf)) + Cardinality(req[w].todo)

(* What a signoff will write is its form with one more signature.            *)
SignIsCurrent(q, rows) ==
  /\ q.party \notin rows[q.form].signers
  /\ q.copy.signers = rows[q.form].signers \cup {q.party}

SignsAreCurrent ==
  \A w \in Clerks : At(w, "sign") /\ req[w].form \notin overwritten => SignIsCurrent(req[w], form)

(* The inductive invariant. *)
IInv ==
  /\ TypeOK /\ StateShowsSigners /\ RegistrationIsSound /\ SignoffsCountOnce
  /\ CopiesAgree /\ SaversAreAlone /\ SignsAreCurrent

USE FormAssumption, NoneAssumption

(* With empty tables the invariant holds. *)
LEMMA InitIInv == Init => IInv
<1> SUFFICES ASSUME Init PROVE IInv
  OBVIOUS
<1>1. TypeOK
  BY DEF Init, TypeOK, Workers
<1>2. StateShowsSigners /\ RegistrationIsSound /\ SignoffsCountOnce
  BY DEF Init, StateShowsSigners, RegistrationIsSound, SignoffsCountOnce, At, Workers
<1>3. CopiesAgree /\ SaversAreAlone /\ SignsAreCurrent
  BY DEF Init, CopiesAgree, SaversAreAlone, SignsAreCurrent, At, Workers
<1> QED BY <1>1, <1>2, <1>3 DEF IInv

(* A step that changes one request, and who holds the lock, but no table.    *)
LEMMA RequestMoves ==
  ASSUME IInv, NEW w \in Workers, NEW q \in Request \cup {None},
         req' = [req EXCEPT ![w] = q],
         UNCHANGED <<form, mailOf, registered, acked, overwritten>>,
         lock' \in Clerks \cup {None},
         \A c \in Clerks : lock' = c <=> req'[c] # None /\ req'[c].phase = "sign",
         q # None => CopyAgrees(q, form) /\ q.phase # "saveMails",
         q # None /\ q.phase = "sign" => q.form \in overwritten \/ SignIsCurrent(q, form)
  PROVE  IInv'
<1>1. req'[w] = q /\ \A v \in Workers \ {w} : req'[v] = req[v]
  BY DEF IInv, TypeOK
<1>2. TypeOK'
  BY DEF IInv, TypeOK
<1>3. StateShowsSigners' /\ SignoffsCountOnce'
  BY DEF IInv, StateShowsSigners, SignoffsCountOnce
<1>4. RegistrationIsSound'
  BY <1>1 DEF IInv, RegistrationIsSound, At, Workers
<1>5. CopiesAgree'
  BY <1>1 DEF IInv, CopiesAgree, CopyAgrees
<1>6. SaversAreAlone'
  BY <1>1 DEF IInv, SaversAreAlone, At
<1>7. SignsAreCurrent'
  BY <1>1 DEF IInv, SignsAreCurrent, SignIsCurrent, At, Workers
<1> QED BY <1>2, <1>3, <1>4, <1>5, <1>6, <1>7 DEF IInv

(* Register prepares a draft without signatures that counts its mails. *)
LEMMA RegisterKeeps ==
  ASSUME IInv, NEW w \in Clerks, NEW f \in Forms, NEW ms \in SUBSET Mails, Register(w, f, ms)
  PROVE  IInv'
<1> DEFINE r == [state |-> "draft", signers |-> {}, version |-> 1, count |-> Cardinality(ms)]
           q == [phase |-> "saveForm", form |-> f, todo |-> ms, party |-> None, copy |-> r]
<1>1. IsFiniteSet(ms) /\ Cardinality(ms) \in Nat /\ Cardinality(ms) <= Cardinality(Mails)
      /\ Cardinality(Mails) \in Nat
  BY FS_Subset, FS_CardinalityType
<1>2. r \in Form
  BY <1>1 DEF Form, FormStates
<1>3. r.signers = SignersOf(r.state) /\ r.count = Cardinality(ms)
  BY DEF SignersOf
<1> HIDE DEF r
<1>4. q \in Request /\ q # None
  BY <1>2 DEF Request
<1>5. q.phase = "saveForm" /\ q.form = f /\ q.todo = ms /\ q.copy = r
  OBVIOUS
<1>6. req[w] = None /\ req' = [req EXCEPT ![w] = q] /\ lock' = lock
      /\ UNCHANGED <<form, mailOf, registered, acked, overwritten>>
  BY DEF Register, r
<1> HIDE DEF q
<1>7. CopyAgrees(q, form)
  BY <1>3, <1>5 DEF CopyAgrees
<1>8. \A c \in Clerks : lock' = c <=> req'[c] # None /\ req'[c].phase = "sign"
  BY <1>5, <1>6 DEF IInv, TypeOK, Workers
<1>9. w \in Workers /\ lock' \in Clerks \cup {None}
  BY <1>6 DEF Workers, IInv, TypeOK
<1> QED BY <1>4, <1>5, <1>6, <1>7, <1>8, <1>9, RequestMoves

(* Signoff holds the lock, and prepares the form with one signature more.    *)
LEMMA SignoffKeeps ==
  ASSUME IInv, NEW w \in Clerks, NEW f \in Forms, NEW p \in Parties, Signoff(w, f, p)
  PROVE  IInv'
<1> DEFINE r == Signed(form[f], p)
           q == [phase |-> "sign", form |-> f, todo |-> {}, party |-> p, copy |-> r]
<1>1. /\ req[w] = None /\ lock = None /\ form[f] # None /\ form[f] \in Form
      /\ form[f].version < MaxVersion /\ form[f].state # "dual_signed"
      /\ HandoverNextState(form[f].state, p) # form[f].state
      /\ form[f].signers = SignersOf(form[f].state)
      /\ lock' = w /\ req' = [req EXCEPT ![w] = q]
      /\ UNCHANGED <<form, mailOf, registered, acked, overwritten>>
  BY DEF Signoff, LockIsFree, IInv, TypeOK, StateShowsSigners
<1>2. /\ HandoverNextState(form[f].state, p) \in FormStates
      /\ p \notin form[f].signers
      /\ form[f].signers \cup {p} = SignersOf(HandoverNextState(form[f].state, p))
  BY <1>1 DEF Form, FormStates, HandoverNextState, SignersOf, Parties
<1>3. /\ r \in Form /\ r.signers = form[f].signers \cup {p} /\ r.count = form[f].count
      /\ r.state = HandoverNextState(form[f].state, p)
  <2>1. form[f].version + 1 \in 1 .. MaxVersion
    BY <1>1 DEF Form
  <2>2. form[f].signers \cup {p} \in SUBSET Parties
    BY <1>1 DEF Form
  <2> QED BY <1>1, <1>2, <2>1, <2>2 DEF Signed, Form
<1> HIDE DEF r
<1>4. q \in Request /\ q # None
  BY <1>3 DEF Request
<1>5. q.phase = "sign" /\ q.form = f /\ q.party = p /\ q.copy = r
  OBVIOUS
<1> HIDE DEF q
<1>6. CopyAgrees(q, form) /\ SignIsCurrent(q, form)
  BY <1>1, <1>2, <1>3, <1>5 DEF CopyAgrees, SignIsCurrent
<1>7. \A c \in Clerks : lock' = c <=> req'[c] # None /\ req'[c].phase = "sign"
  BY <1>1, <1>4, <1>5 DEF IInv, TypeOK, Workers
<1> QED BY <1>1, <1>4, <1>5, <1>6, <1>7, RequestMoves DEF Workers

(* ModifyHandover copies a draft. *)
LEMMA ModifyKeeps ==
  ASSUME IInv, NEW w \in Editors, NEW f \in Forms, Modify(w, f)
  PROVE  IInv'
<1> DEFINE r == [form[f] EXCEPT !.version = @ + 1]
           q == [phase |-> "edit", form |-> f, todo |-> {}, party |-> None, copy |-> r]
<1>1. /\ req[w] = None /\ form[f] # None /\ form[f] \in Form /\ form[f].version < MaxVersion
      /\ form[f].signers = SignersOf(form[f].state)
      /\ lock' = lock /\ req' = [req EXCEPT ![w] = q]
      /\ UNCHANGED <<form, mailOf, registered, acked, overwritten>>
  BY DEF Modify, IInv, TypeOK, StateShowsSigners
<1>2. r \in Form /\ r.signers = form[f].signers /\ r.count = form[f].count /\ r.state = form[f].state
  <2>1. form[f].version + 1 \in 1 .. MaxVersion
    BY <1>1 DEF Form
  <2> QED BY <1>1, <2>1 DEF Form
<1> HIDE DEF r
<1>3. q \in Request /\ q # None
  BY <1>2 DEF Request
<1>4. q.phase = "edit" /\ q.form = f /\ q.copy = r
  OBVIOUS
<1> HIDE DEF q
<1>5. CopyAgrees(q, form)
  BY <1>1, <1>2, <1>4 DEF CopyAgrees
<1>6. \A c \in Clerks : lock' = c <=> req'[c] # None /\ req'[c].phase = "sign"
  BY <1>1, <1>3, <1>4 DEF IInv, TypeOK, Workers
<1>7. w \in Workers /\ lock' \in Clerks \cup {None}
  BY <1>1 DEF Workers, IInv, TypeOK
<1> QED BY <1>1, <1>3, <1>4, <1>5, <1>6, <1>7, RequestMoves

(* A request that ends gives the lock back. *)
LEMMA FailKeeps ==
  ASSUME IInv, NEW w \in Workers, Fail(w)
  PROVE  IInv'
<1>1. /\ req' = [req EXCEPT ![w] = None] /\ lock' = IF lock = w THEN None ELSE lock
      /\ UNCHANGED <<form, mailOf, registered, acked, overwritten>>
  BY DEF Fail
<1>2. lock' \in Clerks \cup {None}
  BY <1>1 DEF IInv, TypeOK
<1>3. \A c \in Clerks : lock' = c <=> req'[c] # None /\ req'[c].phase = "sign"
  BY <1>1 DEF IInv, TypeOK, Workers
<1> QED BY <1>1, <1>2, <1>3, RequestMoves

(* Saving a form whose number is free. *)
LEMMA SaveFormKeeps ==
  ASSUME IInv, NEW w \in Clerks, SaveForm(w)
  PROVE  IInv'
<1> DEFINE f == req[w].form
           r == req[w].copy
           q == [req[w] EXCEPT !.phase = "saveMails"]
<1>1. /\ w \in Workers /\ req[w] \in Request /\ req[w] # None /\ req[w].phase = "saveForm"
      /\ f \in Forms /\ r \in Form /\ form[f] = None
      /\ form' = [form EXCEPT ![f] = r]
      /\ UNCHANGED <<mailOf, lock, registered, acked, overwritten>>
  BY DEF SaveForm, At, FormNoIsFree, Workers, IInv, TypeOK, Request
<1>2. req' = [req EXCEPT ![w] = q]
  BY <1>1 DEF SaveForm, IInv, TypeOK
<1>3. /\ q \in Request /\ q.phase = "saveMails" /\ q.form = f /\ q.copy = r /\ q.todo = req[w].todo
      /\ q # None /\ r # None
  BY <1>1 DEF Request
<1> HIDE DEF q
<1>4. /\ req'[w] = q /\ \A v \in Workers \ {w} : req'[v] = req[v]
      /\ form'[f] = r /\ \A g \in Forms \ {f} : form'[g] = form[g]
  BY <1>1, <1>2 DEF IInv, TypeOK
<1>5. r.signers = SignersOf(r.state) /\ r.count = Cardinality(req[w].todo)
  BY <1>1 DEF IInv, CopiesAgree, CopyAgrees
<1>6. \A v \in Workers : req[v] # None /\ req[v].phase # "saveForm" => req[v].form \in Forms \ {f}
  BY <1>1 DEF IInv, TypeOK, CopiesAgree, CopyAgrees, Request
<1>7. TypeOK'
  BY <1>1, <1>2, <1>3, <1>4 DEF IInv, TypeOK, Workers
<1>8. StateShowsSigners'
  BY <1>4, <1>5 DEF IInv, StateShowsSigners, SignersOf
<1>9. /\ registered[f] = {} /\ MailsOf(f, mailOf) = {}
      /\ f \notin overwritten => \A p \in Parties : acked[f][p] <= 1 /\ ~(acked[f][p] > 0)
  <2>1. registered[f] = {}
    BY <1>1 DEF IInv, RegistrationIsSound
  <2>2. \A m \in Mails : mailOf[m] # f
    BY <1>1 DEF IInv, RegistrationIsSound
  <2> QED BY <1>1, <2>1, <2>2 DEF IInv, SignoffsCountOnce, MailsOf
<1>10. RegistrationIsSound'
  <2>1. \A g \in Forms : \A u, v \in registered'[g] : u = v
    BY <1>1 DEF IInv, RegistrationIsSound
  <2>2. \A v \in Clerks : At(v, "saveMails")' => registered'[req'[v].form] = {}
    BY <1>1, <1>3, <1>4, <1>9 DEF IInv, RegistrationIsSound, At, Workers
  <2>3. \A m \in Mails : mailOf'[m] # None => form'[mailOf'[m]] # None
    BY <1>1, <1>3, <1>4 DEF IInv, TypeOK, RegistrationIsSound
  <2>4. \A g \in Forms : registered'[g] # {} =>
          form'[g] # None /\ form'[g].count = Cardinality(MailsOf(g, mailOf'))
    BY <1>1, <1>4, <1>9 DEF IInv, RegistrationIsSound
  <2> QED BY <2>1, <2>2, <2>3, <2>4 DEF RegistrationIsSound, At
<1>11. SignoffsCountOnce'
  BY <1>1, <1>4, <1>9 DEF IInv, SignoffsCountOnce
<1>12. CopiesAgree'
  BY <1>1, <1>3, <1>4, <1>5, <1>6 DEF IInv, CopiesAgree, CopyAgrees
<1>13. SaversAreAlone'
  <2>1. ASSUME NEW u \in Workers, NEW v \in Workers, At(u, "saveMails")', At(v, "saveMails")',
               req'[u].form = req'[v].form
        PROVE  u = v
    BY <1>3, <1>4, <1>6, <2>1 DEF IInv, SaversAreAlone, At
  <2>2. ASSUME NEW v \in Workers, At(v, "saveMails")'
        PROVE  /\ registered'[req'[v].form] = {}
               /\ form'[req'[v].form].count
                    = Cardinality(MailsOf(req'[v].form, mailOf')) + Cardinality(req'[v].todo)
    <3>1. CASE v = w
      <4>1. Cardinality({}) = 0 /\ Cardinality(req[w].todo) \in Nat
        BY <1>1, FS_EmptySet, FS_Subset, FS_CardinalityType DEF Request
      <4>2. /\ req'[v].form = f /\ req'[v].todo = req[w].todo /\ form'[f] = r
            /\ registered' = registered /\ mailOf' = mailOf
        BY <1>1, <1>3, <1>4, <3>1
      <4>3. Cardinality(MailsOf(f, mailOf)) = 0
        BY <1>9, <4>1
      <4>4. MailsOf(req'[v].form, mailOf') = MailsOf(f, mailOf)
        BY <4>2
      <4>5. form'[req'[v].form].count = Cardinality(req[w].todo)
        BY <1>5, <4>2
      <4>6. Cardinality(MailsOf(req'[v].form, mailOf')) = 0
        BY <4>3, <4>4
      <4>7. Cardinality(req'[v].todo) = Cardinality(req[w].todo)
        BY <4>2
      <4>8. registered'[req'[v].form] = {}
        BY <1>9, <4>2
      <4>9. 0 + Cardinality(req[w].todo) = Cardinality(req[w].todo)
        BY <4>1
      <4> QED BY <4>5, <4>6, <4>7, <4>8, <4>9
    <3>2. CASE v # w
      BY <1>1, <1>4, <1>6, <2>2, <3>2 DEF IInv, SaversAreAlone, At
    <3> QED BY <3>1, <3>2
  <2> QED BY <2>1, <2>2 DEF SaversAreAlone, At
<1>14. SignsAreCurrent'
  BY <1>1, <1>3, <1>4, <1>6 DEF IInv, SignsAreCurrent, SignIsCurrent, At, Workers
<1> QED BY <1>7, <1>8, <1>10, <1>11, <1>12, <1>13, <1>14 DEF IInv

(* A mail whose number is free joins its form. *)
LEMMA SaveMailKeeps ==
  ASSUME IInv, NEW w \in Clerks, SaveMail(w)
  PROVE  IInv'
<1> DEFINE f == req[w].form
<1>1. PICK m \in req[w].todo :
        /\ mailOf[m] = None /\ mailOf' = [mailOf EXCEPT ![m] = f]
        /\ req' = [req EXCEPT ![w].todo = @ \ {m}]
  BY DEF SaveMail
<1> DEFINE q == [req[w] EXCEPT !.todo = @ \ {m}]
<1>2. /\ w \in Workers /\ req[w] \in Request /\ req[w] # None /\ req[w].phase = "saveMails"
      /\ f \in Forms /\ m \in Mails /\ req[w].todo \in SUBSET Mails
      /\ UNCHANGED <<form, lock, registered, acked, overwritten>>
  BY <1>1 DEF SaveMail, At, Workers, IInv, TypeOK, Request
<1>3. req' = [req EXCEPT ![w] = q]
  BY <1>1, <1>2 DEF IInv, TypeOK
<1>4. /\ q \in Request /\ q.phase = "saveMails" /\ q.form = f /\ q.copy = req[w].copy
      /\ q.todo = req[w].todo \ {m} /\ q # None
  BY <1>2 DEF Request
<1> HIDE DEF q
<1>5. /\ req'[w] = q /\ \A v \in Workers \ {w} : req'[v] = req[v]
      /\ mailOf'[m] = f /\ \A n \in Mails \ {m} : mailOf'[n] = mailOf[n]
  BY <1>1, <1>2, <1>3 DEF IInv, TypeOK
<1>6. form[f] # None /\ registered[f] = {}
      /\ form[f].count = Cardinality(MailsOf(f, mailOf)) + Cardinality(req[w].todo)
  BY <1>2 DEF IInv, CopiesAgree, CopyAgrees, SaversAreAlone, At
<1>7. /\ MailsOf(f, mailOf') = MailsOf(f, mailOf) \cup {m} /\ m \notin MailsOf(f, mailOf)
      /\ \A g \in Forms \ {f} : MailsOf(g, mailOf') = MailsOf(g, mailOf)
  BY <1>1, <1>2, <1>5 DEF MailsOf
<1>8. Cardinality(MailsOf(f, mailOf')) + Cardinality(q.todo)
        = Cardinality(MailsOf(f, mailOf)) + Cardinality(req[w].todo)
  <2>1. IsFiniteSet(MailsOf(f, mailOf)) /\ IsFiniteSet(req[w].todo)
    BY <1>2, FS_Subset DEF MailsOf
  <2>2. Cardinality(MailsOf(f, mailOf)) \in Nat /\ Cardinality(req[w].todo) \in Nat
    BY <2>1, FS_CardinalityType
  <2>3. Cardinality(MailsOf(f, mailOf')) = Cardinality(MailsOf(f, mailOf)) + 1
    BY <1>7, <2>1, FS_AddElement
  <2>4. Cardinality(q.todo) = Cardinality(req[w].todo) - 1
    <3>1. Cardinality(req[w].todo \ {m}) = Cardinality(req[w].todo) - 1
      BY <1>1, <2>1, FS_RemoveElement
    <3>2. q.todo = req[w].todo \ {m}
      BY <1>4
    <3> QED BY <3>1, <3>2
  <2> QED BY <2>2, <2>3, <2>4
<1>9. TypeOK'
  <2>1. mailOf' \in [Mails -> Forms \cup {None}]
    BY <1>1, <1>2 DEF IInv, TypeOK
  <2>2. req' \in [Workers -> Request \cup {None}]
    BY <1>3, <1>4 DEF IInv, TypeOK
  <2>3. \A c \in Clerks : lock' = c <=> req'[c] # None /\ req'[c].phase = "sign"
    BY <1>2, <1>4, <1>5 DEF IInv, TypeOK, Workers
  <2> QED BY <1>2, <2>1, <2>2, <2>3 DEF IInv, TypeOK
<1>10. StateShowsSigners' /\ SignoffsCountOnce'
  BY <1>2 DEF IInv, StateShowsSigners, SignoffsCountOnce
<1>11. RegistrationIsSound'
  <2>1. \A g \in Forms : \A u, v \in registered'[g] : u = v
    BY <1>2 DEF IInv, RegistrationIsSound
  <2>2. \A v \in Clerks : At(v, "saveMails")' => registered'[req'[v].form] = {}
    BY <1>2, <1>4, <1>5, <1>6 DEF IInv, RegistrationIsSound, At, Workers
  <2>3. \A n \in Mails : mailOf'[n] # None => form'[mailOf'[n]] # None
    BY <1>2, <1>5, <1>6 DEF IInv, RegistrationIsSound
  <2>4. ASSUME NEW g \in Forms, registered'[g] # {}
        PROVE  form'[g] # None /\ form'[g].count = Cardinality(MailsOf(g, mailOf'))
    <3>1. registered[g] # {} /\ g # f
      BY <1>2, <1>6, <2>4
    <3>2. MailsOf(g, mailOf') = MailsOf(g, mailOf)
      BY <1>7, <3>1
    <3>3. form[g] # None /\ form[g].count = Cardinality(MailsOf(g, mailOf))
      BY <3>1 DEF IInv, RegistrationIsSound
    <3> QED BY <1>2, <3>2, <3>3
  <2> QED BY <2>1, <2>2, <2>3, <2>4 DEF RegistrationIsSound, At
<1>12. CopiesAgree'
  <2>1. CopyAgrees(req[w], form) /\ CopyAgrees(q, form)
    BY <1>2, <1>4, <1>6 DEF IInv, CopiesAgree, CopyAgrees
  <2> QED BY <1>2, <1>5, <2>1 DEF IInv, CopiesAgree, CopyAgrees
<1>13. SaversAreAlone'
  <2>1. ASSUME NEW u \in Workers, NEW v \in Workers, At(u, "saveMails")', At(v, "saveMails")',
               req'[u].form = req'[v].form
        PROVE  u = v
    BY <1>2, <1>4, <1>5, <2>1 DEF IInv, SaversAreAlone, At
  <2>2. ASSUME NEW v \in Workers, At(v, "saveMails")'
        PROVE  /\ registered'[req'[v].form] = {}
               /\ form'[req'[v].form].count
                    = Cardinality(MailsOf(req'[v].form, mailOf')) + Cardinality(req'[v].todo)
    <3>1. CASE v = w
      <4>1. req'[v].form = f /\ req'[v].todo = q.todo /\ form' = form /\ registered' = registered
        BY <1>2, <1>4, <1>5, <3>1
      <4> QED BY <1>6, <1>8, <4>1
    <3>2. CASE v # w
      <4>1. req'[v] = req[v] /\ At(v, "saveMails") /\ req[v].form \in Forms /\ req[v].form # f
        BY <1>2, <1>5, <2>2, <3>2 DEF IInv, TypeOK, SaversAreAlone, At, Request
      <4> QED BY <1>2, <1>7, <4>1 DEF IInv, SaversAreAlone
    <3> QED BY <3>1, <3>2
  <2> QED BY <2>1, <2>2 DEF SaversAreAlone, At
<1>14. SignsAreCurrent'
  BY <1>2, <1>4, <1>5 DEF IInv, SignsAreCurrent, SignIsCurrent, At, Workers
<1> QED BY <1>9, <1>10, <1>11, <1>12, <1>13, <1>14 DEF IInv

(* A registration that has saved its last mail succeeds. *)
LEMMA RegisteredKeeps ==
  ASSUME IInv, NEW w \in Clerks, Registered(w)
  PROVE  IInv'
<1> DEFINE f == req[w].form
<1>1. /\ w \in Workers /\ req[w] \in Request /\ req[w] # None /\ req[w].phase = "saveMails"
      /\ f \in Forms /\ req[w].todo = {}
      /\ registered' = [registered EXCEPT ![f] = @ \cup {w}]
      /\ req' = [req EXCEPT ![w] = None]
      /\ UNCHANGED <<form, mailOf, lock, acked, overwritten>>
  BY DEF Registered, At, Workers, IInv, TypeOK, Request
<1>2. /\ req'[w] = None /\ \A v \in Workers \ {w} : req'[v] = req[v]
      /\ \A g \in Forms \ {f} : registered'[g] = registered[g]
  BY <1>1 DEF IInv, TypeOK
<1>3. /\ form[f] # None /\ registered[f] = {}
      /\ form[f].count = Cardinality(MailsOf(f, mailOf)) + Cardinality({})
  BY <1>1 DEF IInv, CopiesAgree, CopyAgrees, SaversAreAlone, At
<1>4. registered'[f] = {w}
  BY <1>1, <1>3 DEF IInv, TypeOK
<1>5. form[f].count = Cardinality(MailsOf(f, mailOf))
  <2>1. Cardinality(MailsOf(f, mailOf)) \in Nat /\ Cardinality({}) = 0
    BY FS_EmptySet, FS_Subset, FS_CardinalityType DEF MailsOf
  <2> QED BY <1>3, <2>1
<1>6. \A v \in Workers \ {w} : At(v, "saveMails") => req[v].form \in Forms \ {f}
  BY <1>1 DEF IInv, TypeOK, SaversAreAlone, At, Request
<1>7. TypeOK'
  BY <1>1, <1>2 DEF IInv, TypeOK, Workers
<1>8. StateShowsSigners' /\ SignoffsCountOnce'
  BY <1>1 DEF IInv, StateShowsSigners, SignoffsCountOnce
<1>9. RegistrationIsSound'
  BY <1>1, <1>2, <1>3, <1>4, <1>5, <1>6 DEF IInv, RegistrationIsSound, At, Workers
<1>10. CopiesAgree'
  BY <1>1, <1>2 DEF IInv, CopiesAgree, CopyAgrees
<1>11. SaversAreAlone'
  BY <1>1, <1>2, <1>6 DEF IInv, SaversAreAlone, At
<1>12. SignsAreCurrent'
  BY <1>1, <1>2 DEF IInv, SignsAreCurrent, SignIsCurrent, At, Workers
<1> QED BY <1>7, <1>8, <1>9, <1>10, <1>11, <1>12 DEF IInv

(* A write to a form that keeps the count of its mails, and ends its request. *)
LEMMA WriteKeeps ==
  ASSUME IInv, NEW w \in Workers, NEW f \in Forms, NEW r \in Form, form[f] # None,
         form' = [form EXCEPT ![f] = r], req' = [req EXCEPT ![w] = None],
         UNCHANGED <<mailOf, registered>>,
         r.signers = SignersOf(r.state), r.count = form[f].count
  PROVE  StateShowsSigners' /\ RegistrationIsSound' /\ CopiesAgree' /\ SaversAreAlone'
<1>1. /\ form'[f] = r /\ r # None /\ \A g \in Forms \ {f} : form'[g] = form[g]
      /\ req'[w] = None /\ \A v \in Workers \ {w} : req'[v] = req[v]
      /\ \A v \in Workers : req[v] # None => req[v].form \in Forms
  BY DEF IInv, TypeOK, Request
<1>2. StateShowsSigners'
  BY <1>1 DEF IInv, StateShowsSigners, SignersOf
<1>3. RegistrationIsSound'
  BY <1>1 DEF IInv, TypeOK, RegistrationIsSound, At, Workers
<1>4. CopiesAgree'
  BY <1>1 DEF IInv, CopiesAgree, CopyAgrees
<1>5. SaversAreAlone'
  BY <1>1 DEF IInv, SaversAreAlone, At
<1> QED BY <1>2, <1>3, <1>4, <1>5

(* The signature is written by the one request that holds the lock. *)
LEMMA SaveSignoffKeeps ==
  ASSUME IInv, NEW w \in Clerks, SaveSignoff(w)
  PROVE  IInv'
<1> DEFINE f == req[w].form
           r == req[w].copy
           p == req[w].party
<1>1. /\ w \in Workers /\ req[w] \in Request /\ req[w] # None /\ req[w].phase = "sign"
      /\ f \in Forms /\ r \in Form
      /\ form' = [form EXCEPT ![f] = r] /\ acked' = [acked EXCEPT ![f][p] = @ + 1]
      /\ lock' = None /\ req' = [req EXCEPT ![w] = None]
      /\ UNCHANGED <<mailOf, registered, overwritten>>
  BY DEF SaveSignoff, At, Workers, IInv, TypeOK, Request
<1>2. /\ form[f] # None /\ p \in Parties /\ r.signers = SignersOf(r.state)
      /\ r.count = form[f].count
      /\ f \notin overwritten => SignIsCurrent(req[w], form)
  BY <1>1 DEF IInv, CopiesAgree, CopyAgrees, SignsAreCurrent, At
<1>3. StateShowsSigners' /\ RegistrationIsSound' /\ CopiesAgree' /\ SaversAreAlone'
  BY <1>1, <1>2, WriteKeeps
<1>4. lock = w /\ \A c \in Clerks \ {w} : ~At(c, "sign")
  BY <1>1 DEF IInv, TypeOK, At
<1>5. /\ form'[f] = r /\ r # None /\ \A g \in Forms \ {f} : form'[g] = form[g]
      /\ acked'[f][p] = acked[f][p] + 1
      /\ \A x \in Parties \ {p} : acked'[f][x] = acked[f][x]
      /\ \A g \in Forms \ {f} : acked'[g] = acked[g]
      /\ req'[w] = None /\ \A v \in Workers \ {w} : req'[v] = req[v]
  BY <1>1, <1>2 DEF IInv, TypeOK
<1>6. TypeOK'
  <2>1. acked' \in [Forms -> [Parties -> Nat]]
    BY <1>1, <1>2 DEF IInv, TypeOK
  <2>2. \A c \in Clerks : lock' = c <=> req'[c] # None /\ req'[c].phase = "sign"
    BY <1>1, <1>4, <1>5 DEF At, Workers
  <2> QED BY <1>1, <2>1, <2>2 DEF IInv, TypeOK
<1>7. SignoffsCountOnce'
  <2>1. ASSUME NEW x \in Parties, f \notin overwritten
        PROVE  acked'[f][x] <= 1 /\ (acked'[f][x] > 0 => x \in r.signers)
    <3>1. p \notin form[f].signers /\ r.signers = form[f].signers \cup {p}
      BY <1>2, <2>1 DEF SignIsCurrent
    <3>2. /\ acked[f][x] \in Nat /\ acked[f][x] <= 1
          /\ acked[f][x] > 0 => x \in form[f].signers
      BY <1>1, <2>1 DEF IInv, TypeOK, SignoffsCountOnce
    <3>3. CASE x = p
      BY <1>5, <3>1, <3>2, <3>3
    <3>4. CASE x # p
      BY <1>5, <3>1, <3>2, <3>4
    <3> QED BY <3>3, <3>4
  <2>2. ASSUME NEW g \in Forms \ {f}, NEW x \in Parties, g \notin overwritten
        PROVE  acked'[g][x] <= 1 /\ (acked'[g][x] > 0 => form'[g] # None /\ x \in form'[g].signers)
    BY <1>5, <2>2 DEF IInv, SignoffsCountOnce
  <2>3. overwritten' = overwritten
    BY <1>1
  <2> QED BY <1>5, <2>1, <2>2, <2>3 DEF SignoffsCountOnce
<1>8. SignsAreCurrent'
  BY <1>1, <1>4, <1>5 DEF SignsAreCurrent, At, Workers
<1> QED BY <1>3, <1>6, <1>7, <1>8 DEF IInv

(* An edit writes its copy; what it is a copy of stays signed as it was. *)
LEMMA ModifySaveKeeps ==
  ASSUME IInv, NEW w \in Editors, ModifySave(w)
  PROVE  IInv'
<1> DEFINE f == req[w].form
           r == req[w].copy
<1>1. /\ w \in Workers /\ req[w] \in Request /\ req[w] # None /\ req[w].phase = "edit"
      /\ f \in Forms /\ r \in Form
      /\ form' = [form EXCEPT ![f] = r] /\ req' = [req EXCEPT ![w] = None]
      /\ overwritten' = IF IsCopyOfRow(w) THEN overwritten ELSE overwritten \cup {f}
      /\ UNCHANGED <<mailOf, lock, registered, acked>>
  BY DEF ModifySave, At, Workers, IInv, TypeOK, Request
<1>2. /\ form[f] # None /\ form[f] \in Form /\ r.signers = SignersOf(r.state)
      /\ r.count = form[f].count
  BY <1>1 DEF IInv, TypeOK, CopiesAgree, CopyAgrees
<1>3. StateShowsSigners' /\ RegistrationIsSound' /\ CopiesAgree' /\ SaversAreAlone'
  BY <1>1, <1>2, WriteKeeps
<1>4. /\ form'[f] = r /\ r # None /\ \A g \in Forms \ {f} : form'[g] = form[g]
      /\ req'[w] = None /\ \A v \in Workers \ {w} : req'[v] = req[v]
      /\ \A v \in Workers : req[v] # None => req[v].form \in Forms
  BY <1>1 DEF IInv, TypeOK, Request
<1>5. f \notin overwritten' => f \notin overwritten /\ r.signers = form[f].signers
  BY <1>1 DEF IsCopyOfRow, Form
<1>6. \A g \in Forms : g \notin overwritten' => g \notin overwritten
  BY <1>1
<1>7. TypeOK'
  BY <1>1, <1>4 DEF IInv, TypeOK, Workers
<1>8. SignoffsCountOnce'
  BY <1>1, <1>4, <1>5, <1>6 DEF IInv, SignoffsCountOnce
<1>9. SignsAreCurrent'
  <2> SUFFICES ASSUME NEW c \in Clerks, At(c, "sign")', req'[c].form \notin overwritten'
               PROVE  SignIsCurrent(req'[c], form')
    BY DEF SignsAreCurrent, SignIsCurrent, At
  <2>1. c # w /\ req'[c] = req[c] /\ At(c, "sign") /\ req[c].form \in Forms
        /\ req[c].form \notin overwritten
    BY <1>4, <1>6 DEF At, Workers
  <2>2. SignIsCurrent(req[c], form)
    BY <2>1 DEF IInv, SignsAreCurrent
  <2>3. form'[req[c].form].signers = form[req[c].form].signers
    BY <1>4, <1>5, <2>1
  <2> QED BY <2>1, <2>2, <2>3 DEF SignIsCurrent
<1> QED BY <1>3, <1>7, <1>8, <1>9 DEF IInv

-----------------------------------------------------------------------------
(* Every step keeps the invariant. *)
LEMMA NextIInv == IInv /\ [Next]_vars => IInv'
<1> SUFFICES ASSUME IInv, [Next]_vars PROVE IInv'
  OBVIOUS
<1>1. ASSUME NEW w \in Clerks, NEW f \in Forms, NEW ms \in SUBSET Mails, Register(w, f, ms)
      PROVE  IInv'
  BY <1>1, RegisterKeeps
<1>2. ASSUME NEW w \in Clerks, NEW f \in Forms, NEW p \in Parties, Signoff(w, f, p)
      PROVE  IInv'
  BY <1>2, SignoffKeeps
<1>3. ASSUME NEW w \in Clerks, SaveForm(w) \/ SaveMail(w) \/ Registered(w) \/ SaveSignoff(w)
      PROVE  IInv'
  BY <1>3, SaveFormKeeps, SaveMailKeeps, RegisteredKeeps, SaveSignoffKeeps
<1>4. ASSUME NEW w \in Editors, NEW f \in Forms, Modify(w, f)
      PROVE  IInv'
  BY <1>4, ModifyKeeps
<1>5. ASSUME NEW w \in Editors, ModifySave(w)
      PROVE  IInv'
  BY <1>5, ModifySaveKeeps
<1>6. ASSUME NEW w \in Workers, Fail(w)
      PROVE  IInv'
  BY <1>6, FailKeeps
<1>7. CASE UNCHANGED vars
  <2>1. UNCHANGED <<form, mailOf, lock, req, registered, acked, overwritten>>
    BY <1>7 DEF vars
  <2>2. TypeOK' /\ StateShowsSigners' /\ SignoffsCountOnce'
    BY <2>1 DEF IInv, TypeOK, StateShowsSigners, SignoffsCountOnce
  <2>3. RegistrationIsSound' /\ SaversAreAlone'
    BY <2>1 DEF IInv, RegistrationIsSound, SaversAreAlone, At
  <2>4. CopiesAgree' /\ SignsAreCurrent'
    BY <2>1 DEF IInv, CopiesAgree, CopyAgrees, SignsAreCurrent, SignIsCurrent, At
  <2> QED BY <2>2, <2>3, <2>4 DEF IInv
<1> QED BY <1>1, <1>2, <1>3, <1>4, <1>5, <1>6, <1>7 DEF Next

(* The inductive invariant holds in every reachable state. *)
THEOREM HandoverInvariance == Spec => []IInv
  BY InitIInv, NextIInv, PTL DEF Spec

(* Tables and requests keep their types, and the lock is held by exactly the *)
(* request that signs.                                                       *)
THEOREM HandoversTypeCorrect == Spec => []TypeOK
<1>1. IInv => TypeOK
  BY DEF IInv
<1> QED BY <1>1, HandoverInvariance, PTL

(* The state of a form names exactly the parties that signed it. *)
THEOREM StatesShowSigners == Spec => []StateShowsSigners
<1>1. IInv => StateShowsSigners
  BY DEF IInv
<1> QED BY <1>1, HandoverInvariance, PTL

(* A form number is registered once, and a registration that succeeded has   *)
(* left all its mails, whatever others failed or competed for a number.      *)
THEOREM RegistrationSound == Spec => []RegistrationIsSound
<1>1. IInv => RegistrationIsSound
  BY DEF IInv
<1> QED BY <1>1, HandoverInvariance, PTL

(* With signoffMu a party's signoff succeeds once and stays, but for edits.  *)
THEOREM SignoffsHold == Spec => []SignoffsCountOnce
<1>1. IInv => SignoffsCountOnce
  BY DEF IInv
<1> QED BY <1>1, HandoverInvariance, PTL
===============================================================================
