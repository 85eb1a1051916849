-------------------------- MODULE DispositionsProofs --------------------------
(***************************************************************************)
(* Proofs about Dispositions for any mails, dispositions, types and        *)
(* requests.  The service writes copies back blindly; what survives rests  *)
(* on four facts: a copy never changes the mail or the type of its row     *)
(* (CopiesKeepIdentity), a disposition no stale copy was written over is   *)
(* written by copies of its row only (CopiesAreCurrent), the last writer   *)
(* of a row is still there while the row's record is due                   *)
(* (LastWriterIsThere), and nothing carries a lost disposition on.  What    *)
(* an execution did to its mail stays because executions of a mail do not  *)
(* overlap (ExecutesAlone), which rests on the index.                      *)
(***************************************************************************)
EXTENDS Dispositions, TLAPS

(* The states a copy can have where its request is. *)
StatesOf(phase) ==
  CASE phase = "save" -> {"issued", "rejected", "withdrawn", "executing"}
    [] phase \in {"getMail", "saveMail"} -> {"executing"}
    [] phase = "complete" -> {"completed"}
    [] OTHER -> DispStates

(* The row of a request is there and has the mail and type of the copy.      *)
CopiesKeepIdentity ==
  \A w \in Workers : req[w] # None =>
    LET q == req[w] IN
    /\ disp[q.id] # None
    /\ disp[q.id].mail = q.row.mail /\ disp[q.id].type = q.row.type
    /\ q.row.state \in StatesOf(q.phase)
    /\ q.phase = "saveMail" => q.copy # None

(* With no stale write, a copy to be written is one step ahead of its row,   *)
(* or else the row is at least as new as the copy.                           *)
CopiesAreCurrent ==
  \A w \in Workers : req[w] # None /\ req[w].id \notin stale =>
    LET q == req[w]  d == disp[q.id] IN
    /\ q.phase \in {"save", "complete"} =>
         /\ q.row.version <= d.version + 1
         /\ q.row.version = d.version + 1 => Validate(d.state, q.row.state)
    /\ q.phase \in {"getMail", "saveMail"} =>
         /\ q.row.version <= d.version
         /\ q.row.version = d.version => d.state = "executing"

(* While the record of a state is due, the request that wrote the state is    *)
(* on its way to the record.                                                  *)
LastWriterIsThere ==
  \A d \in Disps : d \in due =>
    \E w \in Workers :
      /\ req[w] # None /\ req[w].id = d
      /\ \/ req[w].phase = "complete"
         \/ req[w].phase \in {"record", "getMail", "saveMail"} /\ disp[d].state = req[w].row.state

(* A lost disposition has no request but the one that submits it.             *)
LostIsAlone ==
  \A w \in Workers : req[w] # None /\ req[w].phase # "record" => disp[req[w].id].state # "lost"

(* A mail shows what its disposition asked for, and so does every copy of it, *)
(* those of the batches included: these are of mails on the road, so their    *)
(* disposition asked for nothing.                                             *)
Shows(x, rows) ==
  x.disposition # None =>
    /\ rows[x.disposition] # None
    /\ rows[x.disposition].state # "lost"
    /\ rows[x.disposition].type \in DOMAIN MailStateFor =>
         x.state = MailStateFor[rows[x.disposition].type]

MailsShow ==
  /\ \A m \in Mails : Shows(mail[m], disp)
  /\ \A w \in Workers : req[w] # None => req[w].copy = None \/ Shows(req[w].copy, disp)
  /\ \A b \in Batches : item[b] # None => Shows(item[b].row, disp)

(* However stale the copy that is written back, a disposition is never       *)
(* issued, executed or completed without the name of who issued it.          *)
NamesItsIssuer(r) == r.state \in {"issued", "executing", "completed"} => r.issued

IssuersAreNamed ==
  /\ \A d \in Disps : disp[d] # None => NamesItsIssuer(disp[d])
  /\ \A w \in Workers : req[w] # None => NamesItsIssuer(req[w].row)

(* Execute is between its two saves of the disposition. *)
Executes(w) == req[w] # None /\ req[w].phase \in {"getMail", "saveMail"}

(* A mail with a disposition that a stale copy was written over is crossed. *)
StaleIsCrossed == \A d \in stale : disp[d] # None /\ disp[d].mail \in crossed

(* Nobody else executes a disposition of the mail, and the row still says it *)
(* is being executed.                                                        *)
ExecutesAlone ==
  \A w \in Workers : Executes(w) /\ req[w].row.mail \notin crossed =>
    /\ disp[req[w].id].state = "executing"
    /\ \A v \in Workers : Executes(v) /\ req[v].row.mail = req[w].row.mail => v = w

(* The copies of a mail have its address; the copy of a batch has its        *)
(* disposition too, and both are on the road.                                *)
CopiesHaveTheAddress ==
  \A w \in Workers : req[w] # None /\ req[w].phase = "saveMail" /\ req[w].row.mail \notin crossed =>
    req[w].copy.addr = mail[req[w].row.mail].addr

ItemsHaveTheMail ==
  \A b \in Batches : item[b] # None =>
    /\ item[b].row.state \in OnTheRoad
    /\ item[b].mail \notin crossed =>
         LET x == mail[item[b].mail] IN
         /\ x.state \in OnTheRoad
         /\ x.disposition = item[b].row.disposition /\ x.addr = item[b].row.addr

(* What is known of the mails that are not crossed, given IInv. *)
Uncrossed == StaleIsCrossed /\ ExecutesAlone /\ CopiesHaveTheAddress /\ ItemsHaveTheMail

(* The inductive invariant. *)
IInv ==
  /\ TypeOK /\ IndexIsExact /\ CopiesKeepIdentity /\ CopiesAreCurrent /\ LastWriterIsThere
  /\ LostIsAlone /\ MailsShow /\ IssuersAreNamed

USE VersionAssumption, NoneAssumption

(* With empty tables the invariant holds. *)
LEMMA InitIInv == Init => IInv
<1> SUFFICES ASSUME Init PROVE IInv
  OBVIOUS
<1>0. mail \in [Mails -> Mail] /\ \A m \in Mails : mail[m].disposition = None
  <2>1. \A s \in {"registered", "in_transit"} :
          [state |-> s, disposition |-> None, addr |-> None] \in Mail
    BY DEF Mail, OnTheRoad
  <2> QED BY <2>1 DEF Init
<1>1. TypeOK
  BY <1>0 DEF Init, TypeOK
<1>2. IndexIsExact /\ CopiesKeepIdentity /\ CopiesAreCurrent /\ LastWriterIsThere
  BY DEF Init, IndexIsExact, CopiesKeepIdentity, CopiesAreCurrent, LastWriterIsThere
<1>3. LostIsAlone /\ MailsShow /\ IssuersAreNamed
  BY <1>0 DEF Init, LostIsAlone, MailsShow, Shows, IssuersAreNamed
<1> QED BY <1>1, <1>2, <1>3 DEF IInv

(* What a change of state leaves alone. *)
LEMMA ChangedIsDisp ==
  ASSUME NEW r \in Disp, NEW s \in DispStates, r.version < MaxVersion
  PROVE  /\ Changed(r, s) \in Disp
         /\ Changed(r, s).mail = r.mail /\ Changed(r, s).type = r.type
         /\ Changed(r, s).state = s /\ Changed(r, s).version = r.version + 1
         /\ Changed(r, s).issued <=> r.issued \/ s = "issued"
<1>1. r.version + 1 \in 1 .. MaxVersion
  BY DEF Disp
<1> QED BY <1>1 DEF Changed, Disp

(* The index after a write: the row's own entry comes and goes with its      *)
(* state, an entry of another disposition stays.                             *)
LEMMA IndexedEffect ==
  ASSUME TypeOK, NEW d \in Disps, NEW r \in Disp, Indexed(d, r)
  PROVE  /\ active' \in [Mails -> Disps \cup {None}]
         /\ \A m \in Mails \ {r.mail} : active'[m] = active[m]
         /\ r.state \in ActiveStates => active'[r.mail] = IF active[r.mail] = None THEN d ELSE active[r.mail]
         /\ r.state \notin ActiveStates => active'[r.mail] = IF active[r.mail] = d THEN None ELSE active[r.mail]
  BY DEF TypeOK, Indexed, IsDispositionActive, Disp

(* A write of the copy of a request, over whatever the row has become. *)
LEMMA WriteKeeps ==
  ASSUME IInv, NEW w \in Workers, NEW p \in {"getMail", "record"},
         At(w, "save") \/ At(w, "complete"),
         p = "getMail" => req[w].row.state = "executing",
         SaveRow(req[w].id, req[w].row),
         Goto(w, p)
  PROVE  IInv'
<1> DEFINE d == req[w].id
           r == req[w].row
           q == [req[w] EXCEPT !.phase = p]
<1>1. /\ req[w] \in Request /\ req[w] # None /\ d \in Disps /\ r \in Disp /\ r.mail \in Mails
      /\ req[w].phase \in {"save", "complete"}
  BY DEF At, IInv, TypeOK, Request, Disp
<1>2. /\ disp[d] \in Disp /\ disp[d].mail = r.mail /\ disp[d].type = r.type
      /\ r.state \in {"issued", "rejected", "withdrawn", "executing", "completed"}
  BY <1>1 DEF IInv, TypeOK, CopiesKeepIdentity, StatesOf
<1>3. /\ disp' = [disp EXCEPT ![d] = r]
      /\ due' = due \cup {d}
      /\ stale' = IF disp[d].version = r.version - 1 THEN stale ELSE stale \cup {d}
      /\ mail' = mail /\ item' = item
      /\ crossed' \in {crossed, crossed \cup {r.mail}}
      /\ Indexed(d, r)
  BY <1>1, <1>2 DEF SaveRow, Fresh
<1>4. req' = [req EXCEPT ![w] = q]
  BY DEF Goto, IInv, TypeOK
<1>5. /\ q \in Request /\ q.id = d /\ q.row = r /\ q.phase = p /\ q.copy = req[w].copy
  BY <1>1 DEF Request
<1> HIDE DEF q
<1>6. /\ active' \in [Mails -> Disps \cup {None}]
      /\ \A m \in Mails \ {r.mail} : active'[m] = active[m]
      /\ r.state \in ActiveStates => active'[r.mail] = IF active[r.mail] = None THEN d ELSE active[r.mail]
      /\ r.state \notin ActiveStates => active'[r.mail] = IF active[r.mail] = d THEN None ELSE active[r.mail]
  BY <1>1, <1>3, IndexedEffect DEF IInv
<1>7. TypeOK'
  BY <1>1, <1>3, <1>4, <1>5, <1>6 DEF IInv, TypeOK
<1>8. /\ disp'[d] = r /\ \A e \in Disps \ {d} : disp'[e] = disp[e]
      /\ r # None /\ disp[d] # None
      /\ stale \subseteq stale'
      /\ d \notin stale' => d \notin stale /\ disp[d].version = r.version - 1
  BY <1>1, <1>2, <1>3 DEF IInv, TypeOK
<1>9. \A v \in Workers : v # w => req'[v] = req[v]
  BY <1>4 DEF IInv, TypeOK
<1>10. req'[w] = q
  BY <1>4 DEF IInv, TypeOK
<1>11. r.version \in Nat /\ disp[d].version \in Nat
  BY <1>1, <1>2 DEF Disp
<1>12. IndexIsExact'
  <2>1. ASSUME NEW m \in Mails, active'[m] # None
        PROVE  /\ disp'[active'[m]] # None /\ disp'[active'[m]].mail = m
               /\ disp'[active'[m]].state \in ActiveStates
    <3>1. active[m] # None => /\ disp[active[m]] # None /\ disp[active[m]].mail = m
                              /\ disp[active[m]].state \in ActiveStates
                              /\ active[m] \in Disps
      BY DEF IInv, TypeOK, IndexIsExact
    <3>2. CASE active'[m] = d
      <4>1. m = r.mail
        BY <1>2, <1>6, <2>1, <3>1, <3>2
      <4>2. r.state \in ActiveStates
        BY <1>6, <2>1, <3>2, <4>1
      <4> QED BY <1>8, <3>2, <4>1, <4>2
    <3>3. CASE active'[m] # d
      <4>1. active'[m] = active[m]
        BY <1>6, <2>1, <3>3
      <4> QED BY <1>8, <2>1, <3>1, <3>3, <4>1
    <3> QED BY <3>2, <3>3
  <2>2. ASSUME NEW e \in Disps, e \notin stale', disp'[e] # None, disp'[e].state \in ActiveStates
        PROVE  active'[disp'[e].mail] = e
    <3>1. CASE e # d
      <4>1. disp[e] \in Disp /\ active[disp[e].mail] = e /\ disp'[e] = disp[e] /\ disp[e].mail \in Mails
        BY <1>8, <2>2, <3>1 DEF IInv, TypeOK, IndexIsExact, Disp
      <4> QED BY <1>6, <3>1, <4>1, NoneAssumption
    <3>2. CASE e = d
      <4>1. d \notin stale /\ disp[d].version + 1 = r.version /\ r.state \in {"issued", "executing"}
        BY <1>1, <1>2, <1>8, <1>11, <2>2, <3>2 DEF ActiveStates
      <4>2. Validate(disp[d].state, r.state)
        BY <1>1, <4>1 DEF IInv, CopiesAreCurrent
      <4>3. disp[d].state \in ActiveStates
        BY <4>1, <4>2 DEF Validate, Transitions, ActiveStates
      <4>4. active[r.mail] = d
        BY <1>1, <1>2, <1>8, <4>1, <4>3 DEF IInv, IndexIsExact
      <4> QED BY <1>6, <1>8, <2>2, <3>2, <4>4
    <3> QED BY <3>1, <3>2
  <2> QED BY <2>1, <2>2 DEF IndexIsExact
<1>13. CopiesKeepIdentity'
  <2> SUFFICES ASSUME NEW v \in Workers, req'[v] # None
               PROVE  /\ disp'[req'[v].id] # None
                      /\ disp'[req'[v].id].mail = req'[v].row.mail
                      /\ disp'[req'[v].id].type = req'[v].row.type
                      /\ req'[v].row.state \in StatesOf(req'[v].phase)
                      /\ req'[v].phase = "saveMail" => req'[v].copy # None
    BY DEF CopiesKeepIdentity, StatesOf
  <2>1. CASE v = w
    BY <1>1, <1>2, <1>5, <1>8, <1>10, <2>1 DEF StatesOf, Disp
  <2>2. CASE v # w
    <3>1. req'[v] = req[v] /\ req[v] # None /\ req[v].id \in Disps
      BY <1>9, <2>2 DEF IInv, TypeOK, Request
    <3>2. /\ disp[req[v].id] # None
          /\ disp[req[v].id].mail = req[v].row.mail /\ disp[req[v].id].type = req[v].row.type
          /\ req[v].row.state \in StatesOf(req[v].phase)
          /\ req[v].phase = "saveMail" => req[v].copy # None
      BY <3>1 DEF IInv, CopiesKeepIdentity
    <3> QED BY <1>2, <1>8, <3>1, <3>2
  <2> QED BY <2>1, <2>2
<1>14. CopiesAreCurrent'
  <2> SUFFICES ASSUME NEW v \in Workers, req'[v] # None, req'[v].id \notin stale'
               PROVE  LET x == req'[v]  y == disp'[x.id] IN
                      /\ x.phase \in {"save", "complete"} =>
                           /\ x.row.version <= y.version + 1
                           /\ x.row.version = y.version + 1 => Validate(y.state, x.row.state)
                      /\ x.phase \in {"getMail", "saveMail"} =>
                           /\ x.row.version <= y.version
                           /\ x.row.version = y.version => y.state = "executing"
    BY DEF CopiesAreCurrent, Validate
  <2>1. CASE v = w
    BY <1>5, <1>8, <1>10, <1>11, <2>1
  <2>2. CASE v # w
    <3>1. req'[v] = req[v] /\ req[v] # None /\ req[v].id \in Disps /\ req[v].id \notin stale
          /\ req[v].row.version \in Nat
      BY <1>8, <1>9, <2>2 DEF IInv, TypeOK, Request, Disp
    <3>2. LET x == req[v]  y == disp[x.id] IN
          /\ x.phase \in {"save", "complete"} =>
               /\ x.row.version <= y.version + 1
               /\ x.row.version = y.version + 1 => Validate(y.state, x.row.state)
          /\ x.phase \in {"getMail", "saveMail"} =>
               /\ x.row.version <= y.version
               /\ x.row.version = y.version => y.state = "executing"
      BY <3>1 DEF IInv, CopiesAreCurrent
    <3>3. CASE req[v].id # d
      BY <1>8, <3>1, <3>2, <3>3
    <3>4. CASE req[v].id = d
      BY <1>8, <1>11, <3>1, <3>2, <3>4
    <3> QED BY <3>3, <3>4
  <2> QED BY <2>1, <2>2
<1>15. LastWriterIsThere'
  <2> SUFFICES ASSUME NEW e \in Disps, e \in due'
               PROVE  \E v \in Workers :
                        /\ req'[v] # None /\ req'[v].id = e
                        /\ \/ req'[v].phase = "complete"
                           \/ /\ req'[v].phase \in {"record", "getMail", "saveMail"}
                              /\ disp'[e].state = req'[v].row.state
    BY DEF LastWriterIsThere
  <2>1. CASE e = d
    <3>1. q # None
      BY <1>5, NoneAssumption
    <3> QED BY <1>5, <1>8, <1>10, <2>1, <3>1
  <2>2. CASE e # d
    <3>1. e \in due
      BY <1>3, <2>2 DEF IInv, TypeOK
    <3>2. PICK v \in Workers :
            /\ req[v] # None /\ req[v].id = e
            /\ \/ req[v].phase = "complete"
               \/ req[v].phase \in {"record", "getMail", "saveMail"} /\ disp[e].state = req[v].row.state
      BY <3>1 DEF IInv, LastWriterIsThere
    <3> QED BY <1>8, <1>9, <2>2, <3>2
  <2> QED BY <2>1, <2>2
<1>16. LostIsAlone'
  BY <1>2, <1>5, <1>8, <1>9, <1>10 DEF IInv, TypeOK, LostIsAlone, Request
<1>17. ASSUME NEW x \in Mail, Shows(x, disp)
       PROVE  Shows(x, disp')
  BY <1>2, <1>8, <1>17 DEF Shows, Mail
<1>18. MailsShow'
  <2>1. \A m \in Mails : Shows(mail'[m], disp')
    BY <1>3, <1>17 DEF IInv, TypeOK, MailsShow
  <2>2. ASSUME NEW v \in Workers, req'[v] # None, req'[v].copy # None
        PROVE  Shows(req'[v].copy, disp')
    <3>1. req[v] # None /\ req[v].copy = req'[v].copy /\ req[v].copy \in Mail /\ Shows(req[v].copy, disp)
      BY <1>1, <1>5, <1>9, <1>10, <2>2 DEF IInv, TypeOK, MailsShow, Request
    <3> QED BY <1>17, <3>1
  <2>3. \A b \in Batches : item'[b] # None => Shows(item'[b].row, disp')
    BY <1>3, <1>17 DEF IInv, TypeOK, MailsShow, Item
  <2> QED BY <2>1, <2>2, <2>3 DEF MailsShow
<1>19. IssuersAreNamed'
  BY <1>1, <1>5, <1>8, <1>9, <1>10 DEF IInv, TypeOK, IssuersAreNamed, NamesItsIssuer
<1> QED BY <1>7, <1>12, <1>13, <1>14, <1>15, <1>16, <1>18, <1>19 DEF IInv

(* Submit inserts a row no request can have a copy of. *)
LEMMA SubmitKeeps ==
  ASSUME IInv, NEW w \in Workers, NEW d \in Disps, NEW m \in Mails, NEW ty \in Types,
         Submit(w, d, m, ty)
  PROVE  IInv'
<1> DEFINE r == [mail |-> m, type |-> ty, state |-> IF Lost(m) THEN "lost" ELSE "pending",
                 issued |-> FALSE, version |-> 1]
           q == [id |-> d, phase |-> "record", row |-> r, copy |-> None]
<1>1. r \in Disp /\ q \in Request /\ r.mail = m /\ r.state \in {"lost", "pending"}
      /\ (r.state = "pending" <=> active[m] = None)
  BY DEF Disp, Request, DispStates, Lost
<1>2. /\ disp[d] = None /\ req[w] = None
      /\ disp' = [disp EXCEPT ![d] = r]
      /\ due' = due \cup {d}
      /\ stale' = stale /\ mail' = mail /\ item' = item
      /\ crossed' \in {crossed, crossed \cup {m}}
      /\ Indexed(d, r)
      /\ req' = [req EXCEPT ![w] = q]
  BY DEF Submit, SaveRow, Fresh
<1>3. q.id = d /\ q.row = r /\ q.phase = "record" /\ q.copy = None /\ ~r.issued
  OBVIOUS
<1> HIDE DEF q, r
<1>4. /\ active' \in [Mails -> Disps \cup {None}]
      /\ \A n \in Mails \ {m} : active'[n] = active[n]
      /\ r.state \in ActiveStates => active'[m] = IF active[m] = None THEN d ELSE active[m]
      /\ r.state \notin ActiveStates => active'[m] = IF active[m] = d THEN None ELSE active[m]
  BY <1>1, <1>2, IndexedEffect DEF IInv
<1>5. TypeOK'
  BY <1>1, <1>2, <1>4 DEF IInv, TypeOK
<1>6. /\ disp'[d] = r /\ r # None /\ \A e \in Disps \ {d} : disp'[e] = disp[e]
      /\ req'[w] = q /\ q # None /\ \A v \in Workers \ {w} : req'[v] = req[v]
  BY <1>1, <1>2, NoneAssumption DEF IInv, TypeOK
<1>7. /\ \A v \in Workers : req[v] # None => req[v] \in Request /\ req[v].id \in Disps \ {d}
      /\ \A n \in Mails : active[n] # None => active[n] \in Disps \ {d}
  BY <1>2 DEF IInv, TypeOK, CopiesKeepIdentity, IndexIsExact, Request
<1>8. IndexIsExact'
  <2>1. ASSUME NEW n \in Mails, active'[n] # None
        PROVE  /\ disp'[active'[n]] # None /\ disp'[active'[n]].mail = n
               /\ disp'[active'[n]].state \in ActiveStates
    <3>1. CASE active'[n] = active[n]
      BY <1>6, <1>7, <2>1, <3>1 DEF IInv, IndexIsExact
    <3>2. CASE active'[n] # active[n]
      BY <1>1, <1>4, <1>6, <1>7, <2>1, <3>2
    <3> QED BY <3>1, <3>2
  <2>2. ASSUME NEW e \in Disps, e \notin stale', disp'[e] # None, disp'[e].state \in ActiveStates
        PROVE  active'[disp'[e].mail] = e
    <3>1. CASE e # d
      <4>1. /\ disp'[e] = disp[e] /\ disp[e] \in Disp /\ disp[e].mail \in Mails
            /\ active[disp[e].mail] = e
        BY <1>2, <1>6, <2>2, <3>1 DEF IInv, TypeOK, IndexIsExact, Disp
      <4> QED BY <1>4, <3>1, <4>1, NoneAssumption
    <3>2. CASE e = d
      <4>1. r.state = "pending"
        BY <1>1, <1>6, <2>2, <3>2 DEF ActiveStates
      <4> QED BY <1>1, <1>4, <1>6, <2>2, <3>2, <4>1
    <3> QED BY <3>1, <3>2
  <2> QED BY <2>1, <2>2 DEF IndexIsExact
<1>9. CopiesKeepIdentity'
  <2>1. r.state \in StatesOf("record")
    BY <1>1 DEF StatesOf, Disp
  <2> QED BY <1>3, <1>6, <1>7, <2>1 DEF IInv, CopiesKeepIdentity, StatesOf
<1>10. CopiesAreCurrent'
  BY <1>2, <1>3, <1>6, <1>7 DEF IInv, CopiesAreCurrent, Validate
<1>11. LastWriterIsThere'
  <2> SUFFICES ASSUME NEW e \in Disps, e \in due'
               PROVE  \E v \in Workers :
                        /\ req'[v] # None /\ req'[v].id = e
                        /\ \/ req'[v].phase = "complete"
                           \/ /\ req'[v].phase \in {"record", "getMail", "saveMail"}
                              /\ disp'[e].state = req'[v].row.state
    BY DEF LastWriterIsThere
  <2>1. CASE e = d
    BY <1>3, <1>6, <2>1
  <2>2. CASE e # d
    <3>1. e \in due
      BY <1>2, <2>2 DEF IInv, TypeOK
    <3>2. PICK v \in Workers :
            /\ req[v] # None /\ req[v].id = e
            /\ \/ req[v].phase = "complete"
               \/ req[v].phase \in {"record", "getMail", "saveMail"} /\ disp[e].state = req[v].row.state
      BY <3>1 DEF IInv, LastWriterIsThere
    <3> QED BY <1>2, <1>6, <2>2, <3>2
  <2> QED BY <2>1, <2>2
<1>12. LostIsAlone'
  BY <1>3, <1>6, <1>7 DEF IInv, LostIsAlone
<1>13. ASSUME NEW x \in Mail, Shows(x, disp)
       PROVE  Shows(x, disp')
  BY <1>2, <1>6, <1>13 DEF Shows, Mail
<1>14. MailsShow'
  <2>1. \A n \in Mails : Shows(mail'[n], disp')
    BY <1>2, <1>13 DEF IInv, TypeOK, MailsShow
  <2>2. ASSUME NEW v \in Workers, req'[v] # None, req'[v].copy # None
        PROVE  Shows(req'[v].copy, disp')
    <3>1. v # w /\ req[v] # None /\ req[v].copy = req'[v].copy
          /\ req[v].copy \in Mail /\ Shows(req[v].copy, disp)
      BY <1>3, <1>6, <1>7, <2>2 DEF IInv, MailsShow, Request
    <3> QED BY <1>13, <3>1
  <2>3. \A b \in Batches : item'[b] # None => Shows(item'[b].row, disp')
    BY <1>2, <1>13 DEF IInv, TypeOK, MailsShow, Item
  <2> QED BY <2>1, <2>2, <2>3 DEF MailsShow
<1>15. IssuersAreNamed'
  BY <1>1, <1>3, <1>6 DEF IInv, TypeOK, IssuersAreNamed, NamesItsIssuer
<1> QED BY <1>5, <1>8, <1>9, <1>10, <1>11, <1>12, <1>14, <1>15 DEF IInv

(* A step that changes one request, or its record, and no table.             *)
LEMMA RequestMoves ==
  ASSUME IInv, NEW w \in Workers, NEW q \in Request \cup {None},
         req' = [req EXCEPT ![w] = q],
         UNCHANGED <<disp, active, mail, item, stale, crossed>>,
         q # None =>
           /\ disp[q.id] # None
           /\ disp[q.id].mail = q.row.mail /\ disp[q.id].type = q.row.type
           /\ q.row.state \in StatesOf(q.phase)
           /\ q.phase = "saveMail" => q.copy # None
           /\ q.phase # "record" => disp[q.id].state # "lost"
           /\ q.copy = None \/ Shows(q.copy, disp)
           /\ NamesItsIssuer(q.row),
         q # None /\ q.id \notin stale =>
           /\ q.phase \in {"save", "complete"} =>
                /\ q.row.version <= disp[q.id].version + 1
                /\ q.row.version = disp[q.id].version + 1 => Validate(disp[q.id].state, q.row.state)
           /\ q.phase \in {"getMail", "saveMail"} =>
                /\ q.row.version <= disp[q.id].version
                /\ q.row.version = disp[q.id].version => disp[q.id].state = "executing",
         due' \subseteq Disps,
         LastWriterIsThere'
  PROVE  IInv'
<1>1. req'[w] = q /\ \A v \in Workers \ {w} : req'[v] = req[v]
  BY DEF IInv, TypeOK
<1>2. TypeOK' /\ IndexIsExact'
  BY DEF IInv, TypeOK, IndexIsExact
<1>3. CopiesKeepIdentity'
  BY <1>1 DEF IInv, CopiesKeepIdentity, StatesOf
<1>4. CopiesAreCurrent'
  <2> SUFFICES ASSUME NEW v \in Workers, req'[v] # None, req'[v].id \notin stale
               PROVE  LET x == req'[v]  d == disp[x.id] IN
                      /\ x.phase \in {"save", "complete"} =>
                           /\ x.row.version <= d.version + 1
                           /\ x.row.version = d.version + 1 => Validate(d.state, x.row.state)
                      /\ x.phase \in {"getMail", "saveMail"} =>
                           /\ x.row.version <= d.version
                           /\ x.row.version = d.version => d.state = "executing"
    BY DEF CopiesAreCurrent, Validate
  <2>1. CASE v = w
    BY <1>1, <2>1
  <2>2. CASE v # w
    BY <1>1, <2>2 DEF IInv, CopiesAreCurrent
  <2> QED BY <2>1, <2>2
<1>5. LostIsAlone'
  BY <1>1 DEF IInv, LostIsAlone
<1>6. MailsShow'
  <2>1. \A v \in Workers : req'[v] # None => req'[v].copy = None \/ Shows(req'[v].copy, disp)
    BY <1>1 DEF IInv, MailsShow
  <2> QED BY <2>1 DEF IInv, MailsShow, Shows
<1>7. IssuersAreNamed'
  BY <1>1 DEF IInv, IssuersAreNamed, NamesItsIssuer
<1> QED BY <1>2, <1>3, <1>4, <1>5, <1>6, <1>7 DEF IInv

(* A request that was no witness for any record may change as it likes.      *)
LEMMA OtherWitness ==
  ASSUME IInv, NEW w \in Workers, NEW q, req' = [req EXCEPT ![w] = q], disp' = disp,
         \A e \in Disps : e \in due' => e \in due,
         req[w] # None /\ req[w].id \in due' =>
           \/ req[w].phase = "save"
           \/ /\ req[w].phase \in {"record", "getMail", "saveMail"}
              /\ disp[req[w].id].state # req[w].row.state
           \/ /\ q # None /\ q.id = req[w].id
              /\ \/ q.phase = "complete"
                 \/ /\ q.phase \in {"record", "getMail", "saveMail"}
                    /\ disp[req[w].id].state = q.row.state
  PROVE  LastWriterIsThere'
<1> SUFFICES ASSUME NEW e \in Disps, e \in due'
             PROVE  \E v \in Workers :
                      /\ req'[v] # None /\ req'[v].id = e
                      /\ \/ req'[v].phase = "complete"
                         \/ /\ req'[v].phase \in {"record", "getMail", "saveMail"}
                            /\ disp'[e].state = req'[v].row.state
  BY DEF LastWriterIsThere
<1>1. req'[w] = q /\ \A v \in Workers \ {w} : req'[v] = req[v]
  BY DEF IInv, TypeOK
<1>2. PICK v \in Workers :
        /\ req[v] # None /\ req[v].id = e
        /\ \/ req[v].phase = "complete"
           \/ req[v].phase \in {"record", "getMail", "saveMail"} /\ disp[e].state = req[v].row.state
  BY DEF IInv, LastWriterIsThere
<1>3. CASE v # w
  BY <1>1, <1>2, <1>3
<1>4. CASE v = w
  BY <1>1, <1>2, <1>4
<1> QED BY <1>3, <1>4

(* Review, Withdraw and Execute read a row and prepare the changed copy.     *)
LEMMA BeginKeeps ==
  ASSUME IInv, NEW w \in Workers, NEW d \in Disps,
         NEW s \in {"issued", "rejected", "withdrawn", "executing"}, Begin(w, d, s)
  PROVE  IInv'
<1> DEFINE r == Changed(disp[d], s)
           q == [id |-> d, phase |-> "save", row |-> r, copy |-> None]
<1>1. /\ req[w] = None /\ disp[d] # None /\ disp[d] \in Disp /\ disp[d].version < MaxVersion
      /\ Validate(disp[d].state, s) /\ req' = [req EXCEPT ![w] = q]
      /\ UNCHANGED <<disp, active, mail, item, due, stale, crossed>>
  BY DEF Begin, IInv, TypeOK
<1>2. /\ r \in Disp /\ r.mail = disp[d].mail /\ r.type = disp[d].type /\ r.state = s
      /\ r.version = disp[d].version + 1 /\ (r.issued <=> disp[d].issued \/ s = "issued")
  BY <1>1, ChangedIsDisp DEF DispStates
<1> HIDE DEF r
<1>3. q \in Request
  BY <1>2 DEF Request
<1>4. disp[d].state # "lost"
  BY <1>1 DEF Validate, Transitions
<1>5. NamesItsIssuer(r)
  <2>1. s = "executing" => disp[d].state \in {"issued", "executing"}
    BY <1>1 DEF Validate, Transitions
  <2>2. NamesItsIssuer(disp[d])
    BY <1>1 DEF IInv, IssuersAreNamed
  <2> QED BY <1>2, <2>1, <2>2 DEF NamesItsIssuer
<1>6. r.state \in StatesOf("save")
  BY <1>2 DEF StatesOf
<1>7. r.version <= disp[d].version + 1
  BY <1>2 DEF Disp
<1>8. LastWriterIsThere'
  BY <1>1, OtherWitness
<1>9. q.id = d /\ q.row = r /\ q.phase = "save" /\ q.copy = None
  OBVIOUS
<1> HIDE DEF q
<1> QED BY <1>1, <1>2, <1>3, <1>4, <1>5, <1>6, <1>7, <1>8, <1>9, RequestMoves DEF IInv, TypeOK

(* Execute reads the mail. *)
LEMMA GetMailKeeps ==
  ASSUME IInv, NEW w \in Workers, GetMail(w)
  PROVE  IInv'
<1> DEFINE c == mail[req[w].row.mail]
           q == [req[w] EXCEPT !.phase = "saveMail", !.copy = c]
<1>1. /\ req[w] \in Request /\ req[w] # None /\ req[w].phase = "getMail"
      /\ req[w].row \in Disp /\ req[w].row.mail \in Mails
      /\ UNCHANGED <<disp, active, mail, item, due, stale, crossed>>
  BY DEF GetMail, At, IInv, TypeOK, Request, Disp
<1>2. req' = [req EXCEPT ![w] = q]
  BY DEF GetMail, IInv, TypeOK
<1>3. c \in Mail /\ Shows(c, disp)
  BY <1>1 DEF IInv, TypeOK, MailsShow
<1> HIDE DEF c
<1>4. /\ q \in Request /\ q.id = req[w].id /\ q.row = req[w].row /\ q.phase = "saveMail" /\ q.copy = c
  BY <1>1, <1>3 DEF Request
<1> HIDE DEF q
<1>5. /\ disp[q.id] # None /\ disp[q.id].mail = q.row.mail /\ disp[q.id].type = q.row.type
      /\ q.row.state \in StatesOf(q.phase)
  BY <1>1, <1>4 DEF IInv, CopiesKeepIdentity, StatesOf
<1>6. disp[q.id].state # "lost" /\ NamesItsIssuer(q.row)
  BY <1>1, <1>4 DEF IInv, LostIsAlone, IssuersAreNamed
<1>7. q.id \notin stale =>
        /\ q.row.version <= disp[q.id].version
        /\ q.row.version = disp[q.id].version => disp[q.id].state = "executing"
  BY <1>1, <1>4 DEF IInv, CopiesAreCurrent
<1>8. LastWriterIsThere'
  <2>1. q # None /\ disp' = disp /\ due' = due
    BY <1>1, <1>4
  <2>2. req[w].row.state = q.row.state
    BY <1>4
  <2>3. \A e \in Disps : e \in due' => e \in due
    BY <2>1
  <2>4. \/ /\ req[w].phase \in {"record", "getMail", "saveMail"}
           /\ disp[req[w].id].state # req[w].row.state
        \/ /\ q # None /\ q.id = req[w].id /\ q.phase \in {"record", "getMail", "saveMail"}
           /\ disp[req[w].id].state = q.row.state
    BY <1>1, <1>4, <2>1, <2>2
  <2> QED BY <1>2, <2>1, <2>3, <2>4, OtherWitness
<1>9. q.copy # None /\ Shows(q.copy, disp)
  BY <1>3, <1>4
<1>10. due' \subseteq Disps
  BY <1>1 DEF IInv, TypeOK
<1>11. q.phase = "saveMail" /\ q \in Request \cup {None} /\ UNCHANGED <<disp, active, mail, item, stale, crossed>>
  BY <1>1, <1>4
<1>12. q # None =>
         /\ disp[q.id] # None
         /\ disp[q.id].mail = q.row.mail /\ disp[q.id].type = q.row.type
         /\ q.row.state \in StatesOf(q.phase)
         /\ q.phase = "saveMail" => q.copy # None
         /\ q.phase # "record" => disp[q.id].state # "lost"
         /\ q.copy = None \/ Shows(q.copy, disp)
         /\ NamesItsIssuer(q.row)
  BY <1>5, <1>6, <1>9
<1>13. q # None /\ q.id \notin stale =>
         /\ q.phase \in {"save", "complete"} =>
              /\ q.row.version <= disp[q.id].version + 1
              /\ q.row.version = disp[q.id].version + 1 => Validate(disp[q.id].state, q.row.state)
         /\ q.phase \in {"getMail", "saveMail"} =>
              /\ q.row.version <= disp[q.id].version
              /\ q.row.version = disp[q.id].version => disp[q.id].state = "executing"
  BY <1>7, <1>11
<1> QED BY <1>2, <1>8, <1>10, <1>11, <1>12, <1>13, RequestMoves

(* The mail after an execution shows what the disposition asks for. *)
LEMMA ExecutedShows ==
  ASSUME NEW c \in Mail, NEW d \in Disps, NEW ty \in Types, disp[d] # None,
         disp[d].state # "lost", disp[d].type = ty
  PROVE  Executed(c, d, ty) \in Mail /\ Shows(Executed(c, d, ty), disp)
  BY DEF Executed, Mail, Shows, MailStateFor

(* Execute writes the mail. *)
LEMMA SaveMailKeeps ==
  ASSUME IInv, NEW w \in Workers, SaveMail(w)
  PROVE  IInv'
<1> DEFINE d == req[w].id
           r == Changed(req[w].row, "completed")
           x == Executed(req[w].copy, d, req[w].row.type)
           q == [id |-> d, phase |-> "complete", row |-> r, copy |-> None]
<1>1. /\ req[w] \in Request /\ req[w] # None /\ req[w].phase = "saveMail"
      /\ d \in Disps /\ req[w].row \in Disp /\ req[w].row.type \in Types /\ req[w].row.mail \in Mails
      /\ req[w].row.version < MaxVersion
      /\ UNCHANGED <<disp, active, item, due, stale>>
      /\ crossed' \in {crossed, crossed \cup {req[w].row.mail}}
      /\ mail' = [mail EXCEPT ![req[w].row.mail] = x]
  BY DEF SaveMail, At, IInv, TypeOK, Request, Disp
<1>2. req' = [req EXCEPT ![w] = q]
  BY DEF SaveMail, IInv, TypeOK
<1>3. /\ r \in Disp /\ r.mail = req[w].row.mail /\ r.type = req[w].row.type
      /\ r.state = "completed" /\ r.version = req[w].row.version + 1
      /\ (r.issued <=> req[w].row.issued)
  BY <1>1, ChangedIsDisp DEF DispStates, Disp
<1> HIDE DEF r
<1>4. /\ q \in Request /\ q.id = d /\ q.row = r /\ q.phase = "complete" /\ q.copy = None
  BY <1>1, <1>3 DEF Request
<1>5. /\ disp[d] # None /\ disp[d].mail = r.mail /\ disp[d].type = r.type
      /\ disp[d].state # "lost" /\ req[w].copy \in Mail
      /\ req[w].row.state = "executing"
  BY <1>1, <1>3 DEF IInv, CopiesKeepIdentity, LostIsAlone, StatesOf, Request
<1>6. x \in Mail /\ Shows(x, disp)
  BY <1>1, <1>3, <1>5, ExecutedShows
<1> HIDE DEF x, q
<1>7. req'[w] = q /\ \A v \in Workers \ {w} : req'[v] = req[v]
  BY <1>2 DEF IInv, TypeOK
<1>8. TypeOK' /\ IndexIsExact'
  BY <1>1, <1>2, <1>4, <1>6 DEF IInv, TypeOK, IndexIsExact
<1>9. CopiesKeepIdentity'
  <2>1. r.state \in StatesOf("complete")
    BY <1>3 DEF StatesOf
  <2> QED BY <1>1, <1>4, <1>5, <1>7, <2>1 DEF IInv, CopiesKeepIdentity, StatesOf
<1>10. CopiesAreCurrent'
  <2>1. d \notin stale =>
          /\ r.version <= disp[d].version + 1
          /\ r.version = disp[d].version + 1 => disp[d].state = "executing"
    <3>1. d \notin stale =>
            /\ req[w].row.version <= disp[d].version
            /\ req[w].row.version = disp[d].version => disp[d].state = "executing"
      BY <1>1 DEF IInv, CopiesAreCurrent
    <3>2. req[w].row.version \in Nat /\ disp[d].version \in Nat
      BY <1>1, <1>5 DEF IInv, TypeOK, Disp
    <3> QED BY <1>3, <3>1, <3>2
  <2>2. Validate("executing", "completed")
    BY DEF Validate, Transitions
  <2> SUFFICES ASSUME NEW v \in Workers, req'[v] # None, req'[v].id \notin stale
               PROVE  LET y == req'[v]  z == disp[y.id] IN
                      /\ y.phase \in {"save", "complete"} =>
                           /\ y.row.version <= z.version + 1
                           /\ y.row.version = z.version + 1 => Validate(z.state, y.row.state)
                      /\ y.phase \in {"getMail", "saveMail"} =>
                           /\ y.row.version <= z.version
                           /\ y.row.version = z.version => z.state = "executing"
    BY <1>1 DEF CopiesAreCurrent, Validate
  <2>3. CASE v = w
    <3>1. req'[v].phase = "complete" /\ req'[v].row = r /\ req'[v].id = d /\ d \notin stale
      BY <1>4, <1>7, <2>3
    <3>2. /\ r.version <= disp[d].version + 1
          /\ r.version = disp[d].version + 1 => Validate(disp[d].state, r.state)
      BY <1>3, <2>1, <2>2, <3>1
    <3> QED BY <3>1, <3>2
  <2>4. CASE v # w
    BY <1>7, <2>4 DEF IInv, CopiesAreCurrent
  <2> QED BY <2>3, <2>4
<1>11. LastWriterIsThere'
  <2>1. q # None /\ disp' = disp /\ due' = due
    BY <1>1, <1>4
  <2>2. \A e \in Disps : e \in due' => e \in due
    BY <2>1
  <2>3. q # None /\ q.id = req[w].id /\ q.phase = "complete"
    BY <1>4, <2>1
  <2> QED BY <1>2, <2>1, <2>2, <2>3, OtherWitness
<1>12. LostIsAlone'
  BY <1>1, <1>4, <1>5, <1>7 DEF IInv, LostIsAlone
<1>13. MailsShow'
  <2>1. MailsShow /\ req[w].row.mail \in Mails /\ mail \in [Mails -> Mail] /\ disp' = disp
    BY <1>1 DEF IInv, TypeOK
  <2>2. \A m \in Mails : Shows(mail'[m], disp)
    BY <1>1, <1>6, <2>1 DEF MailsShow
  <2>3. \A v \in Workers : req'[v] # None => req'[v].copy = None \/ Shows(req'[v].copy, disp)
    BY <1>1, <1>4, <1>7, <2>1 DEF MailsShow
  <2>4. \A b \in Batches : item'[b] # None => Shows(item'[b].row, disp)
    BY <1>1, <2>1 DEF MailsShow
  <2> QED BY <2>1, <2>2, <2>3, <2>4 DEF MailsShow, Shows
<1>14. IssuersAreNamed'
  BY <1>1, <1>3, <1>4, <1>5, <1>7 DEF IInv, IssuersAreNamed, NamesItsIssuer
<1> QED BY <1>8, <1>9, <1>10, <1>11, <1>12, <1>13, <1>14 DEF IInv

(* The record is written by the request that owes it, or the request ends.   *)
LEMMA EndingKeeps ==
  ASSUME IInv, NEW w \in Workers, Record(w) \/ Fail(w)
  PROVE  IInv'
<1>1. /\ req[w] \in Request /\ req[w] # None /\ req[w].id \in Disps
      /\ req' = [req EXCEPT ![w] = None] /\ UNCHANGED <<disp, active, mail, item, stale, crossed>>
  BY DEF Record, Fail, At, IInv, TypeOK, Request
<1>2. /\ due' \subseteq Disps
      /\ \A e \in Disps : e \in due' => e \in due
      /\ req[w].id \in due' =>
           req[w].phase = "save" \/ (req[w].phase = "record" /\ disp[req[w].id].state # req[w].row.state)
  BY <1>1 DEF Record, Fail, At, Audited, IInv, TypeOK
<1>3. LastWriterIsThere'
  BY <1>1, <1>2, OtherWitness
<1> QED BY <1>1, <1>2, <1>3, RequestMoves

(* A batch reads or writes a mail. *)
LEMMA ItemKeeps ==
  ASSUME IInv, NEW b \in Batches, SaveItem(b) \/ FailItem(b) \/ \E m \in Mails : ReadItem(b, m)
  PROVE  IInv'
<1>1. UNCHANGED <<disp, active, due, req, stale, crossed>>
  BY DEF SaveItem, FailItem, ReadItem
<1>2. /\ mail' \in [Mails -> Mail] /\ item' \in [Batches -> Item \cup {None}]
      /\ \A m \in Mails : Shows(mail'[m], disp)
      /\ \A c \in Batches : item'[c] # None => Shows(item'[c].row, disp)
  <2>1. CASE SaveItem(b)
    <3>1. item[b] \in Item /\ item[b].mail \in Mails /\ item[b].row \in Mail /\ Shows(item[b].row, disp)
      BY <2>1 DEF SaveItem, IInv, TypeOK, MailsShow, Item
    <3> QED BY <2>1, <3>1 DEF SaveItem, IInv, TypeOK, MailsShow
  <2>2. CASE FailItem(b)
    BY <2>2 DEF FailItem, IInv, TypeOK, MailsShow
  <2>3. ASSUME NEW m \in Mails, ReadItem(b, m)
        PROVE  /\ mail' \in [Mails -> Mail] /\ item' \in [Batches -> Item \cup {None}]
               /\ \A n \in Mails : Shows(mail'[n], disp)
               /\ \A c \in Batches : item'[c] # None => Shows(item'[c].row, disp)
    <3>1. mail[m] \in Mail /\ Shows(mail[m], disp) /\ mail[m].state \in OnTheRoad
      BY <2>3 DEF ReadItem, DeliveredFrom, TakenBackFrom, OnTheRoad, IInv, TypeOK, MailsShow
    <3>2. PICK s \in OnTheRoad :
            item' = [item EXCEPT ![b] = [mail |-> m, row |-> [mail[m] EXCEPT !.state = s]]]
      BY <2>3 DEF ReadItem, OnTheRoad
    <3> DEFINE r == [mail[m] EXCEPT !.state = s]
               i == [mail |-> m, row |-> r]
    <3>3. r \in Mail /\ r.disposition = mail[m].disposition
      BY <3>1, <3>2 DEF Mail
    <3>4. mail[m].disposition # None => disp[mail[m].disposition].type \notin DOMAIN MailStateFor
      BY <3>1 DEF Shows, OnTheRoad, MailStateFor
    <3>5. Shows(r, disp)
      BY <3>1, <3>3, <3>4 DEF Shows
    <3> HIDE DEF r
    <3>6. i \in Item /\ i.row = r /\ i # None
      BY <3>3, NoneAssumption DEF Item
    <3> HIDE DEF i
    <3>7. item' = [item EXCEPT ![b] = i] /\ mail' = mail
      BY <2>3, <3>2 DEF ReadItem, r, i
    <3> QED BY <3>5, <3>6, <3>7 DEF IInv, TypeOK, MailsShow
  <2> QED BY <2>1, <2>2, <2>3
<1>3. TypeOK' /\ IndexIsExact' /\ LastWriterIsThere'
  BY <1>1, <1>2 DEF IInv, TypeOK, IndexIsExact, LastWriterIsThere
<1>4. CopiesKeepIdentity' /\ LostIsAlone'
  BY <1>1 DEF IInv, CopiesKeepIdentity, StatesOf, LostIsAlone
<1>5. CopiesAreCurrent'
  BY <1>1 DEF IInv, CopiesAreCurrent, Validate
<1>6. \A w \in Workers : req'[w] # None => req'[w].copy = None \/ Shows(req'[w].copy, disp)
  BY <1>1 DEF IInv, MailsShow
<1>7. MailsShow'
  BY <1>1, <1>2, <1>6 DEF MailsShow, Shows
<1>8. IssuersAreNamed'
  BY <1>1 DEF IInv, IssuersAreNamed, NamesItsIssuer
<1> QED BY <1>3, <1>4, <1>5, <1>7, <1>8 DEF IInv

-----------------------------------------------------------------------------
(* Every step keeps the invariant. *)
LEMMA NextIInv == IInv /\ [Next]_vars => IInv'
<1> SUFFICES ASSUME IInv, [Next]_vars PROVE IInv'
  OBVIOUS
<1>1. ASSUME NEW w \in Workers, NEW d \in Disps, NEW m \in Mails, NEW ty \in Types, Submit(w, d, m, ty)
      PROVE  IInv'
  BY <1>1, SubmitKeeps
<1>2. ASSUME NEW w \in Workers, NEW d \in Disps, Review(w, d) \/ Withdraw(w, d) \/ Execute(w, d)
      PROVE  IInv'
  <2>1. PICK s \in {"issued", "rejected", "withdrawn", "executing"} : Begin(w, d, s)
    BY <1>2 DEF Review, Withdraw, Execute
  <2> QED BY <2>1, BeginKeeps
<1>3. ASSUME NEW w \in Workers, Save(w)
      PROVE  IInv'
  <2>1. CASE req[w].row.state = "executing"
    BY <1>3, <2>1, WriteKeeps DEF Save
  <2>2. CASE req[w].row.state # "executing"
    BY <1>3, <2>2, WriteKeeps DEF Save
  <2> QED BY <2>1, <2>2
<1>4. ASSUME NEW w \in Workers, Complete(w)
      PROVE  IInv'
  BY <1>4, WriteKeeps DEF Complete
<1>5. ASSUME NEW w \in Workers, GetMail(w) \/ SaveMail(w) \/ Record(w) \/ Fail(w)
      PROVE  IInv'
  <2>1. CASE GetMail(w)
    BY <2>1, GetMailKeeps
  <2>2. CASE SaveMail(w)
    BY <2>2, SaveMailKeeps
  <2>3. CASE Record(w) \/ Fail(w)
    BY <2>3, EndingKeeps
  <2> QED BY <1>5, <2>1, <2>2, <2>3
<1>6. CASE UNCHANGED vars
  <2>1. UNCHANGED <<disp, active, mail, item, due, req, stale, crossed>>
    BY <1>6 DEF vars
  <2>2. TypeOK' /\ IndexIsExact' /\ LastWriterIsThere'
    BY <2>1 DEF IInv, TypeOK, IndexIsExact, LastWriterIsThere
  <2>3. CopiesKeepIdentity' /\ LostIsAlone'
    BY <2>1 DEF IInv, CopiesKeepIdentity, StatesOf, LostIsAlone
  <2>4. CopiesAreCurrent'
    BY <2>1 DEF IInv, CopiesAreCurrent, Validate
  <2>5. MailsShow' /\ IssuersAreNamed'
    BY <2>1 DEF IInv, MailsShow, Shows, IssuersAreNamed, NamesItsIssuer
  <2> QED BY <2>2, <2>3, <2>4, <2>5 DEF IInv
<1>7. ASSUME NEW b \in Batches, SaveItem(b) \/ FailItem(b) \/ \E m \in Mails : ReadItem(b, m)
      PROVE  IInv'
  BY <1>7, ItemKeeps
<1> QED BY <1>1, <1>2, <1>3, <1>4, <1>5, <1>6, <1>7 DEF Next

(* The inductive invariant holds in every reachable state. *)
THEOREM DispositionInvariance == Spec => []IInv
  BY InitIInv, NextIInv, PTL DEF Spec

(* Every table and every request in flight keeps its type. *)
THEOREM DispositionsTypeCorrect == Spec => []TypeOK
<1>1. IInv => TypeOK
  BY DEF IInv
<1> QED BY <1>1, DispositionInvariance, PTL

(* active_dispositions lists exactly the active dispositions, at most one    *)
(* per mail, as long as no stale copy was written over a row: Submit's only  *)
(* check (CountActiveByMailTx) then decides by the truth.                    *)
THEOREM IndexExact == Spec => []IndexIsExact
<1>1. IInv => IndexIsExact
  BY DEF IInv
<1> QED BY <1>1, DispositionInvariance, PTL

(* A state whose record is still due has a request on its way to the record. *)
THEOREM StatesAudited == Spec => []StatesAreAudited
<1>1. IInv => StatesAreAudited
  BY DEF IInv, TypeOK, LastWriterIsThere, StatesAreAudited
<1> QED BY <1>1, DispositionInvariance, PTL

-----------------------------------------------------------------------------
(* With empty tables nothing is crossed. *)
LEMMA InitUncrossed == Init => Uncrossed
  BY DEF Init, Uncrossed, StaleIsCrossed, ExecutesAlone, Executes, CopiesHaveTheAddress, ItemsHaveTheMail

(* A row is saved.  If its mail is not crossed by that, nobody was executing *)
(* the disposition and the copy was the next of its row; another execution   *)
(* of the mail would be the active disposition, and so would this one.       *)
LEMMA WriteUncrossed ==
  ASSUME IInv, Uncrossed, NEW w \in Workers, NEW p \in {"getMail", "record"},
         At(w, "save") \/ At(w, "complete"),
         p = "getMail" => req[w].row.state = "executing",
         SaveRow(req[w].id, req[w].row),
         Goto(w, p)
  PROVE  Uncrossed'
<1> DEFINE d == req[w].id
           r == req[w].row
           q == [req[w] EXCEPT !.phase = p]
<1>1. /\ req[w] \in Request /\ req[w] # None /\ d \in Disps /\ r \in Disp /\ r.mail \in Mails
      /\ req[w].phase \in {"save", "complete"}
      /\ disp[d] \in Disp /\ disp[d] # None /\ r # None /\ disp[d].mail = r.mail
  BY DEF At, IInv, TypeOK, Request, Disp, CopiesKeepIdentity
<1>2. /\ disp' = [disp EXCEPT ![d] = r]
      /\ stale' = IF disp[d].version = r.version - 1 THEN stale ELSE stale \cup {d}
      /\ crossed' = IF disp[d].version = r.version - 1 /\ ~Executing(d) THEN crossed
                    ELSE crossed \cup {r.mail}
      /\ mail' = mail /\ item' = item
  BY <1>1 DEF SaveRow, Fresh
<1>3. disp'[d] = r /\ \A e \in Disps \ {d} : disp'[e] = disp[e]
  BY <1>1, <1>2 DEF IInv, TypeOK
<1>4. /\ q.id = d /\ q.row = r /\ q.phase = p /\ q.copy = req[w].copy
      /\ req' = [req EXCEPT ![w] = q]
  BY <1>1 DEF Request, Goto
<1> HIDE DEF q
<1>5. req'[w] = q /\ \A v \in Workers \ {w} : req'[v] = req[v]
  BY <1>4 DEF IInv, TypeOK
<1>6. crossed \subseteq crossed'
  BY <1>2
<1>7. r.mail \notin crossed' => /\ disp[d].version = r.version - 1 /\ ~Executing(d) /\ d \notin stale
                                /\ r.mail \notin crossed
  BY <1>1, <1>2 DEF Uncrossed, StaleIsCrossed
<1>8. StaleIsCrossed'
  <2> SUFFICES ASSUME NEW e \in stale' PROVE disp'[e] # None /\ disp'[e].mail \in crossed'
    BY DEF StaleIsCrossed
  <2>1. CASE e = d
    <3>1. CASE d \in stale
      BY <1>1, <1>3, <1>6, <2>1, <3>1 DEF Uncrossed, StaleIsCrossed
    <3>2. CASE d \notin stale
      BY <1>1, <1>2, <1>3, <2>1, <3>2
    <3> QED BY <3>1, <3>2
  <2>2. CASE e # d
    <3>1. e \in stale /\ e \in Disps
      BY <1>2, <2>2 DEF IInv, TypeOK
    <3> QED BY <1>3, <1>6, <2>2, <3>1 DEF Uncrossed, StaleIsCrossed
  <2> QED BY <2>1, <2>2
<1>9. ASSUME NEW v \in Workers, v # w, Executes(v), req[v].row.mail \notin crossed'
      PROVE  /\ req[v].id \in Disps /\ req[v].id # d
             /\ disp[req[v].id].state = "executing"
             /\ active[req[v].row.mail] = req[v].id
  <2>1. /\ req[v] # None /\ req[v].id \in Disps /\ req[v].row.mail \in Mails
        /\ disp[req[v].id] # None /\ disp[req[v].id].mail = req[v].row.mail
    BY <1>9 DEF Executes, IInv, TypeOK, CopiesKeepIdentity, Request, Disp
  <2>2. disp[req[v].id].state = "executing"
    BY <1>6, <1>9 DEF Uncrossed, ExecutesAlone
  <2>3. req[v].id \notin stale
    BY <1>6, <1>9, <2>1 DEF Uncrossed, StaleIsCrossed
  <2>4. active[req[v].row.mail] = req[v].id
    BY <2>1, <2>2, <2>3 DEF IInv, IndexIsExact, ActiveStates
  <2>5. req[v].id # d
    <3>1. SUFFICES ASSUME req[v].id = d PROVE FALSE
      OBVIOUS
    <3>2. req[v].row.mail = r.mail
      BY <1>1, <2>1, <3>1
    <3>3. Executing(d)
      BY <1>9, <3>1 DEF Executing, Executes
    <3> QED BY <1>7, <1>9, <3>2, <3>3
  <2> QED BY <2>1, <2>2, <2>4, <2>5
<1>10. ASSUME p = "getMail", r.mail \notin crossed'
       PROVE  active[r.mail] = d
  <2>1. disp[d].version = r.version - 1 /\ d \notin stale /\ r.state = "executing"
    BY <1>7, <1>10
  <2>2. r.version \in Nat /\ disp[d].version \in Nat
    BY <1>1 DEF Disp
  <2>3. Validate(disp[d].state, "executing")
    BY <1>1, <2>1, <2>2 DEF IInv, CopiesAreCurrent
  <2>4. disp[d].state \in ActiveStates
    BY <2>3 DEF Validate, Transitions, ActiveStates
  <2> QED BY <1>1, <2>1, <2>4 DEF IInv, IndexIsExact
<1>11. ExecutesAlone'
  <2>1. ASSUME NEW v \in Workers, Executes(v)', req'[v].row.mail \notin crossed'
        PROVE  /\ disp'[req'[v].id].state = "executing"
               /\ active[req'[v].row.mail] = req'[v].id
               /\ v # w => Executes(v) /\ req'[v] = req[v]
    <3>1. CASE v = w
      <4>1. p = "getMail"
        BY <1>4, <1>5, <2>1, <3>1 DEF Executes
      <4> QED BY <1>3, <1>4, <1>5, <1>10, <2>1, <3>1, <4>1
    <3>2. CASE v # w
      <4>1. req'[v] = req[v] /\ Executes(v)
        BY <1>5, <2>1, <3>2 DEF Executes
      <4> QED BY <1>3, <1>9, <2>1, <3>2, <4>1
    <3> QED BY <3>1, <3>2
  <2>2. ASSUME NEW v \in Workers, NEW u \in Workers, Executes(v)', Executes(u)',
               req'[v].row.mail \notin crossed', req'[u].row.mail = req'[v].row.mail
        PROVE  u = v
    <3>1. /\ active[req'[v].row.mail] = req'[v].id /\ active[req'[u].row.mail] = req'[u].id
          /\ (v # w => Executes(v) /\ req'[v] = req[v])
          /\ (u # w => Executes(u) /\ req'[u] = req[u])
      BY <2>1, <2>2
    <3>2. req'[u].id = req'[v].id
      BY <2>2, <3>1
    <3>3. CASE v # w /\ u # w
      BY <1>6, <2>2, <3>1, <3>3 DEF Uncrossed, ExecutesAlone
    <3>4. CASE v = w /\ u # w
      BY <1>4, <1>5, <1>9, <2>2, <3>1, <3>2, <3>4
    <3>5. CASE v # w /\ u = w
      BY <1>4, <1>5, <1>9, <2>2, <3>1, <3>2, <3>5
    <3> QED BY <3>3, <3>4, <3>5
  <2>3. \A v \in Workers : Executes(v)' /\ req'[v].row.mail \notin crossed' =>
          /\ disp'[req'[v].id].state = "executing"
          /\ \A u \in Workers : Executes(u)' /\ req'[u].row.mail = req'[v].row.mail => u = v
    BY <2>1, <2>2
  <2> QED BY <2>3 DEF ExecutesAlone
<1>12. CopiesHaveTheAddress'
  <2> SUFFICES ASSUME NEW v \in Workers, req'[v] # None, req'[v].phase = "saveMail",
                      req'[v].row.mail \notin crossed'
               PROVE  req'[v].copy.addr = mail'[req'[v].row.mail].addr
    BY DEF CopiesHaveTheAddress
  <2>1. req'[v] = req[v]
    BY <1>4, <1>5
  <2> QED BY <1>2, <1>6, <2>1 DEF Uncrossed, CopiesHaveTheAddress
<1>13. ItemsHaveTheMail'
  BY <1>2, <1>6 DEF Uncrossed, ItemsHaveTheMail
<1> QED BY <1>8, <1>11, <1>12, <1>13 DEF Uncrossed

(* A submission is of a disposition no request works on. *)
LEMMA SubmitUncrossed ==
  ASSUME IInv, Uncrossed, NEW w \in Workers, NEW d \in Disps, NEW m \in Mails, NEW ty \in Types,
         Submit(w, d, m, ty)
  PROVE  Uncrossed'
<1>1. PICK r : /\ disp' = [disp EXCEPT ![d] = r] /\ r # None /\ stale' = stale
               /\ crossed \subseteq crossed'
               /\ req' = [req EXCEPT ![w] = [id |-> d, phase |-> "record", row |-> r, copy |-> None]]
               /\ mail' = mail /\ item' = item /\ disp[d] = None
  <2> DEFINE r == [mail |-> m, type |-> ty, state |-> IF Lost(m) THEN "lost" ELSE "pending",
                   issued |-> FALSE, version |-> 1]
  <2>1. r \in Disp
    BY DEF Disp, DispStates
  <2>2. r # None
    BY <2>1, NoneAssumption
  <2> QED BY <2>2 DEF Submit, SaveRow, Fresh
<1>2. \A e \in Disps \ {d} : disp'[e] = disp[e]
  BY <1>1 DEF IInv, TypeOK
<1>3. req'[w].phase = "record" /\ \A v \in Workers \ {w} : req'[v] = req[v]
  BY <1>1 DEF IInv, TypeOK
<1>4. \A v \in Workers : req[v] # None => req[v].id \in Disps \ {d}
  BY <1>1 DEF IInv, TypeOK, CopiesKeepIdentity, Request
<1>5. StaleIsCrossed'
  <2>1. \A e \in stale : e \in Disps \ {d}
    BY <1>1 DEF IInv, TypeOK, Uncrossed, StaleIsCrossed
  <2> QED BY <1>1, <1>2, <2>1 DEF Uncrossed, StaleIsCrossed
<1>6. \A v \in Workers : Executes(v)' => v # w /\ Executes(v) /\ req'[v] = req[v] /\ disp'[req[v].id] = disp[req[v].id]
  BY <1>2, <1>3, <1>4 DEF Executes
<1>7. ExecutesAlone'
  BY <1>1, <1>6 DEF Uncrossed, ExecutesAlone
<1>8. CopiesHaveTheAddress' /\ ItemsHaveTheMail'
  BY <1>1, <1>3 DEF Uncrossed, CopiesHaveTheAddress, ItemsHaveTheMail
<1> QED BY <1>5, <1>7, <1>8 DEF Uncrossed

(* A request moves on, or ends, without writing a table.                     *)
LEMMA RequestUncrossed ==
  ASSUME IInv, Uncrossed, NEW w \in Workers, NEW q \in Request \cup {None},
         req' = [req EXCEPT ![w] = q],
         UNCHANGED <<disp, mail, item, stale, crossed>>,
         q # None /\ q.phase \in {"getMail", "saveMail"} =>
           /\ Executes(w) /\ q.id = req[w].id /\ q.row = req[w].row
           /\ q.phase = "saveMail" => q.copy.addr = mail[q.row.mail].addr
  PROVE  Uncrossed'
<1>1. req'[w] = q /\ \A v \in Workers \ {w} : req'[v] = req[v]
  BY DEF IInv, TypeOK
<1>2. \A v \in Workers : Executes(v)' => Executes(v) /\ req'[v].id = req[v].id /\ req'[v].row = req[v].row
  BY <1>1 DEF Executes
<1>3. ExecutesAlone'
  BY <1>2 DEF Uncrossed, ExecutesAlone
<1>4. CopiesHaveTheAddress'
  BY <1>1 DEF Uncrossed, CopiesHaveTheAddress
<1>5. StaleIsCrossed' /\ ItemsHaveTheMail'
  BY DEF Uncrossed, StaleIsCrossed, ItemsHaveTheMail
<1> QED BY <1>3, <1>4, <1>5 DEF Uncrossed

(* The mail is written.  Nobody else executes it, and no batch has it in     *)
(* hand, if it is not crossed.                                               *)
LEMMA SaveMailUncrossed ==
  ASSUME IInv, Uncrossed, NEW w \in Workers, SaveMail(w)
  PROVE  Uncrossed'
<1> DEFINE m == req[w].row.mail
<1>1. /\ Executes(w) /\ m \in Mails
      /\ disp' = disp /\ item' = item /\ stale' = stale
      /\ crossed' = IF InHand(m) THEN crossed \cup {m} ELSE crossed
      /\ \A n \in Mails \ {m} : mail'[n] = mail[n]
  BY DEF SaveMail, At, Executes, IInv, TypeOK, Request, Disp
<1>2. req'[w].phase = "complete" /\ \A v \in Workers \ {w} : req'[v] = req[v]
  BY DEF SaveMail, IInv, TypeOK
<1>3. StaleIsCrossed'
  BY <1>1 DEF Uncrossed, StaleIsCrossed
<1>4. \A v \in Workers : Executes(v)' => v # w /\ Executes(v) /\ req'[v] = req[v]
  BY <1>2 DEF Executes
<1>5. ExecutesAlone'
  BY <1>1, <1>4 DEF Uncrossed, ExecutesAlone
<1>6. CopiesHaveTheAddress'
  <2> SUFFICES ASSUME NEW v \in Workers, req'[v] # None, req'[v].phase = "saveMail",
                      req'[v].row.mail \notin crossed'
               PROVE  req'[v].copy.addr = mail'[req'[v].row.mail].addr
    BY DEF CopiesHaveTheAddress
  <2>1. v # w /\ req'[v] = req[v] /\ Executes(v) /\ req[v].row.mail \in Mails
        /\ req[v].row.mail \notin crossed
    BY <1>1, <1>2 DEF Executes, IInv, TypeOK, Request, Disp
  <2>2. req[v].row.mail # m
    BY <1>1, <2>1 DEF Uncrossed, ExecutesAlone
  <2> QED BY <1>1, <2>1, <2>2 DEF Uncrossed, CopiesHaveTheAddress
<1>7. ItemsHaveTheMail'
  <2> SUFFICES ASSUME NEW b \in Batches, item[b] # None
               PROVE  /\ item[b].row.state \in OnTheRoad
                      /\ item[b].mail \notin crossed' =>
                           /\ mail'[item[b].mail].state \in OnTheRoad
                           /\ mail'[item[b].mail].disposition = item[b].row.disposition
                           /\ mail'[item[b].mail].addr = item[b].row.addr
    BY <1>1 DEF ItemsHaveTheMail
  <2>1. item[b].mail \in Mails
    BY DEF IInv, TypeOK, Item
  <2>2. item[b].mail = m => m \in crossed'
    BY <1>1 DEF InHand
  <2> QED BY <1>1, <2>1, <2>2 DEF Uncrossed, ItemsHaveTheMail
<1> QED BY <1>3, <1>5, <1>6, <1>7 DEF Uncrossed

(* A batch reads or writes a mail: it writes what it read, but for a state on *)
(* the road.                                                                  *)
LEMMA ItemUncrossed ==
  ASSUME IInv, Uncrossed, NEW b \in Batches, SaveItem(b) \/ FailItem(b) \/ \E m \in Mails : ReadItem(b, m)
  PROVE  Uncrossed'
<1>1. UNCHANGED <<disp, req, stale, crossed>>
  BY DEF SaveItem, FailItem, ReadItem
<1>2. StaleIsCrossed' /\ ExecutesAlone'
  BY <1>1 DEF Uncrossed, StaleIsCrossed, ExecutesAlone, Executes
<1>3. \A w \in Workers : req[w] # None => req[w].row.mail \in Mails
  BY DEF IInv, TypeOK, Request, Disp
<1>4. CASE SaveItem(b)
  <2>1. /\ item[b] # None /\ item[b].mail \in Mails
        /\ mail' = [mail EXCEPT ![item[b].mail] = item[b].row]
        /\ item' = [item EXCEPT ![b] = None]
    BY <1>4 DEF SaveItem, IInv, TypeOK, Item
  <2>2. \A n \in Mails \ crossed : /\ mail'[n].addr = mail[n].addr
                                   /\ mail'[n].disposition = mail[n].disposition
                                   /\ mail[n].state \in OnTheRoad => mail'[n].state \in OnTheRoad
    BY <2>1 DEF IInv, TypeOK, Uncrossed, ItemsHaveTheMail
  <2>3. CopiesHaveTheAddress'
    BY <1>1, <1>3, <2>2 DEF Uncrossed, CopiesHaveTheAddress
  <2>4. \A c \in Batches : item'[c] # None => item'[c] = item[c] /\ item[c].mail \in Mails
    BY <2>1 DEF IInv, TypeOK, Item
  <2>5. ItemsHaveTheMail'
    BY <1>1, <2>2, <2>4 DEF Uncrossed, ItemsHaveTheMail
  <2> QED BY <1>2, <2>3, <2>5 DEF Uncrossed
<1>5. CASE FailItem(b)
  <2>1. mail' = mail /\ \A c \in Batches : item'[c] # None => item'[c] = item[c]
    BY <1>5 DEF FailItem, IInv, TypeOK
  <2> QED BY <1>1, <1>2, <2>1 DEF Uncrossed, CopiesHaveTheAddress, ItemsHaveTheMail
<1>6. ASSUME NEW m \in Mails, ReadItem(b, m)
      PROVE  Uncrossed'
  <2>1. mail' = mail /\ mail[m] \in Mail /\ mail[m].state \in OnTheRoad
    BY <1>6 DEF ReadItem, DeliveredFrom, TakenBackFrom, OnTheRoad, IInv, TypeOK
  <2>2. PICK s \in OnTheRoad :
          item' = [item EXCEPT ![b] = [mail |-> m, row |-> [mail[m] EXCEPT !.state = s]]]
    BY <1>6 DEF ReadItem, OnTheRoad
  <2> DEFINE r == [mail[m] EXCEPT !.state = s]
  <2>3. r.state = s /\ r.disposition = mail[m].disposition /\ r.addr = mail[m].addr
    BY <2>1 DEF Mail
  <2> HIDE DEF r
  <2>4. /\ item'[b].mail = m /\ item'[b].row = r
        /\ \A c \in Batches \ {b} : item'[c] = item[c]
    BY <2>2 DEF IInv, TypeOK, r
  <2>5. ItemsHaveTheMail'
    BY <1>1, <2>1, <2>3, <2>4 DEF Uncrossed, ItemsHaveTheMail
  <2>6. CopiesHaveTheAddress'
    BY <1>1, <2>1 DEF Uncrossed, CopiesHaveTheAddress
  <2> QED BY <1>2, <2>5, <2>6 DEF Uncrossed
<1> QED BY <1>4, <1>5, <1>6

(* Every step keeps what is known of the mails that are not crossed. *)
LEMMA NextUncrossed == IInv /\ Uncrossed /\ [Next]_vars => Uncrossed'
<1> SUFFICES ASSUME IInv, Uncrossed, [Next]_vars PROVE Uncrossed'
  OBVIOUS
<1>1. ASSUME NEW w \in Workers, NEW d \in Disps, NEW m \in Mails, NEW ty \in Types, Submit(w, d, m, ty)
      PROVE  Uncrossed'
  BY <1>1, SubmitUncrossed
<1>2. ASSUME NEW w \in Workers, NEW d \in Disps, Review(w, d) \/ Withdraw(w, d) \/ Execute(w, d)
      PROVE  Uncrossed'
  <2>1. PICK s \in {"issued", "rejected", "withdrawn", "executing"} : Begin(w, d, s)
    BY <1>2 DEF Review, Withdraw, Execute
  <2>2. /\ req' = [req EXCEPT ![w] = [id |-> d, phase |-> "save", row |-> Changed(disp[d], s), copy |-> None]]
        /\ UNCHANGED <<disp, mail, item, stale, crossed>>
    BY <2>1 DEF Begin
  <2>3. [id |-> d, phase |-> "save", row |-> Changed(disp[d], s), copy |-> None] \in Request
    BY <2>1, ChangedIsDisp DEF Begin, Request, DispStates, IInv, TypeOK
  <2> QED BY <2>2, <2>3, RequestUncrossed
<1>3. ASSUME NEW w \in Workers, Save(w)
      PROVE  Uncrossed'
  <2>1. CASE req[w].row.state = "executing"
    BY <1>3, <2>1, WriteUncrossed DEF Save
  <2>2. CASE req[w].row.state # "executing"
    BY <1>3, <2>2, WriteUncrossed DEF Save
  <2> QED BY <2>1, <2>2
<1>4. ASSUME NEW w \in Workers, Complete(w)
      PROVE  Uncrossed'
  BY <1>4, WriteUncrossed DEF Complete
<1>5. ASSUME NEW w \in Workers, GetMail(w)
      PROVE  Uncrossed'
  <2> DEFINE q == [req[w] EXCEPT !.phase = "saveMail", !.copy = mail[req[w].row.mail]]
  <2>1. /\ req[w] \in Request /\ Executes(w) /\ mail[req[w].row.mail] \in Mail
        /\ UNCHANGED <<disp, mail, item, stale, crossed>>
        /\ req' = [req EXCEPT ![w] = q]
    BY <1>5 DEF GetMail, At, Executes, IInv, TypeOK, Request, Disp
  <2>2. /\ q \in Request /\ q.id = req[w].id /\ q.row = req[w].row
        /\ q.copy = mail[req[w].row.mail]
    BY <2>1 DEF Request
  <2> HIDE DEF q
  <2> QED BY <2>1, <2>2, RequestUncrossed
<1>6. ASSUME NEW w \in Workers, Record(w) \/ Fail(w)
      PROVE  Uncrossed'
  <2>1. req' = [req EXCEPT ![w] = None] /\ UNCHANGED <<disp, mail, item, stale, crossed>>
    BY <1>6 DEF Record, Fail
  <2> QED BY <2>1, RequestUncrossed
<1>7. ASSUME NEW w \in Workers, SaveMail(w)
      PROVE  Uncrossed'
  BY <1>7, SaveMailUncrossed
<1>8. ASSUME NEW b \in Batches, SaveItem(b) \/ FailItem(b) \/ \E m \in Mails : ReadItem(b, m)
      PROVE  Uncrossed'
  BY <1>8, ItemUncrossed
<1>9. CASE UNCHANGED vars
  <2>1. UNCHANGED <<disp, mail, item, req, stale, crossed>>
    BY <1>9 DEF vars
  <2> QED BY <2>1 DEF Uncrossed, StaleIsCrossed, ExecutesAlone, Executes, CopiesHaveTheAddress,
                      ItemsHaveTheMail
<1> QED BY <1>1, <1>2, <1>3, <1>4, <1>5, <1>6, <1>7, <1>8, <1>9 DEF Next

(* What is known of the mails that are not crossed holds in every reachable  *)
(* state.                                                                    *)
LEMMA UncrossedInvariance == Spec => []Uncrossed
  BY InitUncrossed, NextUncrossed, DispositionInvariance, PTL DEF Spec

(* A mail no batch and no withdrawal came across is changed by nothing but   *)
(* the execution of the disposition that is active for it, which leaves its  *)
(* own marks there and no other's, and by batches that keep those marks.     *)
THEOREM ExecutionsAreKept == Spec => NoExecutionIsUndone
<1> DEFINE Kept == \A m \in Mails \ crossed' : mail'[m] # mail[m] =>
       LET d == mail'[m].disposition IN
       \/ /\ mail[m].state \in OnTheRoad /\ mail'[m].state \in OnTheRoad
          /\ mail'[m] = [mail[m] EXCEPT !.state = mail'[m].state]
       \/ /\ d \in Disps /\ active[m] = d /\ disp[d].state = "executing"
          /\ disp[d].type \in DOMAIN MailStateFor => mail'[m].state = MailStateFor[disp[d].type]
          /\ mail'[m].addr # mail[m].addr => d \in Addressed /\ mail'[m].addr = d
<1>1. ASSUME IInv, Uncrossed, [Next]_vars PROVE Kept
  <2> SUFFICES ASSUME NEW m \in Mails, m \notin crossed', mail'[m] # mail[m]
               PROVE  LET d == mail'[m].disposition IN
                      \/ /\ mail[m].state \in OnTheRoad /\ mail'[m].state \in OnTheRoad
                         /\ mail'[m] = [mail[m] EXCEPT !.state = mail'[m].state]
                      \/ /\ d \in Disps /\ active[m] = d /\ disp[d].state = "executing"
                         /\ disp[d].type \in DOMAIN MailStateFor => mail'[m].state = MailStateFor[disp[d].type]
                         /\ mail'[m].addr # mail[m].addr => d \in Addressed /\ mail'[m].addr = d
    OBVIOUS
  <2>0. m \notin crossed' /\ mail'[m] # mail[m]
    OBVIOUS
  <2>1. ASSUME NEW b \in Batches, SaveItem(b)
        PROVE  /\ mail[m].state \in OnTheRoad /\ mail'[m].state \in OnTheRoad
               /\ mail'[m] = [mail[m] EXCEPT !.state = mail'[m].state]
    <3>1. /\ item[b] # None /\ item[b].mail = m /\ mail'[m] = item[b].row /\ m \notin crossed
          /\ item[b].row \in Mail /\ mail[m] \in Mail
      BY <1>1, <2>0, <2>1 DEF SaveItem, IInv, TypeOK, Item
    <3>2. /\ item[b].row.state \in OnTheRoad /\ mail[m].state \in OnTheRoad
          /\ mail[m].disposition = item[b].row.disposition /\ mail[m].addr = item[b].row.addr
      BY <1>1, <3>1 DEF Uncrossed, ItemsHaveTheMail
    <3>3. item[b].row = [mail[m] EXCEPT !.state = item[b].row.state]
      BY <3>1, <3>2 DEF Mail
    <3> QED BY <3>1, <3>2, <3>3
  <2>2. ASSUME NEW w \in Workers, SaveMail(w)
        PROVE  LET d == mail'[m].disposition IN
               /\ d \in Disps /\ active[m] = d /\ disp[d].state = "executing"
               /\ disp[d].type \in DOMAIN MailStateFor => mail'[m].state = MailStateFor[disp[d].type]
               /\ mail'[m].addr # mail[m].addr => d \in Addressed /\ mail'[m].addr = d
    <3>1. /\ req[w] # None /\ req[w].phase = "saveMail" /\ req[w].row.mail = m /\ m \notin crossed
          /\ mail'[m] = Executed(req[w].copy, req[w].id, req[w].row.type) /\ req[w].id \in Disps
      BY <1>1, <2>0, <2>2 DEF SaveMail, At, IInv, TypeOK, Request, Disp
    <3>2. /\ disp[req[w].id] # None /\ disp[req[w].id].mail = m
          /\ disp[req[w].id].type = req[w].row.type
      BY <1>1, <3>1 DEF IInv, CopiesKeepIdentity
    <3>3. disp[req[w].id].state = "executing" /\ req[w].id \notin stale
      BY <1>1, <3>1, <3>2 DEF Uncrossed, ExecutesAlone, Executes, StaleIsCrossed
    <3>4. active[m] = req[w].id
      BY <1>1, <3>1, <3>2, <3>3 DEF IInv, IndexIsExact, ActiveStates
    <3>5. req[w].copy.addr = mail[m].addr
      BY <1>1, <3>1 DEF Uncrossed, CopiesHaveTheAddress
    <3> QED BY <3>1, <3>2, <3>3, <3>4, <3>5 DEF Executed
  <2>3. ASSUME NEW w \in Workers,
               \/ \E d \in Disps : \/ \E n \in Mails, ty \in Types : Submit(w, d, n, ty)
                                   \/ Review(w, d) \/ Withdraw(w, d) \/ Execute(w, d)
               \/ Save(w) \/ GetMail(w) \/ Complete(w) \/ Record(w) \/ Fail(w)
        PROVE  mail' = mail
    <3>1. ASSUME NEW d \in Disps, NEW n \in Mails, NEW ty \in Types, Submit(w, d, n, ty)
          PROVE  mail' = mail
      BY <3>1 DEF Submit, SaveRow
    <3>2. ASSUME NEW d \in Disps, Review(w, d) \/ Withdraw(w, d) \/ Execute(w, d)
          PROVE  mail' = mail
      BY <3>2 DEF Review, Withdraw, Execute, Begin
    <3>3. ASSUME Save(w) \/ Complete(w)
          PROVE  mail' = mail
      BY <3>3 DEF Save, Complete, SaveRow
    <3>4. ASSUME GetMail(w) \/ Record(w) \/ Fail(w)
          PROVE  mail' = mail
      BY <3>4 DEF GetMail, Record, Fail
    <3> QED BY <2>3, <3>1, <3>2, <3>3, <3>4
  <2>4. ASSUME NEW b \in Batches, FailItem(b) \/ \E n \in Mails : ReadItem(b, n)
        PROVE  mail' = mail
    BY <2>4 DEF FailItem, ReadItem
  <2>5. CASE UNCHANGED vars
    BY <2>0, <2>5 DEF vars
  <2> QED BY <1>1, <2>0, <2>1, <2>2, <2>3, <2>4, <2>5 DEF Next
<1>2. IInv /\ Uncrossed /\ [Next]_vars => [Kept]_vars
  BY <1>1
<1> QED BY <1>2, DispositionInvariance, UncrossedInvariance, PTL DEF Spec, NoExecutionIsUndone

(* A lost disposition is never written again and never reaches a mail.       *)
THEOREM LostForGood == Spec => LostIsFinal
<1> DEFINE Kept == \A d \in Disps : disp[d] # None /\ disp[d].state = "lost"
                     => disp'[d] = disp[d] /\ \A m \in Mails : mail'[m].disposition # d
<1>1. ASSUME IInv, [Next]_vars, IInv' PROVE Kept
  <2> SUFFICES ASSUME NEW d \in Disps, disp[d] # None, disp[d].state = "lost"
               PROVE  disp'[d] = disp[d] /\ \A m \in Mails : mail'[m].disposition # d
    OBVIOUS
  <2>0. disp[d] # None /\ disp[d].state = "lost"
    OBVIOUS
  <2>1. disp'[d] = disp[d]
    <3>1. ASSUME NEW w \in Workers, Save(w) \/ Complete(w)
          PROVE  disp'[d] = disp[d]
      <4>1. req[w].id # d
        BY <1>1, <3>1 DEF IInv, LostIsAlone, Save, Complete, At
      <4>2. disp' = [disp EXCEPT ![req[w].id] = req[w].row]
        BY <3>1 DEF Save, Complete, SaveRow
      <4> QED BY <1>1, <4>1, <4>2 DEF IInv, TypeOK
    <3>2. ASSUME NEW w \in Workers, NEW e \in Disps, NEW m \in Mails, NEW ty \in Types,
                 Submit(w, e, m, ty)
          PROVE  disp'[d] = disp[d]
      <4>1. disp[e] = None /\ e # d
        BY <2>0, <3>2 DEF Submit
      <4>2. PICK r : disp' = [disp EXCEPT ![e] = r]
        BY <3>2 DEF Submit, SaveRow
      <4> QED BY <1>1, <4>1, <4>2 DEF IInv, TypeOK
    <3>3. ASSUME NEW w \in Workers, NEW e \in Disps, Review(w, e) \/ Withdraw(w, e) \/ Execute(w, e)
          PROVE  disp'[d] = disp[d]
      BY <3>3 DEF Review, Withdraw, Execute, Begin
    <3>4. ASSUME NEW w \in Workers, GetMail(w) \/ SaveMail(w) \/ Record(w) \/ Fail(w)
          PROVE  disp'[d] = disp[d]
      BY <3>4 DEF GetMail, SaveMail, Record, Fail
    <3>5. ASSUME NEW b \in Batches, SaveItem(b) \/ FailItem(b) \/ \E m \in Mails : ReadItem(b, m)
          PROVE  disp'[d] = disp[d]
      BY <3>5 DEF SaveItem, FailItem, ReadItem
    <3>6. CASE UNCHANGED vars
      BY <3>6 DEF vars
    <3>7. ASSUME NEW w \in Workers,
                 \/ \E e \in Disps : \/ \E m \in Mails, ty \in Types : Submit(w, e, m, ty)
                                     \/ Review(w, e) \/ Withdraw(w, e) \/ Execute(w, e)
                 \/ Save(w) \/ GetMail(w) \/ SaveMail(w) \/ Complete(w) \/ Record(w) \/ Fail(w)
          PROVE  disp'[d] = disp[d]
      BY <3>1, <3>2, <3>3, <3>4, <3>7
    <3>8. CASE \E w \in Workers :
                 \/ \E e \in Disps : \/ \E m \in Mails, ty \in Types : Submit(w, e, m, ty)
                                     \/ Review(w, e) \/ Withdraw(w, e) \/ Execute(w, e)
                 \/ Save(w) \/ GetMail(w) \/ SaveMail(w) \/ Complete(w) \/ Record(w) \/ Fail(w)
      BY <3>7, <3>8
    <3>9. CASE \E b \in Batches : SaveItem(b) \/ FailItem(b) \/ \E m \in Mails : ReadItem(b, m)
      BY <3>5, <3>9
    <3>10. Next \/ UNCHANGED vars
      BY <1>1
    <3> QED BY <3>6, <3>8, <3>9, <3>10 DEF Next
  <2>2. \A m \in Mails : mail'[m].disposition # d
    <3>1. MailsShow'
      BY <1>1 DEF IInv
    <3> QED BY <2>0, <2>1, <3>1, NoneAssumption DEF MailsShow, Shows
  <2> QED BY <2>1, <2>2
<1>2. IInv /\ IInv' /\ [Next]_vars => [Kept]_vars
  BY <1>1
<1> QED BY <1>2, DispositionInvariance, PTL DEF Spec, LostIsFinal

(* However stale the copies, what is issued, executed or completed names the *)
(* one who issued it.                                                        *)
THEOREM IssuersNamed == Spec => []IssuersAreNamed
<1>1. IInv => IssuersAreNamed
  BY DEF IInv
<1> QED BY <1>1, DispositionInvariance, PTL
===============================================================================
