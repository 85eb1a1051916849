---------------------------- MODULE SessionsProofs ----------------------------
(***************************************************************************)
(* Proofs about Sessions for any number of tokens and requests in flight   *)
(* and any lifetime.  Two facts carry them: a token whose row is still to  *)
(* be saved is in no other request (SavingIsFresh), and a session that a   *)
(* request holds has the expiry of its row and is marked as ended as soon  *)
(* as a logout was acknowledged before the request began (FoundIsCurrent). *)
(***************************************************************************)
EXTENDS Sessions, TLAPS

(* Between LoginMemory and LoginSave nobody else knows the token. *)
SavingIsFresh ==
  \A w \in Workers : At(w, "save") =>
    /\ req[w].token \notin issued
    /\ db[req[w].token] = NoSession
    /\ req[w].session \in Session
    /\ mem[req[w].token] = req[w].session
    /\ \A v \in Workers : req[v] # Idle /\ req[v].token = req[w].token => v = w

(* What a request past its lookup may rely on. *)
FoundIsCurrent ==
  \A w \in Workers : req[w] # Idle /\ req[w].phase # "save" =>
    LET q == req[w] IN
    /\ q.token \in issued
    /\ q.began <= now
    /\ q.session # NoSession => q.session.expires = db[q.token].expires
    /\ q.late => acked[q.token] > 0
    /\ q.phase = "found" /\ q.late => q.session = NoSession \/ q.session.revoked
    /\ q.phase \in {"revoke", "granted"} =>
         q.session # NoSession /\ ~q.late /\ q.began < q.session.expires

(* The inductive invariant. *)
IInv == TypeOK /\ LogoutsAreDurable /\ IssuedTokensSurvive /\ SavingIsFresh /\ FoundIsCurrent

USE TimeAssumption, MarkAssumption

(* With nothing issued and no request in flight the invariant holds.         *)
LEMMA InitIInv == Init => IInv
  BY DEF Init, IInv, TypeOK, LogoutsAreDurable, IssuedTokensSurvive, SavingIsFresh,
         FoundIsCurrent, At

(* A new login: the token is in no row, no map entry and no request. *)
LEMMA LoginMemoryKeeps ==
  ASSUME IInv, NEW w \in Workers, NEW t \in Tokens, LoginMemory(w, t)
  PROVE  IInv'
<1>1. NewSession \in Session
  BY DEF NewSession, Session, IInv, TypeOK
<1> DEFINE q == [kind |-> "login", token |-> t, began |-> now, phase |-> "save",
                 session |-> NewSession, late |-> acked[t] > 0]
<1>2. /\ mem' = [mem EXCEPT ![t] = NewSession]
      /\ req' = [req EXCEPT ![w] = q]
      /\ db[t] = NoSession /\ mem[t] = NoSession
      /\ \A v \in Workers : req[v] # Idle => req[v].token # t
      /\ UNCHANGED <<now, db, issued, acked>>
  BY DEF LoginMemory, Started
<1>3. t \notin issued /\ ~(acked[t] > 0)
  BY <1>2 DEF IInv, IssuedTokensSurvive, LogoutsAreDurable
<1>4. TypeOK'
  BY <1>1, <1>2 DEF IInv, TypeOK, Request
<1>5. LogoutsAreDurable' /\ IssuedTokensSurvive'
  BY <1>2, <1>3 DEF IInv, TypeOK, LogoutsAreDurable, IssuedTokensSurvive
<1>6. SavingIsFresh'
  BY <1>1, <1>2, <1>3 DEF IInv, TypeOK, SavingIsFresh, At
<1>7. FoundIsCurrent'
  BY <1>2 DEF IInv, TypeOK, FoundIsCurrent
<1> QED BY <1>4, <1>5, <1>6, <1>7 DEF IInv

(* The row of a login is saved, and the token handed out, or not.            *)
LEMMA LoginSaveKeeps ==
  ASSUME IInv, NEW w \in Workers, LoginSave(w)
  PROVE  IInv'
<1> DEFINE t == req[w].token
<1>1. req[w] \in Request /\ t \in Tokens /\ At(w, "save")
  BY DEF LoginSave, At, IInv, TypeOK, Request
<1>2. /\ t \notin issued /\ db[t] = NoSession /\ req[w].session \in Session
      /\ mem[t] = req[w].session
      /\ \A v \in Workers : req[v] # Idle /\ req[v].token = t => v = w
  BY <1>1 DEF IInv, SavingIsFresh
<1>3. req' = [req EXCEPT ![w] = Idle] /\ UNCHANGED <<now, mem, acked>>
  BY DEF LoginSave, Finish
<1>4. \/ db' = [db EXCEPT ![t] = req[w].session] /\ issued' = issued \cup {t}
      \/ db' = [db EXCEPT ![t] = req[w].session] /\ issued' = issued
      \/ db' = db /\ issued' = issued
  BY DEF LoginSave, InsertRow
<1>5. /\ db' \in [Tokens -> Session \cup {NoSession}]
      /\ db'[t] \in {req[w].session, NoSession}
      /\ \A u \in Tokens \ {t} : db'[u] = db[u]
  BY <1>1, <1>2, <1>4 DEF IInv, TypeOK
<1>6. issued \subseteq issued' /\ issued' \subseteq issued \cup {t}
      /\ (t \in issued' => db'[t] = req[w].session)
  BY <1>1, <1>2, <1>4 DEF IInv, TypeOK
<1>7. TypeOK'
  BY <1>1, <1>3, <1>5, <1>6 DEF IInv, TypeOK
<1>8. LogoutsAreDurable'
  BY <1>2, <1>3, <1>5 DEF IInv, TypeOK, LogoutsAreDurable
<1>9. IssuedTokensSurvive'
  <2> SUFFICES ASSUME NEW u \in issued'
               PROVE  db'[u] # NoSession /\ (mem'[u] # NoSession => mem'[u].expires = db'[u].expires)
    BY DEF IssuedTokensSurvive
  <2>1. CASE u = t
    BY <1>2, <1>3, <1>6, <2>1
  <2>2. CASE u # t
    BY <1>3, <1>5, <1>6, <2>2 DEF IInv, TypeOK, IssuedTokensSurvive
  <2> QED BY <2>1, <2>2
<1>10. \A v \in Workers : req'[v] # Idle =>
         v # w /\ req'[v] = req[v] /\ req[v] \in Request /\ req[v].token # t
  BY <1>2, <1>3 DEF IInv, TypeOK
<1>11. SavingIsFresh'
  BY <1>3, <1>5, <1>6, <1>10 DEF IInv, TypeOK, SavingIsFresh, At, Request
<1>12. FoundIsCurrent'
  BY <1>3, <1>5, <1>6, <1>10 DEF IInv, TypeOK, FoundIsCurrent, Request
<1> QED BY <1>7, <1>8, <1>9, <1>11, <1>12 DEF IInv

(* A step that changes one request only, past its save. *)
LEMMA RequestMoves ==
  ASSUME IInv, NEW w \in Workers, NEW q \in Request \cup {Idle},
         req' = [req EXCEPT ![w] = q],
         UNCHANGED <<now, mem, db, issued, acked>>,
         q # Idle => /\ q.phase # "save"
                     /\ q.token \in issued
                     /\ q.began <= now
                     /\ q.session # NoSession => q.session.expires = db[q.token].expires
                     /\ q.late => acked[q.token] > 0
                     /\ q.phase = "found" /\ q.late => q.session = NoSession \/ q.session.revoked
                     /\ q.phase \in {"revoke", "granted"} =>
                          q.session # NoSession /\ ~q.late /\ q.began < q.session.expires
  PROVE  IInv'
<1>1. TypeOK'
  BY DEF IInv, TypeOK
<1>2. LogoutsAreDurable' /\ IssuedTokensSurvive'
  BY DEF IInv, LogoutsAreDurable, IssuedTokensSurvive
<1>3. SavingIsFresh'
  BY DEF IInv, TypeOK, SavingIsFresh, At
<1>4. FoundIsCurrent'
  BY DEF IInv, TypeOK, FoundIsCurrent
<1> QED BY <1>1, <1>2, <1>3, <1>4 DEF IInv

(* Authenticate reads the map. *)
LEMMA BeginAuthKeeps ==
  ASSUME IInv, NEW w \in Workers, NEW t \in Tokens, NEW kind \in {"request", "logout"},
         BeginAuth(w, t, kind)
  PROVE  IInv'
<1> DEFINE q == [kind |-> kind, token |-> t, began |-> now,
                 phase |-> IF mem[t] = NoSession THEN "lookup" ELSE "found",
                 session |-> mem[t], late |-> acked[t] > 0]
<1>1. req' = [req EXCEPT ![w] = q] /\ t \in issued /\ UNCHANGED <<now, mem, db, issued, acked>>
  BY DEF BeginAuth, Started
<1>2. q \in Request
  BY DEF IInv, TypeOK, Request
<1>3. mem[t] # NoSession => mem[t].expires = db[t].expires
  BY <1>1 DEF IInv, IssuedTokensSurvive
<1>4. acked[t] > 0 => mem[t] = NoSession \/ mem[t].revoked
  BY DEF IInv, LogoutsAreDurable
<1>5. now <= now
  BY DEF IInv, TypeOK
<1> HIDE DEF q
<1>6. /\ q.phase \in {"lookup", "found"} /\ q.token = t /\ q.began = now /\ q.session = mem[t]
      /\ q.late <=> acked[t] > 0
  BY DEF q
<1> QED BY <1>1, <1>2, <1>3, <1>4, <1>5, <1>6, RequestMoves

(* ... or the row. *)
LEMMA LookupKeeps ==
  ASSUME IInv, NEW w \in Workers, Lookup(w)
  PROVE  IInv'
<1> DEFINE q == [req[w] EXCEPT !.phase = "found", !.session = db[req[w].token]]
<1>1. req[w] \in Request /\ req[w] # Idle /\ req[w].phase = "lookup"
  BY DEF Lookup, At, IInv, TypeOK
<1>2. req' = [req EXCEPT ![w] = q] /\ UNCHANGED <<now, mem, db, issued, acked>>
  BY DEF Lookup, IInv, TypeOK
<1>3. q \in Request
  BY <1>1 DEF IInv, TypeOK, Request
<1>4. /\ req[w].token \in issued /\ req[w].began <= now
      /\ req[w].late => acked[req[w].token] > 0
  BY <1>1 DEF IInv, FoundIsCurrent
<1>5. acked[req[w].token] > 0 => db[req[w].token].revoked
  BY <1>1 DEF IInv, LogoutsAreDurable, Request
<1>6. /\ q.phase = "found" /\ q.token = req[w].token /\ q.began = req[w].began
      /\ q.session = db[req[w].token] /\ q.late = req[w].late
  BY <1>1 DEF Request
<1> HIDE DEF q
<1> QED BY <1>2, <1>3, <1>4, <1>5, <1>6, RequestMoves

(* A session that is neither revoked nor expired belongs to a request that   *)
(* began before its end.                                                     *)
LEMMA DecideKeeps ==
  ASSUME IInv, NEW w \in Workers, Decide(w)
  PROVE  IInv'
<1>1. req[w] \in Request /\ req[w] # Idle /\ req[w].phase = "found"
  BY DEF Decide, At, IInv, TypeOK
<1>2. UNCHANGED <<now, mem, db, issued, acked>>
  BY DEF Decide
<1>3. CASE ~Active(req[w].session)
  <2>1. req' = [req EXCEPT ![w] = Idle]
    BY <1>3 DEF Decide, Finish
  <2> QED BY <1>2, <2>1, RequestMoves
<1>4. CASE Active(req[w].session)
  <2> DEFINE p == IF req[w].kind = "logout" THEN "revoke" ELSE "granted"
             q == [req[w] EXCEPT !.phase = p]
  <2>1. req' = [req EXCEPT ![w] = q] /\ p \in {"revoke", "granted"}
    BY <1>4 DEF Decide, IInv, TypeOK
  <2>2. q \in Request
    BY <1>1 DEF Request
  <2>3. /\ req[w].token \in issued /\ req[w].began <= now
        /\ req[w].session # NoSession => req[w].session.expires = db[req[w].token].expires
        /\ req[w].late => req[w].session = NoSession \/ req[w].session.revoked
        /\ req[w].late => acked[req[w].token] > 0
    BY <1>1 DEF IInv, FoundIsCurrent
  <2>4. req[w].session \in Session /\ ~req[w].session.revoked /\ now < req[w].session.expires
    BY <1>1, <1>4 DEF Active, Request
  <2>5. now \in Nat /\ req[w].began \in Nat /\ req[w].session.expires \in Nat
    BY <1>1, <2>4 DEF IInv, TypeOK, Request, Session
  <2>6. ~req[w].late /\ req[w].began < req[w].session.expires
    BY <2>3, <2>4, <2>5
  <2>7. /\ q.phase = p /\ q.token = req[w].token /\ q.began = req[w].began
        /\ q.session = req[w].session /\ q.late = req[w].late
    BY <1>1 DEF Request
  <2> HIDE DEF q
  <2> QED BY <1>2, <2>1, <2>2, <2>3, <2>4, <2>6, <2>7, RequestMoves
<1> QED BY <1>3, <1>4

(* The row of a token is revoked: only expiry-preserving, and never undone.  *)
LEMMA RevokedRow ==
  ASSUME IInv, NEW t \in Tokens, Revocable(t), RevokeRow(t)
  PROVE  /\ db' \in [Tokens -> Session \cup {NoSession}]
         /\ db'[t] \in Session /\ db'[t].revoked /\ db'[t].expires = db[t].expires
         /\ \A u \in Tokens \ {t} : db'[u] = db[u]
<1>1. db[t] \in Session /\ db' = [db EXCEPT ![t] = [db[t] EXCEPT !.revoked = TRUE]]
  BY DEF IInv, TypeOK, Revocable, RevokeRow
<1>2. [db[t] EXCEPT !.revoked = TRUE] \in Session
  BY <1>1 DEF Session
<1> QED BY <1>1, <1>2 DEF IInv, TypeOK, Session

(* Rows that are only revoked leave every other fact about them alone. *)
LEMMA RevocationKeeps ==
  ASSUME IInv, NEW w \in Workers, At(w, "revoke"), Revocable(req[w].token),
         RevokeRow(req[w].token), req' = [req EXCEPT ![w] = Idle], UNCHANGED <<now, issued>>,
         \/ UNCHANGED <<mem, acked>>
         \/ RevokeMemory(w) /\ acked' = [acked EXCEPT ![req[w].token] = @ + 1]
  PROVE  IInv'
<1> DEFINE t == req[w].token
           ended == [req[w].session EXCEPT !.revoked = TRUE]
<1>1. req[w] \in Request /\ t \in Tokens /\ req[w] # Idle /\ req[w].phase = "revoke"
  BY DEF At, IInv, TypeOK, Request
<1>2. /\ db' \in [Tokens -> Session \cup {NoSession}]
      /\ db'[t] \in Session /\ db'[t].revoked /\ db'[t].expires = db[t].expires
      /\ \A u \in Tokens \ {t} : db'[u] = db[u]
  BY <1>1, RevokedRow
<1>3. t \in issued /\ req[w].session \in Session /\ req[w].session.expires = db[t].expires
  BY <1>1 DEF IInv, FoundIsCurrent, Request
<1>4. ended \in Session /\ ended.revoked /\ ended.expires = db[t].expires
  BY <1>3 DEF Session
<1> HIDE DEF ended
<1>5. ~(acked[t] > 0) /\ acked[t] = 0
  BY <1>1 DEF IInv, TypeOK, LogoutsAreDurable, Revocable
<1>6. \/ mem' = mem /\ acked' = acked
      \/ mem' = [mem EXCEPT ![t] = ended] /\ acked' = [acked EXCEPT ![t] = acked[t] + 1]
  BY DEF RevokeMemory, ended
<1>7. TypeOK'
  BY <1>1, <1>2, <1>4, <1>6 DEF IInv, TypeOK
<1>8. LogoutsAreDurable'
  <2> SUFFICES ASSUME NEW u \in Tokens, acked'[u] > 0
               PROVE  /\ db'[u] # NoSession /\ db'[u].revoked
                      /\ mem'[u] = NoSession \/ mem'[u].revoked
                      /\ acked'[u] = 1
    BY DEF LogoutsAreDurable
  <2>1. CASE u # t
    BY <1>2, <1>6, <2>1 DEF IInv, TypeOK, LogoutsAreDurable
  <2>2. CASE u = t
    <3>1. mem'[t] = ended /\ acked'[t] = acked[t] + 1
      BY <1>1, <1>5, <1>6, <2>2 DEF IInv, TypeOK
    <3> QED BY <1>2, <1>4, <1>5, <2>2, <3>1
  <2> QED BY <2>1, <2>2
<1>9. IssuedTokensSurvive'
  <2> SUFFICES ASSUME NEW u \in issued, u \in Tokens
               PROVE  db'[u] # NoSession /\ (mem'[u] # NoSession => mem'[u].expires = db'[u].expires)
    BY DEF IInv, TypeOK, IssuedTokensSurvive
  <2>1. mem'[u] \in {mem[u], ended} /\ (u # t => mem'[u] = mem[u])
    BY <1>1, <1>6 DEF IInv, TypeOK
  <2>2. mem[u] # NoSession => mem[u].expires = db[u].expires
    BY DEF IInv, IssuedTokensSurvive
  <2>3. CASE u # t
    BY <1>2, <2>1, <2>2, <2>3 DEF IInv, IssuedTokensSurvive
  <2>4. CASE u = t
    BY <1>2, <1>4, <2>1, <2>2, <2>4
  <2> QED BY <2>3, <2>4
<1>10. \A v \in Workers : req'[v] # Idle => v # w /\ req'[v] = req[v] /\ req[v] \in Request
  BY DEF IInv, TypeOK
<1>11. SavingIsFresh'
  <2> SUFFICES ASSUME NEW v \in Workers, At(v, "save")'
               PROVE  /\ req'[v].token \notin issued'
                      /\ db'[req'[v].token] = NoSession
                      /\ req'[v].session \in Session
                      /\ mem'[req'[v].token] = req'[v].session
                      /\ \A x \in Workers : req'[x] # Idle /\ req'[x].token = req'[v].token => x = v
    BY DEF SavingIsFresh
  <2>1. v # w /\ req'[v] = req[v] /\ req[v] \in Request /\ At(v, "save")
    BY <1>10 DEF At
  <2>2. /\ req[v].token \notin issued /\ db[req[v].token] = NoSession
        /\ req[v].session \in Session /\ mem[req[v].token] = req[v].session
        /\ \A x \in Workers : req[x] # Idle /\ req[x].token = req[v].token => x = v
    BY <2>1 DEF IInv, SavingIsFresh
  <2>3. req[v].token # t /\ req[v].token \in Tokens
    BY <1>3, <2>1, <2>2 DEF Request
  <2>4. db'[req[v].token] = db[req[v].token] /\ mem'[req[v].token] = mem[req[v].token]
    BY <1>2, <1>6, <2>3 DEF IInv, TypeOK
  <2> QED BY <1>10, <2>1, <2>2, <2>4
<1>12. FoundIsCurrent'
  <2>1. \A u \in Tokens : acked[u] > 0 => acked'[u] > 0
    BY <1>6 DEF IInv, TypeOK
  <2>2. \A u \in Tokens : db'[u].expires = db[u].expires
    BY <1>2
  <2> QED BY <1>10, <2>1, <2>2 DEF IInv, FoundIsCurrent, Request
<1> QED BY <1>7, <1>8, <1>9, <1>11, <1>12 DEF IInv

(* The clock moves on. *)
LEMMA TickKeeps == IInv /\ Tick => IInv'
<1> SUFFICES ASSUME IInv, Tick PROVE IInv'
  OBVIOUS
<1>1. now' = now + 1 /\ now' \in 0 .. MaxTime /\ UNCHANGED <<mem, db, issued, acked, req>>
  BY DEF Tick, IInv, TypeOK
<1>2. TypeOK' /\ LogoutsAreDurable' /\ IssuedTokensSurvive' /\ SavingIsFresh'
  BY <1>1 DEF IInv, TypeOK, LogoutsAreDurable, IssuedTokensSurvive, SavingIsFresh, At
<1>3. \A w \in Workers : req[w] # Idle => req[w] \in Request /\ req[w].began \in Nat
  BY DEF IInv, TypeOK, Request
<1>4. FoundIsCurrent'
  BY <1>1, <1>3 DEF IInv, TypeOK, FoundIsCurrent
<1> QED BY <1>2, <1>4 DEF IInv

(* A restart forgets the map and the requests; the rows carry the rest.      *)
LEMMA RestartKeeps == IInv /\ Restart => IInv'
  BY DEF Restart, IInv, TypeOK, LogoutsAreDurable, IssuedTokensSurvive, SavingIsFresh,
         FoundIsCurrent, At

(* The invariant is inductive: one step per action of Next. *)
LEMMA NextIInv == IInv /\ [Next]_vars => IInv'
<1> SUFFICES ASSUME IInv, [Next]_vars PROVE IInv'
  OBVIOUS
<1>1. ASSUME NEW w \in Workers, NEW t \in Tokens, LoginMemory(w, t)
      PROVE  IInv'
  BY <1>1, LoginMemoryKeeps
<1>2. ASSUME NEW w \in Workers, NEW t \in Tokens,
             BeginAuth(w, t, "request") \/ BeginAuth(w, t, "logout")
      PROVE  IInv'
  BY <1>2, BeginAuthKeeps
<1>3. ASSUME NEW w \in Workers, LoginSave(w)
      PROVE  IInv'
  BY <1>3, LoginSaveKeeps
<1>4. ASSUME NEW w \in Workers, Lookup(w)
      PROVE  IInv'
  BY <1>4, LookupKeeps
<1>5. ASSUME NEW w \in Workers, LookupFails(w) \/ Served(w)
      PROVE  IInv'
  <2>1. req' = [req EXCEPT ![w] = Idle] /\ UNCHANGED <<now, mem, db, issued, acked>>
    BY <1>5 DEF LookupFails, Served, Finish
  <2> QED BY <2>1, RequestMoves
<1>6. ASSUME NEW w \in Workers, Decide(w)
      PROVE  IInv'
  BY <1>6, DecideKeeps
<1>7. ASSUME NEW w \in Workers, Revoke(w)
      PROVE  IInv'
  BY <1>7, RevocationKeeps DEF Revoke, Finish
<1>8. ASSUME NEW w \in Workers, RevokeFails(w)
      PROVE  IInv'
  <2>1. CASE db' = db
    <3>1. req' = [req EXCEPT ![w] = Idle] /\ UNCHANGED <<now, mem, db, issued, acked>>
      BY <1>8, <2>1 DEF RevokeFails, Finish
    <3> QED BY <3>1, RequestMoves
  <2>2. CASE db' # db
    BY <1>8, <2>2, RevocationKeeps DEF RevokeFails, Finish
  <2> QED BY <2>1, <2>2
<1>9. CASE Tick
  BY <1>9, TickKeeps
<1>10. CASE Restart
  BY <1>10, RestartKeeps
<1>11. CASE UNCHANGED vars
  BY <1>11 DEF vars, IInv, TypeOK, LogoutsAreDurable, IssuedTokensSurvive, SavingIsFresh,
               FoundIsCurrent, At
<1> QED BY <1>1, <1>2, <1>3, <1>4, <1>5, <1>6, <1>7, <1>8, <1>9, <1>10, <1>11 DEF Next

(* The inductive invariant holds for any number of tokens and requests. *)
THEOREM SessionInvariance == Spec => []IInv
<1> QED BY InitIInv, NextIInv, PTL DEF Spec

(* The map, the rows and the requests keep their types. *)
THEOREM SessionsTypeCorrect == Spec => []TypeOK
<1>1. IInv => TypeOK
  BY DEF IInv
<1> QED BY <1>1, SessionInvariance, PTL

(* An acknowledged logout is final, and one per token. *)
THEOREM LogoutsDurable == Spec => []LogoutsAreDurable
<1>1. IInv => LogoutsAreDurable
  BY DEF IInv
<1> QED BY <1>1, SessionInvariance, PTL

(* A token that was handed out has its row, with the expiry of its map entry. *)
THEOREM TokensSurvive == Spec => []IssuedTokensSurvive
<1>1. IInv => IssuedTokensSurvive
  BY DEF IInv
<1> QED BY <1>1, SessionInvariance, PTL

(* No request is served that began after its session ended. *)
THEOREM EndedSessionsRefused == Spec => []EndedSessionsAreRefused
<1>1. IInv => EndedSessionsAreRefused
  BY DEF IInv, FoundIsCurrent, EndedSessionsAreRefused, At
<1> QED BY <1>1, SessionInvariance, PTL
===============================================================================
