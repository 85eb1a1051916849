------------------------------- MODULE Sessions -------------------------------
(***************************************************************************)
(* auth.Service: bearer tokens kept in a map and in auth_sessions.  A      *)
(* request authenticates against the map first and reads the row only when *)
(* the map does not know the token (after a restart).  Logout revokes the  *)
(* row, then the map entry.  Roles never change and are left out.          *)
(***************************************************************************)
EXTENDS Naturals

CONSTANTS
  Tokens,       (* random tokens, each drawn at most once                  *)
  Workers,      (* HTTP requests that can be in flight together            *)
  Idle,         (* marks a worker with no request                          *)
  NoSession,    (* no map entry, no row                                    *)
  TTL,          (* lifetime of a session                                   *)
  MaxTime       (* bound on the clock                                      *)

ASSUME TimeAssumption == TTL \in Nat /\ MaxTime \in Nat

VARIABLES
  now,          (* the clock                                               *)
  mem,          (* the sessions map                                        *)
  db,           (* rows of auth_sessions                                   *)
  issued,       (* tokens that Login has returned                          *)
  acked,        (* how often Logout of a token has returned nil            *)
  req           (* per worker, the request in flight                       *)

vars == <<now, mem, db, issued, acked, req>>

Session == [expires : 0 .. MaxTime + TTL, revoked : BOOLEAN]

ASSUME MarkAssumption == NoSession \notin Session

(* late remembers, for the properties, whether a logout of the token had     *)
(* been acknowledged when the request began.                                 *)
Request == [kind : {"login", "request", "logout"}, token : Tokens, began : 0 .. MaxTime,
            phase : {"save", "lookup", "found", "revoke", "granted"},
            session : Session \cup {NoSession}, late : BOOLEAN]

TypeOK ==
  /\ now \in 0 .. MaxTime
  /\ mem \in [Tokens -> Session \cup {NoSession}]
  /\ db \in [Tokens -> Session \cup {NoSession}]
  /\ issued \subseteq Tokens
  /\ acked \in [Tokens -> Nat]
  /\ req \in [Workers -> Request \cup {Idle}]

Init ==
  /\ now = 0
  /\ mem = [t \in Tokens |-> NoSession]
  /\ db = [t \in Tokens |-> NoSession]
  /\ issued = {}
  /\ acked = [t \in Tokens |-> 0]
  /\ req = [w \in Workers |-> Idle]

-----------------------------------------------------------------------------
Active(s) == s # NoSession /\ ~s.revoked /\ now < s.expires

At(w, phase) == req[w] # Idle /\ req[w].phase = phase

Finish(w) == req' = [req EXCEPT ![w] = Idle]

\* Mutant: one more unit of lifetime.
NewSession_Longer == [expires |-> now + TTL + 1, revoked |-> FALSE]

NewSession == [expires |-> now + TTL, revoked |-> FALSE]

Started(w, kind, t, phase, session) ==
  req' = [req EXCEPT ![w] = [kind |-> kind, token |-> t, began |-> now, phase |-> phase,
            session |-> session, late |-> acked[t] > 0]]

(* The credentials are right: a fresh token enters the map. *)
LoginMemory(w, t) ==
  /\ req[w] = Idle
  /\ \A v \in Workers : req[v] # Idle => req[v].token # t
  /\ mem[t] = NoSession /\ db[t] = NoSession
  /\ mem' = [mem EXCEPT ![t] = NewSession]
  /\ Started(w, "login", t, "save", NewSession)
  /\ UNCHANGED <<now, db, issued, acked>>

InsertRow(w) == db' = [db EXCEPT ![req[w].token] = req[w].session]

\* Mutant: the error of SaveSession is dropped.
LoginSave_IgnoresError(w) ==
  /\ At(w, "save")
  /\ db' = db \/ InsertRow(w)
  /\ issued' = issued \cup {req[w].token}
  /\ Finish(w)
  /\ UNCHANGED <<now, mem, acked>>

(* The row is inserted and the token returned, or the INSERT reports an     *)
(* error, with or without effect, and nobody learns the token.              *)
LoginSave(w) ==
  /\ At(w, "save")
  /\ \/ InsertRow(w) /\ issued' = issued \cup {req[w].token}
     \/ (db' = db \/ InsertRow(w)) /\ UNCHANGED issued
  /\ Finish(w)
  /\ UNCHANGED <<now, mem, acked>>

(* Authenticate, first half: the map under the read lock. *)
BeginAuth(w, t, kind) ==
  /\ req[w] = Idle
  /\ t \in issued
  /\ Started(w, kind, t, IF mem[t] = NoSession THEN "lookup" ELSE "found", mem[t])
  /\ UNCHANGED <<now, mem, db, issued, acked>>

(* Authenticate, second half when the map has no entry: the row. *)
Lookup(w) ==
  /\ At(w, "lookup")
  /\ req' = [req EXCEPT ![w].phase = "found", ![w].session = db[req[w].token]]
  /\ UNCHANGED <<now, mem, db, issued, acked>>

(* FindSession fails: the request is refused. *)
LookupFails(w) ==
  /\ At(w, "lookup")
  /\ Finish(w)
  /\ UNCHANGED <<now, mem, db, issued, acked>>

\* Mutant: the session found is kept in the map from then on.
Decide_Caches(w) ==
  /\ At(w, "found")
  /\ IF Active(req[w].session)
     THEN /\ req' = [req EXCEPT ![w].phase = IF req[w].kind = "logout" THEN "revoke" ELSE "granted"]
          /\ mem' = [mem EXCEPT ![req[w].token] = req[w].session]
     ELSE Finish(w) /\ UNCHANGED mem
  /\ UNCHANGED <<now, db, issued, acked>>

(* The session found is judged: a request is served, a logout goes on. *)
Decide(w) ==
  /\ At(w, "found")
  /\ IF Active(req[w].session)
     THEN req' = [req EXCEPT ![w].phase = IF req[w].kind = "logout" THEN "revoke" ELSE "granted"]
     ELSE Finish(w)
  /\ UNCHANGED <<now, mem, db, issued, acked>>

Served(w) == At(w, "granted") /\ Finish(w) /\ UNCHANGED <<now, mem, db, issued, acked>>

(* WHERE id = ? AND revoked_at IS NULL *)
Revocable(t) == db[t] # NoSession /\ ~db[t].revoked

\* Mutant: Logout forgets the repository.
RevokeRow_Forgotten(t) == UNCHANGED db

RevokeRow(t) == db' = [db EXCEPT ![t].revoked = TRUE]

RevokeMemory(w) == mem' = [mem EXCEPT ![req[w].token] = [req[w].session EXCEPT !.revoked = TRUE]]

(* Logout with the lock held: row, then map, then nil to the client. *)
Revoke(w) ==
  /\ At(w, "revoke")
  /\ Revocable(req[w].token)
  /\ RevokeRow(req[w].token)
  /\ RevokeMemory(w)
  /\ acked' = [acked EXCEPT ![req[w].token] = @ + 1]
  /\ Finish(w)
  /\ UNCHANGED <<now, issued>>

(* RevokeSession returns an error (no row left to revoke, a busy database, a *)
(* cancelled context, before or after the UPDATE took effect); Logout        *)
(* answers "session revoked" and leaves the map alone.                       *)
RevokeFails(w) ==
  /\ At(w, "revoke")
  /\ db' = db \/ (Revocable(req[w].token) /\ RevokeRow(req[w].token))
  /\ Finish(w)
  /\ UNCHANGED <<now, mem, issued, acked>>

Tick == now < MaxTime /\ now' = now + 1 /\ UNCHANGED <<mem, db, issued, acked, req>>

(* The process stops and starts: the map is gone, the rows are not. *)
Restart ==
  /\ mem' = [t \in Tokens |-> NoSession]
  /\ req' = [w \in Workers |-> Idle]
  /\ UNCHANGED <<now, db, issued, acked>>

Next ==
  \/ \E w \in Workers, t \in Tokens :
       LoginMemory(w, t) \/ BeginAuth(w, t, "request") \/ BeginAuth(w, t, "logout")
  \/ \E w \in Workers :
       \/ LoginSave(w) \/ Lookup(w) \/ LookupFails(w) \/ Decide(w) \/ Served(w)
       \/ Revoke(w) \/ RevokeFails(w)
  \/ Tick
  \/ Restart

Spec == Init /\ [][Next]_vars

-----------------------------------------------------------------------------
(* Properties *)

(* An acknowledged logout is in the row, so a restart cannot bring the       *)
(* session back; no map entry contradicts it; and of the logouts that race   *)
(* for one token only one is acknowledged.                                   *)
LogoutsAreDurable ==
  \A t \in Tokens : acked[t] > 0 =>
    /\ db[t] # NoSession /\ db[t].revoked
    /\ mem[t] = NoSession \/ mem[t].revoked
    /\ acked[t] = 1

(* README "服务重启后可恢复 ... 会话数据": a token a client holds has its row, *)
(* so that it is still known after a restart, with the same expiry.          *)
IssuedTokensSurvive ==
  \A t \in issued : db[t] # NoSession /\ (mem[t] # NoSession => mem[t].expires = db[t].expires)

(* README "退出后立即失效": a request that begins after its logout was        *)
(* acknowledged, or after the session expired, is not served, whatever it    *)
(* races with and however often the process restarts.                        *)
EndedSessionsAreRefused ==
  \A w \in Workers : At(w, "granted") => ~req[w].late /\ req[w].began < req[w].session.expires
===============================================================================
