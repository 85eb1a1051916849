--------------------------- MODULE EventStreamProofs ---------------------------
(***************************************************************************)
(* Proofs about EventStream for any connections, publishers, buffers and   *)
(* pages.  A channel is open exactly while the bus holds it                *)
(* (ChannelsFollowPhases); an id in a buffer has left its publisher        *)
(* (EventsAreOwned), so an id that waits behind a newer one, or is not     *)
(* newer than the last one streamed, was overtaken (OldOnesAreOvertaken):  *)
(* what Stream drops is never missed.                                      *)
(***************************************************************************)
EXTENDS EventStream, FiniteSetTheorems, SequenceTheorems, TLAPS

Open == {"joined", "streaming", "leaving"}

(* A connection that has not registered has an open channel; the channel the *)
(* bus holds belongs to a connection between Register and Unregister; and    *)
(* such a connection loses the bus only by a closed channel.                 *)
ChannelsFollowPhases ==
  \A c \in Conns :
    /\ conn[c].phase \in {"new", "acquired", "found"} => closed[c] = 0
    /\ registered = c => conn[c].phase \in Open
    /\ conn[c].phase \in Open /\ closed[c] = 0 => registered = c

(* The events of the table that their publishers have offered to the bus.    *)
Owned == {id \in 1 .. lastId : HandedOut(id)}

(* An id has one publisher; what waits in a buffer, or was streamed last,    *)
(* has left it; and nothing is streamed before the replay.                   *)
PublishersAreApart ==
  /\ \A p \in Publishers : pub[p] # None => pub[p].id \in 1 .. lastId
  /\ \A p, q \in Publishers : pub[p] # None /\ pub[q] # None /\ pub[p].id = pub[q].id => p = q

EventsAreOwned ==
  /\ PublishersAreApart
  /\ \A c \in Conns : \A i \in 1 .. Len(buf[c]) : buf[c][i] \in Owned
  /\ \A c \in Conns : conn[c].lastSent = conn[c].after \/ conn[c].lastSent \in Owned
  /\ \A c \in Conns : In(c, "found") \/ In(c, "joined") => conn[c].lastSent = conn[c].after

(* An id behind a newer one was overtaken, and so was an id the handler will *)
(* drop, unless the replay wrote it or the client has it.                    *)
OldOnesAreOvertaken ==
  \A c \in Conns :
    /\ \A i, j \in 1 .. Len(buf[c]) : i < j /\ buf[c][j] <= buf[c][i] => buf[c][j] \in overtaken
    /\ \A j \in 1 .. Len(buf[c]) : buf[c][j] <= conn[c].lastSent =>
         \/ buf[c][j] <= conn[c].after
         \/ buf[c][j] \in overtaken
         \/ buf[c][j] \in ToSet(conn[c].sent)

(* What reaches the channel of c, or may still reach it. *)
Pending(c) == ToSet(buf[c]) \cup {pub[p].id : p \in {q \in Publishers : pub[q] # None}}

(* Before the replay the buffer holds what was handed out since Register.    *)
JoinedMissNothing ==
  \A c \in Conns : In(c, "joined") /\ closed[c] = 0 =>
    conn[c].joined + 1 .. lastId \subseteq Pending(c)

(* The inductive invariant. *)
IInv ==
  /\ TypeOK /\ ClosedOnce /\ SlotsAreExact /\ NothingIsMissed
  /\ ChannelsFollowPhases /\ EventsAreOwned /\ OldOnesAreOvertaken /\ JoinedMissNothing

USE StreamAssumption

-----------------------------------------------------------------------------
(* Sequences *)

(* The members of a sequence. *)
LEMMA Members ==
  ASSUME NEW S, NEW s \in Seq(S)
  PROVE  /\ Len(s) \in Nat /\ \A i \in 1 .. Len(s) : s[i] \in S
         /\ ToSet(s) = {s[i] : i \in 1 .. Len(s)} /\ ToSet(s) \subseteq S
  BY DEF ToSet

(* One more at the end. *)
LEMMA Appended ==
  ASSUME NEW S, NEW s \in Seq(S), NEW x \in S
  PROVE  /\ Append(s, x) \in Seq(S) /\ Len(Append(s, x)) = Len(s) + 1
         /\ \A i \in 1 .. Len(s) : Append(s, x)[i] = s[i]
         /\ Append(s, x)[Len(s) + 1] = x
         /\ ToSet(s) \subseteq ToSet(Append(s, x)) /\ x \in ToSet(Append(s, x))
<1>1. /\ Append(s, x) \in Seq(S) /\ Len(Append(s, x)) = Len(s) + 1
      /\ \A i \in 1 .. Len(s) : Append(s, x)[i] = s[i]
      /\ Append(s, x)[Len(s) + 1] = x
  OBVIOUS
<1>2. Len(s) \in Nat
  OBVIOUS
<1>3. ToSet(Append(s, x)) = {Append(s, x)[i] : i \in 1 .. Len(s) + 1}
  <2> DEFINE t == Append(s, x)
  <2>1. t \in Seq(S) /\ Len(t) = Len(s) + 1
    BY <1>1
  <2> HIDE DEF t
  <2>2. ToSet(t) = {t[i] : i \in 1 .. Len(t)}
    BY <2>1, Members
  <2>3. ToSet(t) = {t[i] : i \in 1 .. Len(s) + 1}
    BY <2>1, <2>2
  <2> QED BY <2>3 DEF t
<1>4. ASSUME NEW y \in ToSet(s) PROVE y \in ToSet(Append(s, x))
  <2>1. PICK i \in 1 .. Len(s) : y = s[i]
    BY Members
  <2>2. i \in 1 .. Len(s) + 1 /\ Append(s, x)[i] = y
    BY <1>1, <1>2, <2>1
  <2> QED BY <1>3, <2>2
<1>5. Len(s) + 1 \in 1 .. Len(s) + 1
  BY <1>2
<1>6. x \in ToSet(Append(s, x))
  BY <1>1, <1>3, <1>5
<1> QED BY <1>1, <1>4, <1>6

(* One less at the front. *)
LEMMA HeadGone ==
  ASSUME NEW S, NEW s \in Seq(S), s # <<>>
  PROVE  /\ Tail(s) \in Seq(S) /\ Len(s) \in Nat \ {0} /\ Len(Tail(s)) = Len(s) - 1
         /\ \A i \in 1 .. Len(Tail(s)) : i + 1 \in 1 .. Len(s) /\ Tail(s)[i] = s[i + 1]
         /\ Head(s) = s[1] /\ Head(s) \in S
         /\ ToSet(s) \subseteq {Head(s)} \cup ToSet(Tail(s))
<1>1. /\ Tail(s) \in Seq(S) /\ Len(s) \in Nat \ {0} /\ Len(Tail(s)) = Len(s) - 1
      /\ \A i \in 1 .. Len(Tail(s)) : i + 1 \in 1 .. Len(s) /\ Tail(s)[i] = s[i + 1]
      /\ Head(s) = s[1] /\ Head(s) \in S
  BY EmptySeq, HeadTailProperties
<1>2. ASSUME NEW y \in ToSet(s), y # Head(s) PROVE y \in ToSet(Tail(s))
  <2>1. PICK i \in 1 .. Len(s) : y = s[i]
    BY Members
  <2>2. i # 1
    BY <1>1, <1>2, <2>1
  <2>3. i - 1 \in 1 .. Len(Tail(s)) /\ (i - 1) + 1 = i
    BY <1>1, <2>2
  <2>4. Tail(s)[i - 1] = y
    BY <1>1, <2>1, <2>3
  <2> DEFINE t == Tail(s)
             k == i - 1
  <2>5. t \in Seq(S) /\ k \in 1 .. Len(t) /\ t[k] = y
    BY <1>1, <2>3, <2>4
  <2> HIDE DEF t, k
  <2>6. ToSet(t) = {t[j] : j \in 1 .. Len(t)}
    BY <2>5, Members
  <2>7. y \in ToSet(t)
    BY <2>5, <2>6
  <2> QED BY <2>7 DEF t
<1> QED BY <1>1, <1>2

(* A page of events holds the first ReplayLimit ones that are left.          *)
LEMMA PageIs ==
  ASSUME TypeOK, NEW a \in 0 .. MaxEvents
  PROVE  /\ Replayed(a) \in Seq(Ids)
         /\ \A n \in Later(a, pruned) + 1 .. lastId :
              n <= Later(a, pruned) + ReplayLimit => n \in ToSet(Replayed(a))
<1> DEFINE first == Later(a, pruned)
           full  == IF lastId > first + ReplayLimit THEN first + ReplayLimit ELSE lastId
           last  == Later(first, full)
<1>1. first \in Nat /\ lastId \in 0 .. MaxEvents /\ a <= first /\ first <= MaxEvents
  BY DEF TypeOK, Later
<1>2. last \in Nat /\ first <= last /\ last <= MaxEvents /\ full <= last
  BY <1>1 DEF Later
<1>3. Replayed(a) = [i \in 1 .. last - first |-> first + i]
  BY DEF Replayed
<1> HIDE DEF first, last, full
<1>4. last - first \in Nat /\ \A i \in 1 .. last - first : first + i \in Ids
  BY <1>1, <1>2 DEF Ids
<1>5. Replayed(a) \in Seq(Ids) /\ Len(Replayed(a)) = last - first
  BY <1>3, <1>4
<1>6. ASSUME NEW n \in first + 1 .. lastId, n <= first + ReplayLimit PROVE n \in ToSet(Replayed(a))
  <2>1. n <= full
    BY <1>1, <1>6 DEF full
  <2>2. n - first \in 1 .. last - first /\ first + (n - first) = n
    BY <1>1, <1>2, <2>1 DEF full
  <2>3. Replayed(a)[n - first] = n
    BY <1>3, <2>2
  <2> QED BY <1>5, <2>2, <2>3, Members
<1> QED BY <1>5, <1>6 DEF first

-----------------------------------------------------------------------------
(* Types *)

(* The record of a connection, its fields changed one by one. *)
LEMMA Fields ==
  ASSUME NEW r \in Conn, NEW ph \in Phases
  PROVE  /\ [r EXCEPT !.phase = ph] \in Conn
         /\ [r EXCEPT !.phase = ph].phase = ph
         /\ [r EXCEPT !.phase = ph].after = r.after
         /\ [r EXCEPT !.phase = ph].joined = r.joined
         /\ [r EXCEPT !.phase = ph].lost = r.lost
         /\ [r EXCEPT !.phase = ph].lastSent = r.lastSent
         /\ [r EXCEPT !.phase = ph].sent = r.sent
  BY DEF Conn

(* A step of the handler to another phase. *)
LEMMA GotoIs ==
  ASSUME TypeOK, NEW c \in Conns, NEW ph \in Phases, Goto(c, ph)
  PROVE  /\ conn' \in [Conns -> Conn]
         /\ conn'[c].phase = ph
         /\ \A d \in Conns : /\ d # c => conn'[d] = conn[d]
                             /\ conn'[d].after = conn[d].after
                             /\ conn'[d].joined = conn[d].joined
                             /\ conn'[d].lost = conn[d].lost
                             /\ conn'[d].lastSent = conn[d].lastSent
                             /\ conn'[d].sent = conn[d].sent
<1>1. conn[c] \in Conn /\ conn \in [Conns -> Conn]
  BY DEF TypeOK
<1>2. conn' = [conn EXCEPT ![c] = [conn[c] EXCEPT !.phase = ph]]
  BY DEF Goto
<1> QED BY <1>1, <1>2, Fields

(* The record a connection starts with. *)
LEMMA NewConnIs ==
  /\ NewConn \in Conn /\ NewConn.phase = "new" /\ NewConn.lastSent = 0 /\ NewConn.after = 0
<1>1. /\ NewConn.phase = "new" /\ NewConn.lastSent = 0 /\ NewConn.after = 0
  BY DEF NewConn
<1>2. <<>> \in Seq(Ids) /\ 0 \in 0 .. MaxEvents
  BY EmptySeq
<1>3. NewConn \in Conn
  BY <1>2 DEF NewConn, Conn, Phases
<1> QED BY <1>1, <1>3

(* The record a connection leaves behind. *)
LEMMA EndedIs ==
  ASSUME TypeOK, NEW c \in Conns, Release(c)
  PROVE  /\ conn' \in [Conns -> Conn]
         /\ \A d \in Conns : d # c => conn'[d] = conn[d]
         /\ conn'[c].phase = "ended" /\ conn'[c].lastSent = 0 /\ conn'[c].after = 0
<1> DEFINE e == [NewConn EXCEPT !.phase = "ended"]
           r == [e EXCEPT !.sent = conn[c].sent]
<1>1. conn[c].sent \in Seq(Ids) /\ conn \in [Conns -> Conn]
  BY DEF TypeOK, Conn
<1>2. e \in Conn /\ e.phase = "ended" /\ e.lastSent = 0 /\ e.after = 0
  BY NewConnIs DEF Conn, Phases
<1>3. conn' = [conn EXCEPT ![c] = r]
  BY DEF Release
<1> HIDE DEF e
<1>4. r \in Conn /\ r.phase = "ended" /\ r.lastSent = 0 /\ r.after = 0
  BY <1>1, <1>2 DEF Conn
<1> HIDE DEF r
<1> QED BY <1>1, <1>3, <1>4

(* Find starts where the row or the header says. *)
LEMMA FindIs ==
  ASSUME TypeOK, NEW c \in Conns, Find(c)
  PROVE  /\ conn' \in [Conns -> Conn]
         /\ \A d \in Conns : d # c => conn'[d] = conn[d]
         /\ conn'[c].phase = "found" /\ conn'[c].lastSent = conn'[c].after
<1>1. conn \in [Conns -> Conn] /\ checkpoint \in 0 .. MaxEvents
  BY DEF TypeOK
<1>2. \A d \in Conns : ToSet(conn[d].sent) \subseteq Ids
  <2>1. \A d \in Conns : conn[d].sent \in Seq(Ids)
    BY <1>1 DEF Conn
  <2> QED BY <2>1, Members
<1>3. \A header \in Seen : header \in 0 .. MaxEvents
  BY <1>2 DEF Seen, Ids
<1>4. PICK a \in 0 .. MaxEvents :
        conn' = [conn EXCEPT ![c] = [conn[c] EXCEPT !.phase = "found", !.after = a, !.lastSent = a]]
  BY <1>1, <1>3 DEF Find
<1> DEFINE r == [conn[c] EXCEPT !.phase = "found", !.after = a, !.lastSent = a]
<1>5. r \in Conn /\ r.phase = "found" /\ r.lastSent = r.after
  BY <1>1 DEF Conn, Phases
<1> HIDE DEF r
<1>6. conn' = [conn EXCEPT ![c] = r]
  BY <1>4 DEF r
<1> QED BY <1>1, <1>5, <1>6

(* Register notes the newest id. *)
LEMMA RegisterIs ==
  ASSUME TypeOK, NEW c \in Conns, Register(c)
  PROVE  /\ conn' \in [Conns -> Conn]
         /\ \A d \in Conns : d # c => conn'[d] = conn[d]
         /\ conn'[c].phase = "joined" /\ conn'[c].joined = lastId
         /\ conn'[c].after = conn[c].after /\ conn'[c].lastSent = conn[c].lastSent
         /\ conn'[c].sent = conn[c].sent
<1> DEFINE r == [conn[c] EXCEPT !.phase = "joined", !.joined = lastId]
<1>1. conn \in [Conns -> Conn] /\ conn[c] \in Conn /\ lastId \in 0 .. MaxEvents
  BY DEF TypeOK
<1>2. conn' = [conn EXCEPT ![c] = r]
  BY <1>1 DEF Register
<1>3. /\ r \in Conn /\ r.phase = "joined" /\ r.joined = lastId
      /\ r.after = conn[c].after /\ r.lastSent = conn[c].lastSent /\ r.sent = conn[c].sent
  BY <1>1 DEF Conn, Phases
<1> HIDE DEF r
<1> QED BY <1>1, <1>2, <1>3

(* Replay writes one page and leaves lastSentID alone. *)
LEMMA ReplayIs ==
  ASSUME TypeOK, NEW c \in Conns, Replay(c)
  PROVE  /\ conn' \in [Conns -> Conn]
         /\ \A d \in Conns : d # c => conn'[d] = conn[d]
         /\ conn[c].phase = "joined" /\ conn'[c].phase = "streaming"
         /\ conn'[c].lost = pruned /\ conn'[c].sent = Replayed(conn[c].after)
         /\ conn'[c].after = conn[c].after /\ conn'[c].joined = conn[c].joined
         /\ conn'[c].lastSent = conn[c].lastSent
<1> DEFINE page == Replayed(conn[c].after)
           r == [conn[c] EXCEPT !.phase = "streaming", !.lost = pruned, !.sent = page]
<1>1. /\ conn \in [Conns -> Conn] /\ conn[c] \in Conn
      /\ pruned \in 0 .. MaxEvents /\ conn[c].after \in 0 .. MaxEvents
  <2>1. conn \in [Conns -> Conn] /\ pruned \in 0 .. MaxEvents
    BY DEF TypeOK
  <2>2. conn[c] \in Conn
    BY <2>1
  <2>3. conn[c].after \in 0 .. MaxEvents
    BY <2>2 DEF Conn
  <2> QED BY <2>1, <2>2, <2>3
<1>2. page \in Seq(Ids)
  <2>1. conn[c].after \in 0 .. MaxEvents
    BY <1>1
  <2>2. Replayed(conn[c].after) \in Seq(Ids)
    BY <2>1, PageIs
  <2> QED BY <2>2
<1>3. conn' = [conn EXCEPT ![c] = r] /\ conn[c].phase = "joined"
  BY <1>1 DEF Replay, In
<1> HIDE DEF page
<1>4. /\ r \in Conn /\ r.phase = "streaming" /\ r.lost = pruned /\ r.sent = page
      /\ r.after = conn[c].after /\ r.joined = conn[c].joined /\ r.lastSent = conn[c].lastSent
  BY <1>1, <1>2 DEF Conn, Phases
<1> HIDE DEF r
<1> QED BY <1>1, <1>3, <1>4 DEF page

(* Stream writes the event at the head of the buffer if it is newer. *)
LEMMA StreamIs ==
  ASSUME TypeOK, NEW c \in Conns, Stream(c)
  PROVE  /\ conn' \in [Conns -> Conn]
         /\ \A d \in Conns : d # c => conn'[d] = conn[d]
         /\ conn'[c].phase = conn[c].phase /\ conn'[c].after = conn[c].after
         /\ conn'[c].joined = conn[c].joined /\ conn'[c].lost = conn[c].lost
         /\ Head(buf[c]) > conn[c].lastSent =>
              /\ conn'[c].lastSent = Head(buf[c])
              /\ conn'[c].sent = Append(conn[c].sent, Head(buf[c]))
         /\ ~(Head(buf[c]) > conn[c].lastSent) => conn' = conn
<1> DEFINE h == Head(buf[c])
           t == Append(conn[c].sent, h)
           r == [conn[c] EXCEPT !.lastSent = h, !.sent = t]
<1>1. conn \in [Conns -> Conn] /\ conn[c] \in Conn
  BY DEF TypeOK
<1>2. h \in Ids /\ h \in 0 .. MaxEvents
  <2>1. buf[c] \in Seq(Ids) /\ buf[c] # <<>>
    BY DEF TypeOK, Stream
  <2>2. h \in Ids
    BY <2>1, HeadGone
  <2> QED BY <2>2 DEF Ids
<1>3. IF h > conn[c].lastSent THEN conn' = [conn EXCEPT ![c] = r] ELSE conn' = conn
  BY <1>1 DEF Stream
<1> HIDE DEF h
<1>4. t \in Seq(Ids)
  BY <1>1, <1>2, Appended DEF Conn
<1>5. h > conn[c].lastSent => conn' = [conn EXCEPT ![c] = r]
  BY <1>3
<1>6. ~(h > conn[c].lastSent) => conn' = conn
  BY <1>3
<1> HIDE DEF t
<1>7. /\ r \in Conn /\ r.lastSent = h /\ r.sent = t /\ r.phase = conn[c].phase
      /\ r.after = conn[c].after /\ r.joined = conn[c].joined /\ r.lost = conn[c].lost
  BY <1>1, <1>2, <1>4 DEF Conn
<1> HIDE DEF r
<1>8. CASE h > conn[c].lastSent
  <2>1. conn' = [conn EXCEPT ![c] = r]
    BY <1>5, <1>8
  <2>2. conn'[c] = r /\ conn' \in [Conns -> Conn] /\ \A d \in Conns : d # c => conn'[d] = conn[d]
    BY <1>1, <1>7, <2>1
  <2> QED BY <1>7, <1>8, <2>2 DEF h, t
<1>9. CASE ~(h > conn[c].lastSent)
  BY <1>1, <1>6, <1>9 DEF h
<1> QED BY <1>8, <1>9

(* Cancel marks the request. *)
LEMMA CancelIs ==
  ASSUME TypeOK, NEW c \in Conns, Cancel(c)
  PROVE  /\ conn' \in [Conns -> Conn]
         /\ \A d \in Conns : /\ d # c => conn'[d] = conn[d]
                             /\ conn'[d].phase = conn[d].phase
                             /\ conn'[d].after = conn[d].after
                             /\ conn'[d].joined = conn[d].joined
                             /\ conn'[d].lost = conn[d].lost
                             /\ conn'[d].lastSent = conn[d].lastSent
                             /\ conn'[d].sent = conn[d].sent
<1> DEFINE r == [conn[c] EXCEPT !.gone = TRUE]
<1>1. conn \in [Conns -> Conn] /\ conn' = [conn EXCEPT ![c] = r]
  BY DEF TypeOK, Cancel
<1>2. /\ r \in Conn /\ r.phase = conn[c].phase /\ r.after = conn[c].after
      /\ r.joined = conn[c].joined /\ r.lost = conn[c].lost
      /\ r.lastSent = conn[c].lastSent /\ r.sent = conn[c].sent
  BY <1>1 DEF Conn
<1> HIDE DEF r
<1> QED BY <1>1, <1>2

(* Nothing is registered, appended or open. *)
LEMMA InitIInv == Init => IInv
<1> SUFFICES ASSUME Init PROVE IInv
  OBVIOUS
<1>1. TypeOK
  <2>1. conn \in [Conns -> Conn] /\ buf \in [Conns -> Seq(Ids)] /\ closed \in [Conns -> Nat]
    BY NewConnIs, EmptySeq DEF Init
  <2>2. \A c \in Conns : Len(buf[c]) <= BufferSize
    BY DEF Init
  <2>3. pub \in [Publishers -> Pub \cup {None}] /\ registered \in Conns \cup {None}
    BY DEF Init
  <2>4. lastId \in 0 .. MaxEvents /\ pruned \in 0 .. lastId /\ checkpoint \in 0 .. lastId
          /\ overtaken \subseteq 1 .. lastId /\ slots \in 0 .. MaxConn
    BY DEF Init
  <2> QED BY <2>1, <2>2, <2>3, <2>4 DEF TypeOK
<1>2. \A c \in Conns : /\ conn[c].phase = "new" /\ conn[c].lastSent = conn[c].after
                       /\ Len(buf[c]) = 0 /\ closed[c] = 0
  BY NewConnIs DEF Init
<1>3. ClosedOnce /\ ChannelsFollowPhases
  BY <1>2 DEF Init, ClosedOnce, ChannelsFollowPhases, Open
<1>6. NothingIsMissed /\ JoinedMissNothing
  <2>1. \A c \in Conns : ~In(c, "streaming") /\ ~In(c, "joined")
    BY <1>2 DEF In
  <2> QED BY <2>1 DEF NothingIsMissed, JoinedMissNothing
<1>4. SlotsAreExact
  <2>1. {c \in Conns : conn[c].phase \notin {"new", "ended"}} = {}
    BY <1>2
  <2> QED BY <2>1, FS_EmptySet DEF Init, SlotsAreExact
<1>5. EventsAreOwned /\ OldOnesAreOvertaken
  <2>2. \A p \in Publishers : pub[p] = None
    BY DEF Init
  <2> QED BY <1>2, <2>2 DEF EventsAreOwned, PublishersAreApart, OldOnesAreOvertaken, In
<1> QED BY <1>1, <1>3, <1>4, <1>5, <1>6 DEF IInv

(* Every step keeps the types. *)
LEMMA TypeKeeps == IInv /\ [Next]_vars => TypeOK'
<1> SUFFICES ASSUME IInv, Next PROVE TypeOK'
  BY DEF vars, TypeOK, IInv
<1>1. TypeOK
  BY DEF IInv
<1>2. /\ lastId \in Nat /\ lastId <= MaxEvents /\ slots \in Nat /\ conn \in [Conns -> Conn]
      /\ pub \in [Publishers -> Pub \cup {None}] /\ buf \in [Conns -> Seq(Ids)]
  BY <1>1 DEF TypeOK
<1>3. Dropped => closed' \in [Conns -> Nat] /\ registered' = None
  BY <1>1 DEF Dropped, TypeOK
<1>4. ASSUME NEW p \in Publishers, AppendEvent(p) PROVE TypeOK'
  <2>1. [id |-> lastId + 1, phase |-> "send"] \in Pub
    BY <1>2, <1>4 DEF AppendEvent, Pub, Ids
  <2> QED BY <1>1, <1>2, <1>4, <2>1 DEF AppendEvent, TypeOK, bus
<1>5. ASSUME NEW p \in Publishers, Send(p) PROVE TypeOK'
  <2>1. pub[p] \in Pub /\ pub[p].id \in Ids /\ pub[p].id \in 1 .. lastId
    BY <1>2, <1>5 DEF Send, Pub, IInv, EventsAreOwned, PublishersAreApart
  <2>2. AfterSend(p) \in Pub \cup {None}
    BY <2>1 DEF AfterSend, Pub
  <2>3. buf' \in [Conns -> Seq(Ids)] /\ \A c \in Conns : Len(buf'[c]) <= BufferSize
    <3>1. CASE registered = None \/ Full
      BY <1>1, <1>5, <3>1 DEF Send, TypeOK
    <3>2. CASE registered # None /\ ~Full
      <4>1. registered \in Conns /\ Len(buf[registered]) < BufferSize
        BY <1>1, <1>2, <3>2, Members DEF TypeOK, Full
      <4>2. buf' = [buf EXCEPT ![registered] = Append(buf[registered], pub[p].id)]
        BY <1>5, <3>2 DEF Send
      <4>3. Append(buf[registered], pub[p].id) \in Seq(Ids)
              /\ Len(Append(buf[registered], pub[p].id)) = Len(buf[registered]) + 1
        BY <1>2, <2>1, <4>1, Appended
      <4> HIDE DEF Full
      <4> QED BY <1>1, <1>2, <4>1, <4>2, <4>3, Members DEF TypeOK
    <3> QED BY <3>1, <3>2
  <2>4. pub' = [pub EXCEPT ![p] = AfterSend(p)]
    BY <1>5 DEF Send
  <2>5. overtaken' \subseteq 1 .. lastId
    BY <1>1, <1>5, <2>1 DEF Send, TypeOK
  <2> QED BY <1>1, <1>2, <1>5, <2>2, <2>3, <2>4, <2>5 DEF Send, TypeOK, table
<1>6. ASSUME NEW p \in Publishers, Evict(p) PROVE TypeOK'
  BY <1>1, <1>3, <1>6 DEF Evict, TypeOK, table
<1>7. CASE Prune
  BY <1>1, <1>7 DEF Prune, TypeOK, bus
<1>8. ASSUME NEW c \in Conns, Acquire(c) PROVE TypeOK'
  BY <1>1, <1>2, <1>8, GotoIs DEF Acquire, HasSlot, TypeOK, table, bus, Phases
<1>9. ASSUME NEW c \in Conns, Refuse(c) \/ NotFound(c) \/ ReplayFails(c) \/ Evicted(c) PROVE TypeOK'
  BY <1>1, <1>9, GotoIs DEF Refuse, NotFound, ReplayFails, Evicted, AfterEviction, TypeOK, table, bus, Phases
<1>10. ASSUME NEW c \in Conns, Disconnected(c) PROVE TypeOK'
  BY <1>1, <1>10, GotoIs DEF Disconnected, UpdateCheckpoint, TypeOK, table, bus, Phases
<1>11. ASSUME NEW c \in Conns, Unregister(c) PROVE TypeOK'
  <2>1. buf' \in [Conns -> Seq(Ids)] /\ \A d \in Conns : Len(buf'[d]) <= BufferSize
    BY <1>1, <1>11, EmptySeq DEF Unregister, TypeOK
  <2> QED BY <1>1, <1>3, <1>11, <2>1, GotoIs DEF Unregister, TypeOK, table, Phases
<1>12. ASSUME NEW c \in Conns, Release(c) PROVE TypeOK'
  <2>2. conn' \in [Conns -> Conn]
    BY <1>1, <1>12, EndedIs
  <2>3. slots' \in 0 .. MaxConn
    BY <1>1, <1>12 DEF Release, Released, TypeOK
  <2> QED BY <1>1, <1>12, <2>2, <2>3 DEF Release, TypeOK, table, bus
<1>13. ASSUME NEW c \in Conns, Cancel(c) PROVE TypeOK'
  <2>1. conn' \in [Conns -> Conn]
    BY <1>1, <1>13, CancelIs
  <2> QED BY <1>1, <1>13, <2>1 DEF Cancel, TypeOK, table, bus
<1>14. ASSUME NEW c \in Conns, Find(c) PROVE TypeOK'
  <2>1. conn' \in [Conns -> Conn]
    BY <1>1, <1>14, FindIs
  <2> QED BY <1>1, <1>14, <2>1 DEF Find, TypeOK, table, bus
<1>15. ASSUME NEW c \in Conns, Register(c) PROVE TypeOK'
  <2>1. conn' \in [Conns -> Conn]
    BY <1>1, <1>15, RegisterIs
  <2>2. closed' \in [Conns -> Nat]
    BY <1>1, <1>15 DEF Register, TypeOK
  <2> QED BY <1>1, <1>15, <2>1, <2>2 DEF Register, TypeOK, table
<1>16. ASSUME NEW c \in Conns, Replay(c) PROVE TypeOK'
  <2>1. conn' \in [Conns -> Conn]
    BY <1>1, <1>16, ReplayIs
  <2> QED BY <1>1, <1>16, <2>1 DEF Replay, TypeOK, table, bus
<1>17. ASSUME NEW c \in Conns, Stream(c) PROVE TypeOK'
  <2>1. conn' \in [Conns -> Conn]
    BY <1>1, <1>17, StreamIs
  <2>2. Tail(buf[c]) \in Seq(Ids) /\ Len(Tail(buf[c])) <= BufferSize
    BY <1>1, <1>2, <1>17, HeadGone DEF Stream, TypeOK
  <2>3. buf' \in [Conns -> Seq(Ids)] /\ \A d \in Conns : Len(buf'[d]) <= BufferSize
    BY <1>1, <1>17, <2>2 DEF Stream, TypeOK
  <2> QED BY <1>1, <1>17, <2>1, <2>3 DEF Stream, TypeOK, table
<1> QED BY <1>4, <1>5, <1>6, <1>7, <1>8, <1>9, <1>10, <1>11, <1>12, <1>13, <1>14, <1>15, <1>16, <1>17
        DEF Next, Handler
-----------------------------------------------------------------------------
(* Channels *)

(* Moves that leave the bus alone. *)
LEMMA PhasesMove ==
  ASSUME ChannelsFollowPhases, UNCHANGED <<registered, closed>>, NEW c \in Conns,
         \A d \in Conns : d # c => conn'[d] = conn[d],
         \/ conn'[c].phase = conn[c].phase
         \/ conn[c].phase \in Open /\ conn'[c].phase \in Open
         \/ conn[c].phase \in {"new", "acquired"} /\ conn'[c].phase \in {"acquired", "found"}
         \/ conn[c].phase \notin Open /\ conn'[c].phase \in {"releasing", "ended"}
  PROVE  ChannelsFollowPhases'
<1> SUFFICES ASSUME NEW d \in Conns
             PROVE  /\ conn'[d].phase \in {"new", "acquired", "found"} => closed[d] = 0
                    /\ registered = d => conn'[d].phase \in Open
                    /\ conn'[d].phase \in Open /\ closed[d] = 0 => registered = d
  BY DEF ChannelsFollowPhases
<1>1. CASE d # c
  BY <1>1 DEF ChannelsFollowPhases
<1>2. CASE d = c
  BY <1>2 DEF ChannelsFollowPhases, Open
<1> QED BY <1>1, <1>2

(* What closing the channel of the bus leaves behind. *)
LEMMA DroppedIs ==
  ASSUME TypeOK, ClosedOnce,
         closed' = IF registered = None THEN closed ELSE [closed EXCEPT ![registered] = @ + 1]
  PROVE  \A d \in Conns : IF d = registered THEN closed'[d] = 1 ELSE closed'[d] = closed[d]
<1>1. CASE registered = None
  BY <1>1 DEF TypeOK
<1>2. CASE registered # None
  <2>1. registered \in Conns /\ closed[registered] = 0 /\ closed \in [Conns -> Nat]
    BY <1>2 DEF TypeOK, ClosedOnce
  <2> QED BY <1>2, <2>1
<1> QED BY <1>1, <1>2

(* Every step keeps the open channel with the bus. *)
LEMMA ChannelsKeep == IInv /\ [Next]_vars => ClosedOnce' /\ ChannelsFollowPhases'
<1> SUFFICES ASSUME IInv, Next PROVE ClosedOnce' /\ ChannelsFollowPhases'
  BY DEF vars, ClosedOnce, ChannelsFollowPhases, IInv
<1>1. TypeOK /\ ClosedOnce /\ ChannelsFollowPhases
  BY DEF IInv
<1>2. ASSUME UNCHANGED <<registered, closed>> PROVE ClosedOnce'
  BY <1>1, <1>2 DEF ClosedOnce
<1>3. ASSUME UNCHANGED <<registered, closed, conn>> PROVE ClosedOnce' /\ ChannelsFollowPhases'
  BY <1>1, <1>3 DEF ClosedOnce, ChannelsFollowPhases
<1>4. ASSUME NEW p \in Publishers, AppendEvent(p) \/ Send(p)
      PROVE  ClosedOnce' /\ ChannelsFollowPhases'
  BY <1>3, <1>4 DEF AppendEvent, Send, bus
<1>5. CASE Prune
  BY <1>3, <1>5 DEF Prune, bus
<1>6. ASSUME NEW p \in Publishers, Evict(p) PROVE ClosedOnce' /\ ChannelsFollowPhases'
  <2>1. registered' = None /\ conn' = conn
    BY <1>6 DEF Evict, Dropped
  <2>2. \A d \in Conns : IF d = registered THEN closed'[d] = 1 ELSE closed'[d] = closed[d]
    BY <1>1, <1>6, DroppedIs DEF Evict, Dropped
  <2> QED BY <1>1, <2>1, <2>2 DEF ClosedOnce, ChannelsFollowPhases, Open
<1>7. ASSUME NEW c \in Conns, Unregister(c) PROVE ClosedOnce' /\ ChannelsFollowPhases'
  <2>1. registered' = None /\ conn'[c].phase = "releasing" /\ \A d \in Conns : d # c => conn'[d] = conn[d]
    BY <1>1, <1>7, GotoIs DEF Unregister, Dropped, Phases
  <2>2. \A d \in Conns : IF d = registered THEN closed'[d] = 1 ELSE closed'[d] = closed[d]
    BY <1>1, <1>7, DroppedIs DEF Unregister, Dropped
  <2>3. ClosedOnce'
    BY <1>1, <2>1, <2>2 DEF ClosedOnce
  <2>4. ASSUME NEW d \in Conns
        PROVE  /\ conn'[d].phase \in {"new", "acquired", "found"} => closed'[d] = 0
               /\ registered' = d => conn'[d].phase \in Open
               /\ conn'[d].phase \in Open /\ closed'[d] = 0 => registered' = d
    <3>1. CASE d = c
      BY <2>1, <3>1 DEF Open
    <3>2. CASE d # c
      BY <1>1, <2>1, <2>2, <3>2 DEF ChannelsFollowPhases, Open
    <3> QED BY <3>1, <3>2
  <2> QED BY <2>3, <2>4 DEF ChannelsFollowPhases
<1>8. ASSUME NEW c \in Conns, Register(c) PROVE ClosedOnce' /\ ChannelsFollowPhases'
  <2>1. registered' = c /\ conn'[c].phase = "joined" /\ \A d \in Conns : d # c => conn'[d] = conn[d]
    BY <1>1, <1>8, RegisterIs DEF Register
  <2>2. \A d \in Conns : IF d = registered THEN closed'[d] = 1 ELSE closed'[d] = closed[d]
    BY <1>1, <1>8, DroppedIs DEF Register
  <2>3. c # registered /\ closed[c] = 0
    BY <1>1, <1>8 DEF Register, In, ChannelsFollowPhases, Open
  <2>4. ClosedOnce'
    BY <1>1, <2>1, <2>2, <2>3 DEF ClosedOnce
  <2>5. ASSUME NEW d \in Conns
        PROVE  /\ conn'[d].phase \in {"new", "acquired", "found"} => closed'[d] = 0
               /\ registered' = d => conn'[d].phase \in Open
               /\ conn'[d].phase \in Open /\ closed'[d] = 0 => registered' = d
    <3>1. CASE d = c
      BY <2>1, <2>2, <2>3, <3>1 DEF Open
    <3>2. CASE d # c
      BY <1>1, <2>1, <2>2, <3>2 DEF ChannelsFollowPhases, Open
    <3> QED BY <3>1, <3>2
  <2> QED BY <2>4, <2>5 DEF ChannelsFollowPhases
<1>9. ASSUME NEW c \in Conns, Acquire(c) PROVE ClosedOnce' /\ ChannelsFollowPhases'
  BY <1>1, <1>2, <1>9, GotoIs, PhasesMove DEF Acquire, In, bus, Phases
<1>10. ASSUME NEW c \in Conns, Refuse(c) PROVE ClosedOnce' /\ ChannelsFollowPhases'
  BY <1>1, <1>2, <1>10, GotoIs, PhasesMove DEF Refuse, In, bus, Phases, Open
<1>11. ASSUME NEW c \in Conns, NotFound(c) PROVE ClosedOnce' /\ ChannelsFollowPhases'
  BY <1>1, <1>2, <1>11, GotoIs, PhasesMove DEF NotFound, In, bus, Phases, Open
<1>12. ASSUME NEW c \in Conns, ReplayFails(c) \/ Evicted(c) \/ Disconnected(c)
       PROVE  ClosedOnce' /\ ChannelsFollowPhases'
  <2>1. conn[c].phase \in Open /\ Goto(c, "leaving") /\ UNCHANGED <<registered, closed>>
    BY <1>12 DEF ReplayFails, Evicted, Disconnected, AfterEviction, In, bus, Open
  <2>2. conn'[c].phase \in Open /\ \A d \in Conns : d # c => conn'[d] = conn[d]
    BY <1>1, <2>1, GotoIs DEF Phases, Open
  <2> QED BY <1>1, <1>2, <2>1, <2>2, PhasesMove
<1>13. ASSUME NEW c \in Conns, Release(c) PROVE ClosedOnce' /\ ChannelsFollowPhases'
  BY <1>1, <1>2, <1>13, EndedIs, PhasesMove DEF Release, In, bus, Open
<1>14. ASSUME NEW c \in Conns, Cancel(c) PROVE ClosedOnce' /\ ChannelsFollowPhases'
  BY <1>1, <1>2, <1>14, CancelIs, PhasesMove DEF Cancel, bus
<1>15. ASSUME NEW c \in Conns, Find(c) PROVE ClosedOnce' /\ ChannelsFollowPhases'
  BY <1>1, <1>2, <1>15, FindIs, PhasesMove DEF Find, In, bus
<1>16. ASSUME NEW c \in Conns, Replay(c) PROVE ClosedOnce' /\ ChannelsFollowPhases'
  BY <1>1, <1>2, <1>16, ReplayIs, PhasesMove DEF Replay, bus, Open
<1>17. ASSUME NEW c \in Conns, Stream(c) PROVE ClosedOnce' /\ ChannelsFollowPhases'
  BY <1>1, <1>2, <1>17, StreamIs, PhasesMove DEF Stream
<1> QED BY <1>4, <1>5, <1>6, <1>7, <1>8, <1>9, <1>10, <1>11, <1>12, <1>13, <1>14, <1>15, <1>16, <1>17
        DEF Next, Handler

-----------------------------------------------------------------------------
(* Slots *)

Inside == {c \in Conns : conn[c].phase \notin {"new", "ended"}}

(* Moves inside HandleSSE. *)
LEMMA InsideStays ==
  ASSUME NEW c \in Conns, SlotsAreExact, slots' = slots,
         \A d \in Conns : d # c => conn'[d].phase = conn[d].phase,
         conn'[c].phase \in {"new", "ended"} <=> conn[c].phase \in {"new", "ended"}
  PROVE  SlotsAreExact'
<1>1. Inside' = Inside
  BY DEF Inside
<1> QED BY <1>1 DEF SlotsAreExact, Inside

(* Every step keeps the limiter's count. *)
LEMMA SlotsKeep == IInv /\ [Next]_vars => SlotsAreExact'
<1> SUFFICES ASSUME IInv, Next PROVE SlotsAreExact'
  BY DEF vars, SlotsAreExact, IInv
<1>1. TypeOK /\ SlotsAreExact /\ slots = Cardinality(Inside)
  BY DEF IInv, SlotsAreExact, Inside
<1>2. IsFiniteSet(Inside)
  BY FS_Subset DEF Inside
<1>3. ASSUME UNCHANGED <<slots, conn>> PROVE SlotsAreExact'
  BY <1>1, <1>3 DEF SlotsAreExact
<1>4. ASSUME NEW p \in Publishers, AppendEvent(p) \/ Send(p) \/ Evict(p) PROVE SlotsAreExact'
  BY <1>3, <1>4 DEF AppendEvent, Send, Evict
<1>5. CASE Prune
  BY <1>3, <1>5 DEF Prune
<1>6. ASSUME NEW c \in Conns, Acquire(c) PROVE SlotsAreExact'
  <2>1. conn[c].phase = "new" /\ conn'[c].phase = "acquired" /\ \A d \in Conns : d # c => conn'[d] = conn[d]
    BY <1>1, <1>6, GotoIs DEF Acquire, In, Phases
  <2>2. Inside' = Inside \cup {c} /\ c \notin Inside
    BY <2>1 DEF Inside
  <2>3. Cardinality(Inside \cup {c}) = Cardinality(Inside) + 1
    BY <1>2, <2>2, FS_AddElement
  <2>4. slots' = Cardinality(Inside')
    BY <1>1, <1>6, <2>2, <2>3 DEF Acquire
  <2> QED BY <2>4 DEF SlotsAreExact, Inside
<1>7. ASSUME NEW c \in Conns, Release(c) PROVE SlotsAreExact'
  <2>1. conn[c].phase = "releasing" /\ conn'[c].phase = "ended" /\ \A d \in Conns : d # c => conn'[d] = conn[d]
    BY <1>1, <1>7, EndedIs DEF Release, In
  <2>2. Inside' = Inside \ {c} /\ c \in Inside
    BY <2>1 DEF Inside
  <2>3. Cardinality(Inside \ {c}) = Cardinality(Inside) - 1
    BY <1>2, <2>2, FS_RemoveElement
  <2>4. Cardinality(Inside) # 0
    BY <1>2, <2>2, FS_EmptySet
  <2>5. slots \in Nat /\ slots > 0
    BY <1>1, <2>4 DEF TypeOK
  <2>6. slots' = slots - 1
    BY <1>7, <2>5 DEF Release, Released
  <2>7. slots' = Cardinality(Inside \ {c})
    BY <1>1, <2>3, <2>6
  <2>8. slots' = Cardinality(Inside')
    BY <2>2, <2>7
  <2> QED BY <2>8 DEF SlotsAreExact, Inside
<1>8. ASSUME NEW c \in Conns, Refuse(c) PROVE SlotsAreExact'
  BY <1>1, <1>8, GotoIs, InsideStays DEF Refuse, In, Phases
<1>9. ASSUME NEW c \in Conns, NotFound(c) \/ ReplayFails(c) \/ Evicted(c) \/ Disconnected(c) \/ Unregister(c)
      PROVE  SlotsAreExact'
  <2>1. /\ conn[c].phase \notin {"new", "ended"} /\ slots' = slots
        /\ Goto(c, "releasing") \/ Goto(c, "leaving")
    BY <1>9 DEF NotFound, ReplayFails, Evicted, Disconnected, Unregister, AfterEviction, In
  <2>2. conn'[c].phase \notin {"new", "ended"} /\ \A d \in Conns : d # c => conn'[d] = conn[d]
    BY <1>1, <2>1, GotoIs DEF Phases
  <2> QED BY <1>1, <2>1, <2>2, InsideStays
<1>10. ASSUME NEW c \in Conns, Cancel(c) PROVE SlotsAreExact'
  BY <1>1, <1>10, CancelIs, InsideStays DEF Cancel
<1>11. ASSUME NEW c \in Conns, Find(c) PROVE SlotsAreExact'
  BY <1>1, <1>11, FindIs, InsideStays DEF Find, In
<1>12. ASSUME NEW c \in Conns, Register(c) PROVE SlotsAreExact'
  BY <1>1, <1>12, RegisterIs, InsideStays DEF Register, In
<1>13. ASSUME NEW c \in Conns, Replay(c) PROVE SlotsAreExact'
  BY <1>1, <1>13, ReplayIs, InsideStays DEF Replay
<1>14. ASSUME NEW c \in Conns, Stream(c) PROVE SlotsAreExact'
  BY <1>1, <1>14, StreamIs, InsideStays DEF Stream
<1> QED BY <1>4, <1>5, <1>6, <1>7, <1>8, <1>9, <1>10, <1>11, <1>12, <1>13, <1>14 DEF Next, Handler

-----------------------------------------------------------------------------
(* Events *)

(* Most steps leave alone what a connection was sent. *)
LEMMA QuietSteps ==
  ASSUME IInv, Next
  PROVE  \/ \E c \in Conns : Find(c) \/ Register(c) \/ Replay(c) \/ Stream(c) \/ Release(c)
         \/ \A d \in Conns : /\ conn'[d].phase = conn[d].phase
                                \/ conn'[d].phase \in {"acquired", "releasing", "leaving", "ended"}
                            /\ conn'[d].after = conn[d].after
                            /\ conn'[d].joined = conn[d].joined
                            /\ conn'[d].lost = conn[d].lost
                            /\ conn'[d].lastSent = conn[d].lastSent
                            /\ conn'[d].sent = conn[d].sent
<1>1. TypeOK
  BY DEF IInv
<1>2. ASSUME NEW c \in Conns,
             Acquire(c) \/ Refuse(c) \/ NotFound(c) \/ ReplayFails(c) \/ Evicted(c)
               \/ Disconnected(c) \/ Unregister(c)
      PROVE  \E ph \in {"acquired", "releasing", "leaving", "ended"} : Goto(c, ph)
  BY <1>2 DEF Acquire, Refuse, NotFound, ReplayFails, Evicted, AfterEviction, Disconnected, Unregister
<1>3. ASSUME NEW c \in Conns, NEW ph \in {"acquired", "releasing", "leaving", "ended"}, Goto(c, ph)
      PROVE  \A d \in Conns : /\ conn'[d].phase = conn[d].phase \/ conn'[d].phase = ph
                              /\ conn'[d].after = conn[d].after
                              /\ conn'[d].joined = conn[d].joined
                              /\ conn'[d].lost = conn[d].lost
                              /\ conn'[d].lastSent = conn[d].lastSent
                              /\ conn'[d].sent = conn[d].sent
  BY <1>1, <1>3, GotoIs DEF Phases
<1>4. ASSUME NEW p \in Publishers, AppendEvent(p) \/ Send(p) \/ Evict(p) PROVE conn' = conn
  BY <1>4 DEF AppendEvent, Send, Evict
<1>5. CASE Prune
  BY <1>5 DEF Prune
<1>6. ASSUME NEW c \in Conns, Cancel(c)
      PROVE  \A d \in Conns : /\ conn'[d].phase = conn[d].phase
                              /\ conn'[d].after = conn[d].after
                              /\ conn'[d].joined = conn[d].joined
                              /\ conn'[d].lost = conn[d].lost
                              /\ conn'[d].lastSent = conn[d].lastSent
                              /\ conn'[d].sent = conn[d].sent
  BY <1>1, <1>6, CancelIs
<1>7. ASSUME NEW c \in Conns,
             Acquire(c) \/ Refuse(c) \/ NotFound(c) \/ ReplayFails(c) \/ Evicted(c)
               \/ Disconnected(c) \/ Unregister(c)
      PROVE  \A d \in Conns : /\ conn'[d].phase = conn[d].phase
                                \/ conn'[d].phase \in {"acquired", "releasing", "leaving", "ended"}
                              /\ conn'[d].after = conn[d].after
                              /\ conn'[d].joined = conn[d].joined
                              /\ conn'[d].lost = conn[d].lost
                              /\ conn'[d].lastSent = conn[d].lastSent
                              /\ conn'[d].sent = conn[d].sent
  <2>1. PICK ph \in {"acquired", "releasing", "leaving", "ended"} : Goto(c, ph)
    BY <1>2, <1>7
  <2> QED BY <1>3, <2>1
<1> QED BY <1>4, <1>5, <1>6, <1>7 DEF Next, Handler

(* Who has an event, and that an event handed out stays so. *)
LEMMA OwnedGrows ==
  ASSUME IInv, Next
  PROVE  /\ Owned \subseteq Owned' /\ PublishersAreApart' /\ overtaken \subseteq overtaken'
         /\ \A p \in Publishers : Send(p) => pub[p].id \in Owned'
<1>1. TypeOK /\ PublishersAreApart /\ lastId \in Nat /\ pub \in [Publishers -> Pub \cup {None}]
  BY DEF IInv, TypeOK, EventsAreOwned
<1>2. overtaken \subseteq overtaken'
  <2>1. \A p \in Publishers : Send(p) => overtaken \subseteq overtaken'
    BY DEF Send
  <2>2. (\E p \in Publishers : Send(p)) \/ UNCHANGED overtaken
    BY DEF Next, Handler, AppendEvent, Evict, Prune, Acquire, Refuse, Cancel, Find, NotFound, Register,
           Replay, ReplayFails, Stream, Evicted, Disconnected, Unregister, Release
  <2> QED BY <2>1, <2>2
<1>3. ASSUME UNCHANGED <<lastId, pub>> PROVE Owned \subseteq Owned' /\ PublishersAreApart'
  BY <1>1, <1>3 DEF Owned, HandedOut, PublishersAreApart
<1>4. ASSUME NEW p \in Publishers, AppendEvent(p)
      PROVE  Owned \subseteq Owned' /\ PublishersAreApart' /\ ~Send(p)
  <2>1. lastId' = lastId + 1 /\ pub[p] = None /\ pub'[p] # None /\ pub'[p].id = lastId + 1
          /\ \A q \in Publishers : q # p => pub'[q] = pub[q]
    <3> DEFINE e == [id |-> lastId + 1, phase |-> "send"]
    <3>1. e \in Pub /\ e.id = lastId + 1
      BY <1>1, <1>4 DEF AppendEvent, Pub, Ids, TypeOK
    <3>2. pub' = [pub EXCEPT ![p] = e]
      BY <1>4 DEF AppendEvent
    <3> HIDE DEF e
    <3> QED BY <1>1, <1>4, <3>1, <3>2 DEF AppendEvent
  <2>2. PublishersAreApart'
    BY <1>1, <2>1 DEF PublishersAreApart
  <2>3. Owned \subseteq Owned'
    BY <1>1, <2>1 DEF Owned, HandedOut
  <2> QED BY <2>1, <2>2, <2>3 DEF Send
<1>5. ASSUME NEW p \in Publishers, Send(p)
      PROVE  Owned \subseteq Owned' /\ PublishersAreApart' /\ pub[p].id \in Owned'
  <2>1. pub[p] \in Pub /\ pub[p] # None /\ lastId' = lastId
    BY <1>1, <1>5 DEF Send, table
  <2>2. pub' = [pub EXCEPT ![p] = AfterSend(p)]
    BY <1>5 DEF Send
  <2>3. AfterSend(p) # None => AfterSend(p).id = pub[p].id /\ AfterSend(p).phase = "evict"
    BY <2>1 DEF AfterSend, Pub
  <2>4. pub'[p] # None => pub'[p].id = pub[p].id /\ pub'[p].phase = "evict"
    BY <1>1, <2>2, <2>3
  <2>5. \A q \in Publishers : q # p => pub'[q] = pub[q]
    BY <1>1, <2>2
  <2>6. PublishersAreApart'
    BY <1>1, <2>1, <2>4, <2>5 DEF PublishersAreApart
  <2>7. Owned \subseteq Owned'
    BY <1>1, <2>1, <2>4, <2>5 DEF Owned, HandedOut
  <2>8. pub[p].id \in Owned'
    BY <1>1, <2>1, <2>4, <2>5 DEF Owned, HandedOut, PublishersAreApart
  <2> QED BY <2>6, <2>7, <2>8
<1>6. ASSUME NEW p \in Publishers, Evict(p) PROVE Owned \subseteq Owned' /\ PublishersAreApart'
  <2>1. lastId' = lastId /\ pub'[p] = None /\ \A q \in Publishers : q # p => pub'[q] = pub[q]
    BY <1>1, <1>6 DEF Evict, table
  <2> QED BY <1>1, <2>1 DEF Owned, HandedOut, PublishersAreApart
<1>7. \/ \E p \in Publishers : AppendEvent(p) \/ Send(p) \/ Evict(p)
      \/ UNCHANGED <<lastId, pub>>
  BY DEF Next, Handler, Prune, Acquire, Refuse, Cancel, Find, NotFound, Register,
         Replay, ReplayFails, Stream, Evicted, Disconnected, Unregister, Release, table
<1> QED BY <1>2, <1>3, <1>4, <1>5, <1>6, <1>7

(* What a step may do to the buffers. *)
LEMMA BufferSteps ==
  ASSUME IInv, Next
  PROVE  \/ buf' = buf
         \/ \E p \in Publishers : /\ Send(p) /\ registered \in Conns /\ pub[p].id \in Ids
                                  /\ buf' = [buf EXCEPT ![registered] = Append(@, pub[p].id)]
         \/ \E c \in Conns : Stream(c)
         \/ \E c \in Conns : Unregister(c)
<1>1. \A p \in Publishers : Send(p) =>
         \/ buf' = buf
         \/ /\ registered \in Conns /\ pub[p].id \in Ids
            /\ buf' = [buf EXCEPT ![registered] = Append(@, pub[p].id)]
  BY DEF Send, IInv, TypeOK, Pub
<1>2. \/ buf' = buf
      \/ \E p \in Publishers : Send(p)
      \/ \E c \in Conns : Stream(c) \/ Unregister(c)
  BY DEF Next, Handler, AppendEvent, Evict, Prune, Acquire, Refuse, Cancel, Find, NotFound, Register,
         Replay, ReplayFails, Evicted, Disconnected, Release, bus
<1> QED BY <1>1, <1>2

(* Where an element of a buffer was before the step: in its buffer, ordered  *)
(* as before, or with the publisher that sends it.                           *)
LEMMA Elements ==
  ASSUME IInv, Next, NEW d \in Conns
  PROVE  \/ buf'[d] = buf[d]
         \/ \E p \in Publishers :
              /\ Send(p) /\ Len(buf[d]) \in Nat /\ Len(buf'[d]) = Len(buf[d]) + 1
              /\ \A i \in 1 .. Len(buf[d]) : buf'[d][i] = buf[d][i]
              /\ buf'[d][Len(buf[d]) + 1] = pub[p].id
         \/ /\ Stream(d) /\ Len(buf[d]) \in Nat \ {0} /\ Len(buf'[d]) = Len(buf[d]) - 1
            /\ \A i \in 1 .. Len(buf'[d]) : i + 1 \in 1 .. Len(buf[d]) /\ buf'[d][i] = buf[d][i + 1]
            /\ Head(buf[d]) = buf[d][1]
         \/ Len(buf'[d]) = 0
<1>1. buf \in [Conns -> Seq(Ids)] /\ buf[d] \in Seq(Ids) /\ Len(buf[d]) \in Nat
  BY DEF IInv, TypeOK
<1>2. ASSUME NEW p \in Publishers, Send(p), registered \in Conns, pub[p].id \in Ids,
             buf' = [buf EXCEPT ![registered] = Append(@, pub[p].id)], registered = d
      PROVE  /\ Len(buf'[d]) = Len(buf[d]) + 1
             /\ \A i \in 1 .. Len(buf[d]) : buf'[d][i] = buf[d][i]
             /\ buf'[d][Len(buf[d]) + 1] = pub[p].id
  <2>1. buf'[d] = Append(buf[d], pub[p].id)
    BY <1>1, <1>2
  <2> QED BY <1>1, <1>2, <2>1, Appended
<1>3. ASSUME NEW p \in Publishers, Send(p), registered \in Conns, pub[p].id \in Ids,
             buf' = [buf EXCEPT ![registered] = Append(@, pub[p].id)], registered # d
      PROVE  buf'[d] = buf[d]
  BY <1>1, <1>3
<1>4. ASSUME Stream(d)
      PROVE  /\ Len(buf[d]) \in Nat \ {0} /\ Len(buf'[d]) = Len(buf[d]) - 1
             /\ \A i \in 1 .. Len(buf'[d]) : i + 1 \in 1 .. Len(buf[d]) /\ buf'[d][i] = buf[d][i + 1]
             /\ Head(buf[d]) = buf[d][1]
  <2>1. buf[d] # <<>> /\ buf'[d] = Tail(buf[d])
    BY <1>1, <1>4 DEF Stream
  <2> QED BY <1>1, <2>1, HeadGone
<1>5. ASSUME NEW c \in Conns, Stream(c), c # d PROVE buf'[d] = buf[d]
  BY <1>1, <1>5 DEF Stream
<1>6. ASSUME NEW c \in Conns, Unregister(c) PROVE buf'[d] = buf[d] \/ Len(buf'[d]) = 0
  <2>1. buf' = [buf EXCEPT ![c] = <<>>]
    BY <1>6 DEF Unregister
  <2>2. CASE c = d
    BY <1>1, <2>1, <2>2
  <2>3. CASE c # d
    BY <1>1, <2>1, <2>3
  <2> QED BY <2>2, <2>3
<1> QED BY <1>1, <1>2, <1>3, <1>4, <1>5, <1>6, BufferSteps

(* Every step keeps the events with those who have them. *)
LEMMA OwnersKeep == IInv /\ [Next]_vars => EventsAreOwned'
<1> SUFFICES ASSUME IInv, Next PROVE EventsAreOwned'
  BY DEF vars, EventsAreOwned, PublishersAreApart, Owned, HandedOut, In, IInv
<1>1. TypeOK /\ EventsAreOwned
  BY DEF IInv
<1>2. ASSUME NEW d \in Conns, NEW i \in 1 .. Len(buf'[d]) PROVE buf'[d][i] \in Owned'
  <2>1. \A j \in 1 .. Len(buf[d]) : buf[d][j] \in Owned'
    BY <1>1, OwnedGrows DEF EventsAreOwned
  <2>2. CASE \E p \in Publishers :
              /\ Send(p) /\ Len(buf[d]) \in Nat /\ Len(buf'[d]) = Len(buf[d]) + 1
              /\ \A j \in 1 .. Len(buf[d]) : buf'[d][j] = buf[d][j]
              /\ buf'[d][Len(buf[d]) + 1] = pub[p].id
    <3>1. PICK p \in Publishers :
              /\ Send(p) /\ Len(buf[d]) \in Nat /\ Len(buf'[d]) = Len(buf[d]) + 1
              /\ \A j \in 1 .. Len(buf[d]) : buf'[d][j] = buf[d][j]
              /\ buf'[d][Len(buf[d]) + 1] = pub[p].id
      BY <2>2
    <3>2. pub[p].id \in Owned'
      BY <3>1, OwnedGrows
    <3>3. i \in 1 .. Len(buf[d]) \/ i = Len(buf[d]) + 1
      BY <3>1
    <3> QED BY <2>1, <3>1, <3>2, <3>3
  <2>3. CASE ~\E p \in Publishers :
              /\ Send(p) /\ Len(buf[d]) \in Nat /\ Len(buf'[d]) = Len(buf[d]) + 1
              /\ \A j \in 1 .. Len(buf[d]) : buf'[d][j] = buf[d][j]
              /\ buf'[d][Len(buf[d]) + 1] = pub[p].id
    BY <1>2, <2>1, <2>3, Elements
  <2> QED BY <2>2, <2>3
<1>3. ASSUME NEW d \in Conns
      PROVE  /\ conn'[d].lastSent = conn'[d].after \/ conn'[d].lastSent \in Owned'
             /\ conn'[d].phase \in {"found", "joined"} => conn'[d].lastSent = conn'[d].after
  <2>1. /\ conn[d].lastSent = conn[d].after \/ conn[d].lastSent \in Owned'
        /\ conn[d].phase \in {"found", "joined"} => conn[d].lastSent = conn[d].after
    BY <1>1, OwnedGrows DEF EventsAreOwned, In
  <2>2. ASSUME NEW c \in Conns, Find(c) PROVE <1>3!2
    BY <1>1, <2>1, <2>2, FindIs
  <2>3. ASSUME NEW c \in Conns, Register(c) PROVE <1>3!2
    BY <1>1, <2>1, <2>3, RegisterIs DEF Register, In
  <2>4. ASSUME NEW c \in Conns, Replay(c) PROVE <1>3!2
    BY <1>1, <2>1, <2>4, ReplayIs
  <2>5. ASSUME NEW c \in Conns, Release(c) PROVE <1>3!2
    BY <1>1, <2>1, <2>5, EndedIs
  <2>6. ASSUME NEW c \in Conns, Stream(c) PROVE <1>3!2
    <3>1. Head(buf[c]) \in Owned'
      <4>1. buf[c] \in Seq(Ids) /\ buf[c] # <<>>
        BY <1>1, <2>6 DEF TypeOK, Stream
      <4>2. Head(buf[c]) = buf[c][1] /\ 1 \in 1 .. Len(buf[c])
        BY <4>1, HeadGone
      <4>3. buf[c][1] \in Owned
        BY <1>1, <4>2 DEF EventsAreOwned
      <4> QED BY <4>2, <4>3, OwnedGrows
    <3>2. conn[c].phase = "streaming"
      BY <2>6 DEF Stream, In
    <3> QED BY <1>1, <2>1, <2>6, <3>1, <3>2, StreamIs
  <2>7. CASE \A e \in Conns : /\ conn'[e].phase = conn[e].phase
                                \/ conn'[e].phase \in {"acquired", "releasing", "leaving", "ended"}
                              /\ conn'[e].after = conn[e].after
                              /\ conn'[e].lastSent = conn[e].lastSent
    BY <2>1, <2>7
  <2> QED BY <2>2, <2>3, <2>4, <2>5, <2>6, <2>7, QuietSteps
<1> QED BY <1>2, <1>3, OwnedGrows DEF EventsAreOwned, In

(* Every step keeps the old events overtaken. *)
LEMMA OvertakenKeep == IInv /\ [Next]_vars => OldOnesAreOvertaken'
<1> SUFFICES ASSUME IInv, Next PROVE OldOnesAreOvertaken'
  BY DEF vars, OldOnesAreOvertaken, IInv
<1>1. TypeOK /\ EventsAreOwned /\ OldOnesAreOvertaken /\ lastId \in Nat
  BY DEF IInv, TypeOK
<1>2. ASSUME NEW p \in Publishers, Send(p), NEW n \in Owned, pub[p].id <= n
      PROVE  pub[p].id \in overtaken'
  <2>1. pub[p] # None /\ pub[p].phase = "send" /\ pub[p].id \in 1 .. lastId
    BY <1>1, <1>2 DEF Send, EventsAreOwned, PublishersAreApart
  <2>2. n \in 1 .. lastId /\ HandedOut(n)
    BY DEF Owned
  <2>3. n # pub[p].id
    BY <2>1, <2>2 DEF HandedOut
  <2>4. n \in pub[p].id + 1 .. lastId
    BY <1>1, <1>2, <2>1, <2>2, <2>3
  <2> QED BY <1>2, <2>2, <2>4 DEF Send
<1>3. ASSUME NEW d \in Conns, NEW i \in 1 .. Len(buf'[d]), NEW j \in 1 .. Len(buf'[d]),
             i < j, buf'[d][j] <= buf'[d][i]
      PROVE  buf'[d][j] \in overtaken'
  <2>1. \A k, l \in 1 .. Len(buf[d]) : k < l /\ buf[d][l] <= buf[d][k] => buf[d][l] \in overtaken'
    BY <1>1, OwnedGrows DEF OldOnesAreOvertaken
  <2>2. ASSUME NEW p \in Publishers, Send(p), Len(buf[d]) \in Nat, Len(buf'[d]) = Len(buf[d]) + 1,
               \A k \in 1 .. Len(buf[d]) : buf'[d][k] = buf[d][k],
               buf'[d][Len(buf[d]) + 1] = pub[p].id
        PROVE  buf'[d][j] \in overtaken'
    <3>1. i \in 1 .. Len(buf[d]) /\ (j \in 1 .. Len(buf[d]) \/ j = Len(buf[d]) + 1)
      BY <1>3, <2>2
    <3>2. CASE j \in 1 .. Len(buf[d])
      BY <1>3, <2>1, <2>2, <3>1, <3>2
    <3>3. CASE j = Len(buf[d]) + 1
      <4>1. buf[d][i] \in Owned /\ pub[p].id <= buf[d][i]
        BY <1>1, <1>3, <2>2, <3>1, <3>3 DEF EventsAreOwned
      <4> QED BY <1>2, <2>2, <3>3, <4>1
    <3> QED BY <3>1, <3>2, <3>3
  <2>3. ASSUME Len(buf[d]) \in Nat \ {0}, Len(buf'[d]) = Len(buf[d]) - 1,
               \A k \in 1 .. Len(buf'[d]) : k + 1 \in 1 .. Len(buf[d]) /\ buf'[d][k] = buf[d][k + 1]
        PROVE  buf'[d][j] \in overtaken'
    <3>1. /\ i + 1 \in 1 .. Len(buf[d]) /\ j + 1 \in 1 .. Len(buf[d]) /\ i + 1 < j + 1
          /\ buf'[d][i] = buf[d][i + 1] /\ buf'[d][j] = buf[d][j + 1]
      BY <1>3, <2>3
    <3> QED BY <1>3, <2>1, <3>1
  <2>4. CASE buf'[d] = buf[d]
    BY <1>3, <2>1, <2>4
  <2>5. CASE Len(buf'[d]) = 0
    BY <1>3, <2>5
  <2> QED BY <2>2, <2>3, <2>4, <2>5, Elements
<1>4. ASSUME NEW d \in Conns, NEW j \in 1 .. Len(buf'[d]), buf'[d][j] <= conn'[d].lastSent
      PROVE  \/ buf'[d][j] <= conn'[d].after
             \/ buf'[d][j] \in overtaken'
             \/ buf'[d][j] \in ToSet(conn'[d].sent)
  <2> DEFINE Kept == \/ buf'[d][j] <= conn'[d].after
                     \/ buf'[d][j] \in overtaken'
                     \/ buf'[d][j] \in ToSet(conn'[d].sent)
  <2>1. CASE conn'[d].lastSent = conn'[d].after
    BY <1>4, <2>1
  <2>2. CASE /\ conn'[d].after = conn[d].after /\ conn'[d].lastSent = conn[d].lastSent
             /\ conn'[d].sent = conn[d].sent /\ conn'[d].lastSent # conn'[d].after
    <3>1. \A k \in 1 .. Len(buf[d]) : buf[d][k] <= conn[d].lastSent =>
           \/ buf[d][k] <= conn[d].after
           \/ buf[d][k] \in overtaken'
           \/ buf[d][k] \in ToSet(conn[d].sent)
      BY <1>1, OwnedGrows DEF OldOnesAreOvertaken
    <3>2. ASSUME NEW p \in Publishers, Send(p), Len(buf[d]) \in Nat, Len(buf'[d]) = Len(buf[d]) + 1,
                 \A k \in 1 .. Len(buf[d]) : buf'[d][k] = buf[d][k],
                 buf'[d][Len(buf[d]) + 1] = pub[p].id, j = Len(buf[d]) + 1
          PROVE  buf'[d][j] \in overtaken'
      <4>1. conn[d].lastSent \in Owned /\ pub[p].id <= conn[d].lastSent
        BY <1>1, <1>4, <2>2, <3>2 DEF EventsAreOwned
      <4> QED BY <1>2, <3>2, <4>1
    <3>3. j \in 1 .. Len(buf[d]) /\ buf'[d][j] = buf[d][j] => Kept
      BY <1>4, <2>2, <3>1
    <3>4. ASSUME Len(buf[d]) \in Nat \ {0}, Len(buf'[d]) = Len(buf[d]) - 1,
                 \A k \in 1 .. Len(buf'[d]) : k + 1 \in 1 .. Len(buf[d]) /\ buf'[d][k] = buf[d][k + 1]
          PROVE  Kept
      BY <1>4, <2>2, <3>1, <3>4
    <3>8. buf'[d][j] \in overtaken' => Kept
      OBVIOUS
    <3> HIDE DEF Kept
    <3>5. ASSUME NEW p \in Publishers, Send(p), Len(buf[d]) \in Nat, Len(buf'[d]) = Len(buf[d]) + 1,
                 \A k \in 1 .. Len(buf[d]) : buf'[d][k] = buf[d][k],
                 buf'[d][Len(buf[d]) + 1] = pub[p].id
          PROVE  Kept
      <4>1. j \in 1 .. Len(buf[d]) \/ j = Len(buf[d]) + 1
        BY <1>4, <3>5
      <4>2. CASE j \in 1 .. Len(buf[d])
        BY <3>3, <3>5, <4>2
      <4>3. CASE j = Len(buf[d]) + 1
        BY <3>2, <3>5, <3>8, <4>3
      <4> QED BY <4>1, <4>2, <4>3
    <3>6. ASSUME buf'[d] = buf[d] PROVE Kept
      <4>1. j \in 1 .. Len(buf[d])
        BY <3>6
      <4>2. buf'[d][j] = buf[d][j]
        BY <3>6
      <4> QED BY <3>3, <4>1, <4>2
    <3>7. ASSUME Len(buf'[d]) = 0 PROVE Kept
      BY <1>4, <3>7
    <3>9. Kept
      BY <3>4, <3>5, <3>6, <3>7, Elements
    <3> QED BY <3>9 DEF Kept
  <2>3. CASE Stream(d) /\ conn'[d].lastSent = Head(buf[d])
    <3>1. /\ buf[d] # <<>> /\ buf'[d] = Tail(buf[d]) /\ buf[d] \in Seq(Ids)
      BY <1>1, <2>3 DEF Stream, TypeOK
    <3>2. /\ j + 1 \in 1 .. Len(buf[d]) /\ buf'[d][j] = buf[d][j + 1] /\ Head(buf[d]) = buf[d][1]
          /\ 1 \in 1 .. Len(buf[d]) /\ 1 < j + 1
      BY <1>4, <3>1, HeadGone
    <3>3. buf[d][j + 1] \in overtaken
      BY <1>1, <1>4, <2>3, <3>2 DEF OldOnesAreOvertaken
    <3> QED BY <3>2, <3>3, OwnedGrows
  <2>4. \/ conn'[d].lastSent = conn'[d].after
        \/ /\ conn'[d].after = conn[d].after /\ conn'[d].lastSent = conn[d].lastSent
           /\ conn'[d].sent = conn[d].sent
        \/ Stream(d) /\ conn'[d].lastSent = Head(buf[d])
    <3>1. ASSUME NEW c \in Conns, Find(c) PROVE <2>4
      BY <1>1, <3>1, FindIs
    <3>2. ASSUME NEW c \in Conns, Register(c) PROVE <2>4
      BY <1>1, <3>2, RegisterIs
    <3>3. ASSUME NEW c \in Conns, Replay(c) PROVE <2>4
      BY <1>1, <3>3, ReplayIs DEF EventsAreOwned, In
    <3>4. ASSUME NEW c \in Conns, Stream(c) PROVE <2>4
      BY <1>1, <3>4, StreamIs
    <3>5. ASSUME NEW c \in Conns, Release(c) PROVE <2>4
      BY <1>1, <3>5, EndedIs
    <3> QED BY <3>1, <3>2, <3>3, <3>4, <3>5, QuietSteps
  <2> QED BY <2>1, <2>2, <2>3, <2>4
<1> QED BY <1>3, <1>4 DEF OldOnesAreOvertaken

-----------------------------------------------------------------------------
(* Nothing is missed *)

(* While the bus holds a channel, what may reach it is not lost, unless its  *)
(* own handler takes it.                                                     *)
LEMMA PendingStays ==
  ASSUME IInv, Next, NEW d \in Conns, registered = d, closed'[d] = 0, ~Stream(d)
  PROVE  /\ Pending(d) \subseteq Pending(d)' /\ lastId + 1 .. lastId' \subseteq Pending(d)'
         /\ lastId \in Nat /\ lastId' \in Nat /\ lastId <= lastId'
<1>1. /\ TypeOK /\ lastId \in Nat /\ pub \in [Publishers -> Pub \cup {None}]
      /\ buf \in [Conns -> Seq(Ids)] /\ registered # None
  BY DEF IInv, TypeOK
<1>2. ~Unregister(d) /\ \A c \in Conns : ~Unregister(c)
  <2>1. ASSUME NEW c \in Conns, Unregister(c) PROVE FALSE
    BY <1>1, <2>1, DroppedIs DEF Unregister, Dropped, IInv
  <2> QED BY <2>1
<1>3. \A p \in Publishers : ~Evict(p)
  <2>1. ASSUME NEW p \in Publishers, Evict(p) PROVE FALSE
    BY <1>1, <2>1, DroppedIs DEF Evict, Dropped, IInv
  <2> QED BY <2>1
<1>4. ASSUME NEW p \in Publishers, AppendEvent(p)
      PROVE  Pending(d) \subseteq Pending(d)' /\ lastId' = lastId + 1 /\ lastId + 1 \in Pending(d)'
  <2> DEFINE e == [id |-> lastId + 1, phase |-> "send"]
  <2>1. e \in Pub /\ e.id = lastId + 1
    BY <1>1, <1>4 DEF AppendEvent, Pub, Ids, TypeOK
  <2>2. pub' = [pub EXCEPT ![p] = e] /\ buf' = buf /\ pub[p] = None /\ lastId' = lastId + 1
    BY <1>4 DEF AppendEvent, bus
  <2> HIDE DEF e
  <2>3. pub'[p].id = lastId + 1 /\ pub'[p] # None /\ \A q \in Publishers : q # p => pub'[q] = pub[q]
    BY <1>1, <2>1, <2>2
  <2> QED BY <2>2, <2>3 DEF Pending
<1>5. ASSUME NEW p \in Publishers, Send(p)
      PROVE  Pending(d) \subseteq Pending(d)' /\ lastId' = lastId
  <2>1. pub[p] \in Pub /\ pub[p].id \in Ids /\ lastId' = lastId /\ pub' = [pub EXCEPT ![p] = AfterSend(p)]
    BY <1>1, <1>5 DEF Send, Pub, table
  <2>2. \A q \in Publishers : q # p => pub'[q] = pub[q]
    BY <1>1, <2>1
  <2>3. CASE Full
    <3>1. AfterSend(p) \in Pub /\ AfterSend(p).id = pub[p].id
      BY <2>1, <2>3 DEF AfterSend, Pub
    <3>2. pub'[p] # None /\ pub'[p].id = pub[p].id /\ buf' = buf
      BY <1>1, <1>5, <2>1, <2>3, <3>1 DEF Send
    <3> QED BY <2>1, <2>2, <3>2 DEF Pending
  <2>4. CASE ~Full
    <3>1. buf' = [buf EXCEPT ![d] = Append(buf[d], pub[p].id)]
      BY <1>1, <1>5, <2>4 DEF Send
    <3>2. buf'[d] = Append(buf[d], pub[p].id)
      BY <1>1, <3>1
    <3>3. ToSet(buf[d]) \subseteq ToSet(buf'[d]) /\ pub[p].id \in ToSet(buf'[d])
      BY <1>1, <2>1, <3>2, Appended
    <3> QED BY <2>1, <2>2, <3>3 DEF Pending
  <2> QED BY <2>3, <2>4
<1>6. ASSUME NEW c \in Conns, Stream(c) PROVE Pending(d) \subseteq Pending(d)' /\ lastId' = lastId
  <2>1. buf'[d] = buf[d] /\ pub' = pub /\ lastId' = lastId
    BY <1>1, <1>6 DEF Stream, table
  <2> QED BY <2>1 DEF Pending
<1>7. ASSUME UNCHANGED <<lastId, pub, buf>> PROVE Pending(d) \subseteq Pending(d)' /\ lastId' = lastId
  BY <1>7 DEF Pending
<1>8. \/ \E p \in Publishers : AppendEvent(p) \/ Send(p)
      \/ \E c \in Conns : Stream(c)
      \/ UNCHANGED <<lastId, pub, buf>>
  BY <1>2, <1>3 DEF Next, Handler, Prune, Acquire, Refuse, Cancel, Find, NotFound, Register,
         Replay, ReplayFails, Evicted, Disconnected, Release, table, bus
<1>9. CASE \E p \in Publishers : AppendEvent(p)
  <2>1. Pending(d) \subseteq Pending(d)' /\ lastId' = lastId + 1 /\ lastId + 1 \in Pending(d)'
    BY <1>4, <1>9
  <2> QED BY <1>1, <2>1
<1>10. CASE Pending(d) \subseteq Pending(d)' /\ lastId' = lastId
  BY <1>1, <1>10
<1> QED BY <1>5, <1>6, <1>7, <1>8, <1>9, <1>10

(* A channel that is open was open, and was the one of the bus. *)
LEMMA OpenWasOpen ==
  ASSUME IInv, Next, NEW d \in Conns, closed'[d] = 0, conn[d].phase \in Open
  PROVE  closed[d] = 0 /\ registered = d
<1>1. TypeOK /\ ClosedOnce /\ ChannelsFollowPhases
  BY DEF IInv
<1>2. closed[d] = 0
  <2>1. \/ closed' = closed
        \/ closed' = IF registered = None THEN closed ELSE [closed EXCEPT ![registered] = @ + 1]
    BY DEF Next, Handler, Dropped, AppendEvent, Send, Evict, Prune, Acquire, Refuse, Cancel, Find, NotFound,
           Register, Replay, ReplayFails, Stream, Evicted, Disconnected, Unregister, Release, bus
  <2>2. CASE closed' = closed
    BY <2>2
  <2>3. CASE closed' = IF registered = None THEN closed ELSE [closed EXCEPT ![registered] = @ + 1]
    <3>1. IF d = registered THEN closed'[d] = 1 ELSE closed'[d] = closed[d]
      BY <1>1, <2>3, DroppedIs
    <3> QED BY <3>1
  <2> QED BY <2>1, <2>2, <2>3
<1> QED BY <1>1, <1>2 DEF ChannelsFollowPhases

(* Every step keeps what waits for the replay. *)
LEMMA JoinedKeep == IInv /\ [Next]_vars => JoinedMissNothing'
<1> SUFFICES ASSUME IInv, Next PROVE JoinedMissNothing'
  BY DEF vars, JoinedMissNothing, Pending, In, IInv
<1> SUFFICES ASSUME NEW d \in Conns, conn'[d].phase = "joined", closed'[d] = 0,
                    NEW n \in conn'[d].joined + 1 .. lastId'
             PROVE  n \in Pending(d)'
  BY DEF JoinedMissNothing, In
<1>1. TypeOK /\ JoinedMissNothing /\ lastId \in Nat /\ conn \in [Conns -> Conn]
  BY DEF IInv, TypeOK
<1>2. ~Register(d)
  <2>1. ASSUME Register(d) PROVE FALSE
    <3>1. conn'[d].joined = lastId /\ lastId' = lastId
      BY <1>1, <2>1, RegisterIs DEF Register, table
    <3> QED BY <1>1, <3>1
  <2> QED BY <2>1
<1>3. conn[d].phase = "joined" /\ conn'[d].joined = conn[d].joined
  <2>1. ASSUME NEW c \in Conns, Find(c) PROVE <1>3
    BY <1>1, <2>1, FindIs
  <2>2. ASSUME NEW c \in Conns, Register(c) PROVE <1>3
    BY <1>1, <1>2, <2>2, RegisterIs
  <2>3. ASSUME NEW c \in Conns, Replay(c) PROVE <1>3
    BY <1>1, <2>3, ReplayIs
  <2>4. ASSUME NEW c \in Conns, Stream(c) PROVE <1>3
    BY <1>1, <2>4, StreamIs
  <2>5. ASSUME NEW c \in Conns, Release(c) PROVE <1>3
    BY <1>1, <2>5, EndedIs
  <2> QED BY <2>1, <2>2, <2>3, <2>4, <2>5, QuietSteps
<1>4. closed[d] = 0 /\ registered = d /\ ~Stream(d)
  BY <1>3, OpenWasOpen DEF Open, Stream, In
<1>5. conn[d].joined + 1 .. lastId \subseteq Pending(d) /\ conn[d].joined \in Nat
  BY <1>1, <1>3, <1>4 DEF JoinedMissNothing, In, Conn
<1>6. /\ Pending(d) \subseteq Pending(d)' /\ lastId + 1 .. lastId' \subseteq Pending(d)'
      /\ lastId' \in Nat
  BY <1>4, PendingStays
<1>7. n \in conn[d].joined + 1 .. lastId \/ n \in lastId + 1 .. lastId'
  BY <1>1, <1>3, <1>5, <1>6
<1> QED BY <1>5, <1>6, <1>7

(* Every step keeps a streaming connection's events: the page of the replay  *)
(* meets the buffer, and what Stream drops is old.                           *)
LEMMA StreamingKeep == IInv /\ [Next]_vars => NothingIsMissed'
<1> SUFFICES ASSUME IInv, Next PROVE NothingIsMissed'
  BY DEF vars, NothingIsMissed, Later, In, IInv
<1> SUFFICES ASSUME NEW d \in Conns, conn'[d].phase = "streaming", closed'[d] = 0,
                    NEW first \in {conn'[d].after, conn'[d].lost},
                    conn'[d].after <= first, conn'[d].lost <= first,
                    NEW n \in first + 1 .. lastId', n \notin overtaken',
                    n \notin first + ReplayLimit + 1 .. conn'[d].joined
             PROVE  n \in ToSet(conn'[d].sent) \cup Pending(d)'
  <2>1. \A d \in Conns : conn'[d].after \in Nat /\ conn'[d].lost \in Nat
    <3>1. TypeOK'
      BY TypeKeeps
    <3>2. conn' \in [Conns -> Conn]
      BY <3>1 DEF TypeOK
    <3> QED BY <3>2 DEF Conn
  <2> QED BY <2>1 DEF NothingIsMissed, Later, In, Pending
<1>1. /\ TypeOK /\ NothingIsMissed /\ JoinedMissNothing /\ OldOnesAreOvertaken
      /\ lastId \in Nat /\ conn[d] \in Conn /\ buf[d] \in Seq(Ids)
  BY DEF IInv, TypeOK
<1>2. overtaken \subseteq overtaken'
  BY OwnedGrows
<1>3. \/ Replay(d)
      \/ /\ conn[d].phase = "streaming" /\ conn'[d].after = conn[d].after
         /\ conn'[d].lost = conn[d].lost /\ conn'[d].joined = conn[d].joined
         /\ Stream(d) \/ conn'[d].sent = conn[d].sent
  <2>1. ASSUME NEW c \in Conns, Find(c) PROVE <1>3
    BY <1>1, <2>1, FindIs
  <2>2. ASSUME NEW c \in Conns, Register(c) PROVE <1>3
    BY <1>1, <2>2, RegisterIs
  <2>3. ASSUME NEW c \in Conns, Replay(c) PROVE <1>3
    BY <1>1, <2>3, ReplayIs
  <2>4. ASSUME NEW c \in Conns, Stream(c) PROVE <1>3
    BY <1>1, <2>4, StreamIs
  <2>5. ASSUME NEW c \in Conns, Release(c) PROVE <1>3
    BY <1>1, <2>5, EndedIs
  <2> QED BY <2>1, <2>2, <2>3, <2>4, <2>5, QuietSteps
<1>4. CASE Replay(d)
  <2>1. /\ conn[d].phase = "joined" /\ conn'[d].lost = pruned /\ conn'[d].sent = Replayed(conn[d].after)
        /\ conn'[d].after = conn[d].after /\ conn'[d].joined = conn[d].joined
    BY <1>1, <1>4, ReplayIs
  <2>2. closed' = closed /\ lastId' = lastId /\ buf' = buf /\ pub' = pub
    BY <1>4 DEF Replay, bus, table
  <2>3. conn[d].joined + 1 .. lastId \subseteq Pending(d) /\ Pending(d)' = Pending(d)
    BY <1>1, <2>1, <2>2 DEF JoinedMissNothing, In, Pending
  <2>4. /\ conn[d].after \in 0 .. MaxEvents /\ pruned \in Nat /\ conn[d].after \in Nat
        /\ conn[d].joined \in Nat /\ first \in Nat
    <3>1. conn[d].after \in 0 .. MaxEvents /\ conn[d].joined \in 0 .. MaxEvents
      BY <1>1 DEF Conn
    <3>2. pruned \in Nat
      BY <1>1 DEF TypeOK
    <3>3. first = conn[d].after \/ first = pruned
      BY <2>1
    <3> QED BY <3>1, <3>2, <3>3
  <2>5. first = Later(conn[d].after, pruned)
    <3>1. first \in {conn[d].after, pruned} /\ conn[d].after <= first /\ pruned <= first
      BY <2>1
    <3> QED BY <2>4, <3>1 DEF Later
  <2>6. CASE n > conn[d].joined
    BY <1>1, <2>2, <2>3, <2>4, <2>6
  <2>7. CASE n <= conn[d].joined
    <3>1. n <= first + ReplayLimit /\ n \in first + 1 .. lastId
      BY <1>1, <2>1, <2>2, <2>4, <2>7
    <3>2. n \in ToSet(Replayed(conn[d].after))
      BY <1>1, <2>4, <2>5, <3>1, PageIs
    <3> QED BY <2>1, <3>2
  <2> QED BY <1>1, <2>2, <2>4, <2>6, <2>7
<1>5. CASE /\ conn[d].phase = "streaming" /\ conn'[d].after = conn[d].after
           /\ conn'[d].lost = conn[d].lost /\ conn'[d].joined = conn[d].joined
           /\ Stream(d) \/ conn'[d].sent = conn[d].sent
  <2>1. closed[d] = 0 /\ registered = d
    BY <1>5, OpenWasOpen DEF Open
  <2>2. /\ first \in Nat /\ first = Later(conn[d].after, conn[d].lost)
        /\ conn[d].after \in Nat /\ conn[d].after <= first
    BY <1>1, <1>5 DEF Conn, Later
  <2>3. ASSUME n \in first + 1 .. lastId PROVE n \in ToSet(conn[d].sent) \cup Pending(d)
    <3>1. n \notin overtaken /\ n \notin first + ReplayLimit + 1 .. conn[d].joined
      BY <1>2, <1>5
    <3> QED BY <1>1, <1>5, <2>1, <2>2, <2>3, <3>1 DEF NothingIsMissed, In, Pending
  <2>4. CASE ~Stream(d)
    <3>1. /\ Pending(d) \subseteq Pending(d)' /\ lastId + 1 .. lastId' \subseteq Pending(d)'
          /\ lastId' \in Nat
      BY <2>1, <2>4, PendingStays
    <3>2. n \in first + 1 .. lastId \/ n \in lastId + 1 .. lastId'
      BY <1>1, <2>2, <3>1
    <3> QED BY <1>5, <2>3, <2>4, <3>1, <3>2
  <2>5. CASE Stream(d)
    <3> DEFINE h == Head(buf[d])
    <3>1. lastId' = lastId /\ pub' = pub /\ buf[d] # <<>> /\ buf'[d] = Tail(buf[d])
      BY <1>1, <2>5 DEF Stream, table, TypeOK
    <3>2. /\ h \in Nat /\ h = buf[d][1] /\ 1 \in 1 .. Len(buf[d])
          /\ ToSet(buf[d]) \subseteq {h} \cup ToSet(buf'[d])
      BY <1>1, <3>1, HeadGone DEF Ids
    <3>3. n \in ToSet(conn[d].sent) \cup Pending(d)
      BY <2>3, <3>1
    <3>4. conn[d].sent \in Seq(Ids) /\ h \in Ids /\ conn[d].lastSent \in Nat
      BY <1>1, <3>1, HeadGone DEF Conn
    <3>9. h > conn[d].lastSent =>
            ToSet(conn[d].sent) \subseteq ToSet(conn'[d].sent) /\ h \in ToSet(conn'[d].sent)
      <4>1. h > conn[d].lastSent => conn'[d].sent = Append(conn[d].sent, h)
        BY <1>1, <2>5, StreamIs
      <4> HIDE DEF h
      <4>2. ToSet(conn[d].sent) \subseteq ToSet(Append(conn[d].sent, h))
              /\ h \in ToSet(Append(conn[d].sent, h))
        BY <3>4, Appended
      <4> QED BY <4>1, <4>2
    <3>5. ToSet(conn[d].sent) \subseteq ToSet(conn'[d].sent)
      <4>1. CASE h > conn[d].lastSent
        BY <3>9, <4>1
      <4>2. CASE ~(h > conn[d].lastSent)
        BY <1>1, <2>5, <4>2, StreamIs
      <4> QED BY <4>1, <4>2
    <3>6. CASE n # h
      BY <3>1, <3>2, <3>3, <3>5, <3>6 DEF Pending
    <3>7. CASE n = h /\ h > conn[d].lastSent
      BY <3>7, <3>9
    <3>8. CASE n = h /\ ~(h > conn[d].lastSent)
      <4>1. h <= conn[d].lastSent /\ ~(h <= conn[d].after) /\ h \notin overtaken
        BY <1>2, <2>2, <3>1, <3>2, <3>4, <3>8
      <4>2. h \in ToSet(conn[d].sent)
        BY <1>1, <3>2, <4>1 DEF OldOnesAreOvertaken
      <4> QED BY <3>5, <3>8, <4>2
    <3> QED BY <3>6, <3>7, <3>8
  <2> QED BY <2>4, <2>5
<1> QED BY <1>3, <1>4, <1>5

-----------------------------------------------------------------------------
(* Theorems *)

(* Every step keeps the inductive invariant. *)
LEMMA NextIInv == IInv /\ [Next]_vars => IInv'
  BY TypeKeeps, ChannelsKeep, SlotsKeep, OwnersKeep, OvertakenKeep, JoinedKeep, StreamingKeep DEF IInv

(* The inductive invariant holds always, for any connections, publishers,    *)
(* buffer and page.                                                          *)
THEOREM EventStreamInvariance == Spec => []IInv
<1>1. Init => IInv
  BY InitIInv
<1>2. IInv /\ [Next]_vars => IInv'
  BY NextIInv
<1> QED BY <1>1, <1>2, PTL DEF Spec

(* Ids, buffers and the limiter stay in their ranges: EventBus and HandleSSE. *)
THEOREM EventStreamTypeCorrect == Spec => []TypeOK
<1>1. IInv => TypeOK
  BY DEF IInv
<1> QED BY <1>1, EventStreamInvariance, PTL

(* Register, Unregister and Publish's evictions never close a Done channel   *)
(* twice.                                                                    *)
THEOREM ChannelsClosedOnce == Spec => []ClosedOnce
<1>1. IInv => ClosedOnce
  BY DEF IInv
<1> QED BY <1>1, EventStreamInvariance, PTL

(* The limiter's count is the number of connections inside HandleSSE.        *)
THEOREM LimiterIsExact == Spec => []SlotsAreExact
<1>1. IInv => SlotsAreExact
  BY DEF IInv
<1> QED BY <1>1, EventStreamInvariance, PTL

(* No event falls between HandleSSE's replay and its channel.                *)
THEOREM ReplayMeetsChannel == Spec => []NothingIsMissed
<1>1. IInv => NothingIsMissed
  BY DEF IInv
<1> QED BY <1>1, EventStreamInvariance, PTL
===============================================================================
