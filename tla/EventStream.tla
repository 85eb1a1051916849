------------------------------ MODULE EventStream ------------------------------
(***************************************************************************)
(* service.EventBus and the SSE connections of ONE subscriber id.          *)
(* Publish appends an event to the events table and only then offers it to *)
(* the registered channel; HandleSSE reads the subscriber's row, registers *)
(* a channel, replays the table and then follows the channel.  A second    *)
(* connection of the same subscriber takes the registration over, and      *)
(* every connection that ends unregisters the id, whoever holds it.        *)
(* The limiter counts the connections of the subscriber.                   *)
(***************************************************************************)
EXTENDS Naturals, Sequences, FiniteSets, SequencesExt

CONSTANTS
  Conns,        (* SSE requests of the subscriber, each used once          *)
  Publishers,   (* goroutines that publish                                 *)
  None,         (* nobody registered, nothing being published              *)
  MaxEvents,    (* bound on the ids the events table hands out             *)
  BufferSize,   (* subscriberBufferSize (256)                              *)
  ReplayLimit,  (* events one replay lists (500)                           *)
  MaxConn       (* connections a subscriber may hold (3)                   *)

VARIABLES
  lastId,       (* newest id of the events table                           *)
  pruned,       (* the events up to this id have been pruned from it       *)
  checkpoint,   (* last_event_id of the subscriber's row                   *)
  pub,          (* per publisher, the appended event not yet handed out    *)
  overtaken,    (* history: events handed out after a newer one            *)
  registered,   (* the connection whose channel the bus holds              *)
  buf, closed,  (* per channel: its buffer; how often Done was closed      *)
  slots,        (* limiter: open connections of the subscriber             *)
  conn          (* per connection, the handler's local state               *)

vars == <<lastId, pruned, checkpoint, pub, overtaken, registered, buf, closed, slots, conn>>

Ids == 1 .. MaxEvents

Phases == {"new", "acquired", "found", "joined", "streaming", "leaving", "releasing", "ended"}

(* after: where the replay starts; joined: the newest id at registration;    *)
(* lost: the newest id that is pruned when it replays; lastSent: the         *)
(* handler's lastSentID; sent: the ids written to the client; gone: the      *)
(* request's context is cancelled.                                           *)
Conn == [phase : Phases, after : 0 .. MaxEvents, joined : 0 .. MaxEvents, lost : 0 .. MaxEvents,
         lastSent : 0 .. MaxEvents, sent : Seq(Ids), gone : BOOLEAN]

(* An event on its way: appended, and then offered to a channel that is full. *)
Pub == [id : Ids, phase : {"send", "evict"}]

ASSUME StreamAssumption ==
  /\ MaxEvents \in Nat /\ BufferSize \in Nat /\ ReplayLimit \in Nat /\ MaxConn \in Nat
  /\ IsFiniteSet(Conns) /\ None \notin Conns /\ None \notin Pub

TypeOK ==
  /\ lastId \in 0 .. MaxEvents /\ pruned \in 0 .. lastId /\ checkpoint \in 0 .. lastId
  /\ overtaken \subseteq 1 .. lastId
  /\ pub \in [Publishers -> Pub \cup {None}]
  /\ registered \in Conns \cup {None}
  /\ buf \in [Conns -> Seq(Ids)] /\ \A c \in Conns : Len(buf[c]) <= BufferSize
  /\ closed \in [Conns -> Nat] /\ conn \in [Conns -> Conn]
  /\ slots \in 0 .. MaxConn

NewConn == [phase |-> "new", after |-> 0, joined |-> 0, lost |-> 0, lastSent |-> 0,
            sent |-> <<>>, gone |-> FALSE]

Init ==
  /\ lastId = 0 /\ pruned = 0 /\ checkpoint = 0 /\ overtaken = {}
  /\ pub = [p \in Publishers |-> None]
  /\ registered = None
  /\ buf = [c \in Conns |-> <<>>] /\ closed = [c \in Conns |-> 0]
  /\ slots = 0
  /\ conn = [c \in Conns |-> NewConn]

In(c, phase) == conn[c].phase = phase

Goto(c, phase) == conn' = [conn EXCEPT ![c].phase = phase]

bus == <<registered, buf, closed>>

table == <<lastId, pruned>>

-----------------------------------------------------------------------------
(* EventBus *)

\* Mutant: the channel is closed and its entry stays in the map.
Dropped_KeepsEntry ==
  /\ closed' = IF registered = None THEN closed ELSE [closed EXCEPT ![registered] = @ + 1]
  /\ UNCHANGED registered

(* delete(subscribers, id); close(sc.Done), if the id is registered. *)
Dropped ==
  /\ closed' = IF registered = None THEN closed ELSE [closed EXCEPT ![registered] = @ + 1]
  /\ registered' = None

AppendEvent(p) ==
  /\ pub[p] = None
  /\ lastId < MaxEvents
  /\ lastId' = lastId + 1
  /\ pub' = [pub EXCEPT ![p] = [id |-> lastId + 1, phase |-> "send"]]
  /\ UNCHANGED <<pruned, checkpoint, overtaken, bus, slots, conn>>

(* The event_pruner task: events older than the retention, whoever needs them. *)
Prune ==
  /\ pruned' \in pruned + 1 .. lastId
  /\ UNCHANGED <<lastId, checkpoint, pub, overtaken, bus, slots, conn>>

\* Mutant: one event more than the buffer holds.
Full_OffByOne == registered # None /\ Len(buf[registered]) > BufferSize

Full == registered # None /\ Len(buf[registered]) >= BufferSize

(* What is left to do after the non-blocking send: evict a full channel. *)
AfterSend(p) == IF Full THEN [pub[p] EXCEPT !.phase = "evict"] ELSE None

HandedOut(id) == \A p \in Publishers : pub[p] # None /\ pub[p].phase = "send" => pub[p].id # id

Send(p) ==
  /\ pub[p] # None /\ pub[p].phase = "send"
  /\ buf' = IF registered = None \/ Full THEN buf
            ELSE [buf EXCEPT ![registered] = Append(@, pub[p].id)]
  /\ pub' = [pub EXCEPT ![p] = AfterSend(p)]
  /\ overtaken' = IF \E id \in pub[p].id + 1 .. lastId : HandedOut(id)
                  THEN overtaken \cup {pub[p].id} ELSE overtaken
  /\ UNCHANGED <<table, checkpoint, registered, closed, slots, conn>>

(* The lock was given up in between: the id may belong to another channel now. *)
Evict(p) ==
  /\ pub[p] # None /\ pub[p].phase = "evict"
  /\ Dropped
  /\ pub' = [pub EXCEPT ![p] = None]
  /\ UNCHANGED <<table, checkpoint, overtaken, buf, slots, conn>>

-----------------------------------------------------------------------------
(* HandleSSE *)

HasSlot == slots < MaxConn

Acquire(c) ==
  /\ In(c, "new")
  /\ HasSlot
  /\ slots' = slots + 1
  /\ Goto(c, "acquired")
  /\ UNCHANGED <<table, checkpoint, pub, overtaken, bus>>

(* Too many connections, or the token bucket is empty. *)
Refuse(c) ==
  /\ In(c, "new")
  /\ Goto(c, "ended")
  /\ UNCHANGED <<table, checkpoint, pub, overtaken, bus, slots>>

(* What a client can name in Last-Event-ID: ids it has been sent. *)
Seen == {0} \cup UNION {ToSet(conn[d].sent) : d \in Conns}

Find(c) ==
  /\ In(c, "acquired") /\ ~conn[c].gone
  /\ \E header \in Seen :
       LET after == IF header > checkpoint THEN header ELSE checkpoint
       IN conn' = [conn EXCEPT ![c] = [@ EXCEPT !.phase = "found", !.after = after,
                                                !.lastSent = after]]
  /\ UNCHANGED <<table, checkpoint, pub, overtaken, bus, slots>>

(* The row cannot be read, or the client is gone already. *)
NotFound(c) ==
  /\ In(c, "acquired")
  /\ Goto(c, "releasing")
  /\ UNCHANGED <<table, checkpoint, pub, overtaken, bus, slots>>

Register(c) ==
  /\ In(c, "found")
  /\ closed' = IF registered = None THEN closed ELSE [closed EXCEPT ![registered] = @ + 1]
  /\ registered' = c
  /\ conn' = [conn EXCEPT ![c].phase = "joined", ![c].joined = lastId]
  /\ UNCHANGED <<table, checkpoint, pub, overtaken, buf, slots>>

Later(a, b) == IF a > b THEN a ELSE b

\* Mutant: the newest events first.
Replayed_Newest(a) ==
  LET first == Later(a, IF lastId > ReplayLimit THEN lastId - ReplayLimit ELSE 0)
  IN [i \in 1 .. Later(lastId, first) - first |-> first + i]

(* The first ReplayLimit events of the table after id a. *)
Replayed(a) ==
  LET first == Later(a, pruned)
      last  == Later(first, IF lastId > first + ReplayLimit THEN first + ReplayLimit ELSE lastId)
  IN [i \in 1 .. last - first |-> first + i]

(* lastSentID does not follow the replay. *)
Replay(c) ==
  /\ In(c, "joined") /\ ~conn[c].gone
  /\ conn' = [conn EXCEPT ![c].phase = "streaming", ![c].lost = pruned,
                          ![c].sent = Replayed(conn[c].after)]
  /\ UNCHANGED <<table, checkpoint, pub, overtaken, bus, slots>>

(* The table cannot be read, or the client leaves during the replay. *)
ReplayFails(c) ==
  /\ In(c, "joined")
  /\ Goto(c, "leaving")
  /\ UNCHANGED <<table, checkpoint, pub, overtaken, bus, slots>>

Stream(c) ==
  /\ In(c, "streaming")
  /\ buf[c] # <<>>
  /\ LET id == Head(buf[c])
     IN conn' = IF id > conn[c].lastSent
                THEN [conn EXCEPT ![c].lastSent = id, ![c].sent = Append(@, id)] ELSE conn
  /\ buf' = [buf EXCEPT ![c] = Tail(@)]
  /\ UNCHANGED <<table, checkpoint, pub, overtaken, registered, closed, slots>>

\* Mutant: the handler tells the client and goes on.
AfterEviction_Continues == "streaming"

AfterEviction == "leaving"

Evicted(c) ==
  /\ In(c, "streaming")
  /\ closed[c] > 0
  /\ Goto(c, AfterEviction)
  /\ UNCHANGED <<table, checkpoint, pub, overtaken, bus, slots>>

(* UpdateCheckpoint is called with the cancelled context: database/sql *)
(* refuses the statement, and the error is dropped.                   *)
UpdateCheckpoint(c) == checkpoint' = IF conn[c].gone THEN checkpoint ELSE conn[c].lastSent

Disconnected(c) ==
  /\ In(c, "streaming")
  /\ conn[c].gone
  /\ UpdateCheckpoint(c)
  /\ Goto(c, "leaving")
  /\ UNCHANGED <<table, pub, overtaken, bus, slots>>

(* The deferred Unregister, by subscriber id; the channel is out of reach. *)
Unregister(c) ==
  /\ In(c, "leaving")
  /\ Dropped
  /\ buf' = [buf EXCEPT ![c] = <<>>]
  /\ Goto(c, "releasing")
  /\ UNCHANGED <<table, checkpoint, pub, overtaken, slots>>

\* Mutant: a connection that was sent nothing keeps its slot.
Released_IfSent(c) == IF conn[c].sent = <<>> THEN slots ELSE slots - 1

Released(c) == IF slots > 0 THEN slots - 1 ELSE slots

(* The handler returns; what the client was sent it keeps. *)
Release(c) ==
  /\ In(c, "releasing")
  /\ slots' = Released(c)
  /\ conn' = [conn EXCEPT ![c] = [NewConn EXCEPT !.phase = "ended", !.sent = conn[c].sent]]
  /\ UNCHANGED <<table, checkpoint, pub, overtaken, bus>>

(* The client goes away.  The timeout middleware leaves the stream alone. *)
Cancel(c) ==
  /\ conn[c].phase \notin {"new", "ended"} /\ ~conn[c].gone
  /\ conn' = [conn EXCEPT ![c].gone = TRUE]
  /\ UNCHANGED <<table, checkpoint, pub, overtaken, bus, slots>>

Handler(c) ==
  \/ Find(c) \/ NotFound(c) \/ Register(c) \/ Replay(c) \/ ReplayFails(c)
  \/ Stream(c) \/ Unregister(c) \/ Release(c)

Next ==
  \/ \E p \in Publishers : AppendEvent(p) \/ Send(p) \/ Evict(p)
  \/ Prune
  \/ \E c \in Conns : \/ Acquire(c) \/ Refuse(c) \/ Cancel(c)
                       \/ Handler(c) \/ Evicted(c) \/ Disconnected(c)

Spec == Init /\ [][Next]_vars

(* Goroutines run; a select with a case that stays ready takes it one day. *)
FairSpec ==
  /\ Spec
  /\ \A c \in Conns : WF_vars(Handler(c)) /\ WF_vars(Evicted(c)) /\ WF_vars(Disconnected(c))

-----------------------------------------------------------------------------
(* Properties *)

(* Register, Unregister and evictions never close a Done channel twice,     *)
(* which would panic, and the bus never keeps a closed channel.             *)
ClosedOnce ==
  /\ \A c \in Conns : closed[c] <= 1
  /\ registered # None => closed[registered] = 0

(* The limiter counts exactly the connections inside HandleSSE.             *)
SlotsAreExact ==
  slots = Cardinality({c \in Conns : conn[c].phase \notin {"new", "ended"}})

(* While a connection's channel is open, every event after its starting     *)
(* point was sent, waits in its buffer, or is with its publisher: nothing   *)
(* falls between the replay and the channel.  Three kinds of event are lost *)
(* for good: those pruned before the replay, those beyond the one page that *)
(* it lists although they are older than the registration, and those a      *)
(* publisher handed out after another one's newer event.                    *)
NothingIsMissed ==
  \A c \in Conns : In(c, "streaming") /\ closed[c] = 0 =>
    LET first == Later(conn[c].after, conn[c].lost) IN
    \A n \in (first + 1 .. lastId) \ (overtaken \cup (first + ReplayLimit + 1 .. conn[c].joined)) :
      \/ n \in ToSet(conn[c].sent) \cup ToSet(buf[c])
      \/ \E p \in Publishers : pub[p] # None /\ pub[p].id = n

(* A connection whose client left or whose channel was closed ends and      *)
(* gives its slot back.                                                     *)
StoppedConnectionsEnd ==
  \A c \in Conns : (closed[c] > 0 \/ conn[c].gone) ~> In(c, "ended")

(* subscription_test.go: "events should be in order": ids written to a      *)
(* client increase, so none is written twice.                               *)
SentInOrder ==
  \A c \in Conns : \A i \in 1 .. Len(conn[c].sent) - 1 : conn[c].sent[i] < conn[c].sent[i + 1]
===============================================================================
