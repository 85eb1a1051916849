----------------------------- MODULE ReminderQueue -----------------------------
(***************************************************************************)
(* charging.ReminderQueue behind TaskHTTPHandler: Claim looks a reminder   *)
(* up in a map, yields the processor, and stores the claimant.  Nothing    *)
(* guards the map.  An access that overlaps a write is a data race: the    *)
(* runtime may notice it and stop the process, or let both go on.          *)
(***************************************************************************)
EXTENDS Naturals, FiniteSets

CONSTANTS
  Reminders,    (* reminder ids                                            *)
  Names,        (* the worker parameter of the request                     *)
  Goroutines,   (* requests served at the same time                        *)
  None          (* nobody                                                  *)

VARIABLES
  claims,       (* the map: who claimed a reminder                         *)
  call,         (* per goroutine, the Claim it is in                       *)
  won,          (* history: names that were answered 204, per reminder     *)
  dead          (* "fatal error: concurrent map writes"                    *)

vars == <<claims, call, won, dead>>

Call == [phase : {"yielded", "writing"}, id : Reminders, name : Names]

TypeOK ==
  /\ claims \in [Reminders -> Names \cup {None}]
  /\ call \in [Goroutines -> Call \cup {None}]
  /\ won \in [Reminders -> SUBSET Names]
  /\ dead \in BOOLEAN

Init ==
  /\ claims = [r \in Reminders |-> None]
  /\ call = [g \in Goroutines |-> None]
  /\ won = [r \in Reminders |-> {}]
  /\ dead = FALSE

(* Another goroutine is storing. *)
Racing(g) == \E h \in Goroutines \ {g} : call[h] # None /\ call[h].phase = "writing"

Claimable(r) == claims[r] = None

(* Not there: yield. *)
Claim(g, r, n) ==
  /\ ~dead /\ call[g] = None
  /\ Claimable(r)
  /\ call' = [call EXCEPT ![g] = [phase |-> "yielded", id |-> r, name |-> n]]
  /\ UNCHANGED <<claims, won, dead>>

(* Back on the processor, the map is not looked at again. *)
BeginWrite(g) ==
  /\ ~dead /\ call[g] # None /\ call[g].phase = "yielded"
  /\ call' = [call EXCEPT ![g].phase = "writing"]
  /\ UNCHANGED <<claims, won, dead>>

Stored(g) == [claims EXCEPT ![call[g].id] = call[g].name]

EndWrite(g) ==
  /\ ~dead /\ call[g] # None /\ call[g].phase = "writing"
  /\ claims' = Stored(g)
  /\ won' = [won EXCEPT ![call[g].id] = @ \cup {call[g].name}]
  /\ call' = [call EXCEPT ![g] = None]
  /\ UNCHANGED dead

(* The runtime notices an access that overlaps a write. *)
Throw(g) ==
  /\ ~dead
  /\ Racing(g)
  /\ call[g] # None => call[g].phase = "yielded"
  /\ dead' = TRUE
  /\ UNCHANGED <<claims, call, won>>

(* The next process starts with an empty map. *)
Restart ==
  /\ dead
  /\ claims' = [r \in Reminders |-> None]
  /\ call' = [g \in Goroutines |-> None]
  /\ won' = [r \in Reminders |-> {}]
  /\ dead' = FALSE

Next ==
  \/ \E g \in Goroutines : \/ \E r \in Reminders, n \in Names : Claim(g, r, n)
                           \/ BeginWrite(g) \/ EndWrite(g) \/ Throw(g)
  \/ Restart

Spec == Init /\ [][Next]_vars

-----------------------------------------------------------------------------
(* Properties *)

(* task_behavior.go: "reminder already claimed": the claims of a reminder    *)
(* after the first one are refused.                                          *)
OneClaimWins == \A r \in Reminders : Cardinality(won[r]) <= 1
===============================================================================
