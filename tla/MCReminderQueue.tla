---------------------------- MODULE MCReminderQueue ----------------------------
(* Instances of ReminderQueue. *)
EXTENDS ReminderQueue, TLC

Symmetric == Permutations(Names)
===============================================================================
