------------------------------ MODULE MCHandovers ------------------------------
(* Instance of Handovers; forms, mails and clerks are interchangeable. *)
EXTENDS Handovers, TLC

Symmetric == Permutations(Forms) \cup Permutations(Mails) \cup Permutations(Clerks)
===============================================================================
