----------------------------- MODULE MCEventStream -----------------------------
(* Instances of EventStream; its connections are interchangeable. *)
EXTENDS EventStream, TLC

Symmetric == Permutations(Conns)
===============================================================================
