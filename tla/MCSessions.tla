------------------------------ MODULE MCSessions ------------------------------
(* Instance of Sessions; workers are interchangeable. *)
EXTENDS Sessions, TLC

Symmetric == Permutations(Workers)
===============================================================================
