---------------------------- MODULE MCDispositions ----------------------------
(* Instances of Dispositions: two submissions for one mail. *)
EXTENDS Dispositions, TLC

Symmetric == Permutations(Disps) \cup Permutations(Workers)
===============================================================================
