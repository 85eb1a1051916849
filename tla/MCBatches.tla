-------------------------------- MODULE MCBatches --------------------------------
(* Instance of Batches; no symmetry, as the run checks a liveness property. *)
EXTENDS Batches
==================================================================================
