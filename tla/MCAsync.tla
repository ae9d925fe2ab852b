-------------------------------- MODULE MCAsync --------------------------------
(***************************************************************************)
(* A small instance of the background thread's queue for TLC.              *)
(***************************************************************************)
EXTENDS Async

===============================================================================
