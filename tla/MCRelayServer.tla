---------------------------- MODULE MCRelayServer -----------------------------
(***************************************************************************)
(* The legacy proxy with two ids for clients and two for sessions, in one  *)
(* chunk each: a chunk that is full has a fill level of zero.              *)
(***************************************************************************)
EXTENDS RelayServer

===============================================================================
