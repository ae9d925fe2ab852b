---------------------------- MODULE MCSessionSlots ----------------------------
(***************************************************************************)
(* Four sessions at most: enough for a connected, an opening and a closing *)
(* session to be moved by one operation on a fourth.  Six session ids let  *)
(* every one of them be assigned again after its session is gone.          *)
(***************************************************************************)
EXTENDS SessionSlots, TLC

CONSTANTS req1, req2, req3

Requests == {req1, req2, req3}
Symmetric == Permutations(Requests)

===============================================================================
