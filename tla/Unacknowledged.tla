---------------------------- MODULE Unacknowledged ----------------------------
(***************************************************************************)
(* What a broadcast packet of the proxy server promises: it is kept for    *)
(* exactly the receivers that have not acknowledged it, every              *)
(* retransmission goes to all of those and to nobody else, and it is       *)
(* released once the last one is gone.                                     *)
(***************************************************************************)
CONSTANT Receivers

VARIABLES
    waiting,      \* receivers that have not acknowledged
    resent        \* receivers of the latest retransmission

uvars == <<waiting, resent>>

Init ==
    /\ waiting = Receivers
    /\ resent = {}

Settle(r) ==
    /\ r \in waiting
    /\ waiting' = waiting \ {r}
    /\ UNCHANGED resent

Resend ==
    /\ waiting # {}
    /\ resent' = waiting
    /\ UNCHANGED waiting

Next == Resend \/ \E r \in Receivers : Settle(r)

Spec == Init /\ [][Next]_uvars

===============================================================================
