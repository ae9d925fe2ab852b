---------------------------- MODULE PacketSessions ----------------------------
(***************************************************************************)
(* The sessions array inside a packet of the proxy server                  *)
(* (proxy/atem_packet.h, struct atem_packet_session).                      *)
(*                                                                         *)
(* A packet that was sent to n sessions holds n slots, 0 .. n-1.  A slot is *)
(* never moved, since the sessions refer to it by index; instead           *)
(* packet_session_index is rewritten so that its first sessions_remaining  *)
(* entries name exactly the slots whose session still has not acknowledged *)
(* the packet.  The operators below work on any record that has the fields *)
(*   sessions_remaining    how many sessions have not acknowledged         *)
(*   packet_session_index  the indirection, a function on the slots        *)
(***************************************************************************)
EXTENDS Naturals

\* Mutation: counts slots from one.
SelfIndexedFromOne(n) == [slot \in 0..n-1 |-> slot + 1]

\* The indirection of a freshly sent packet: every slot points to itself.
SelfIndexed(n) == [slot \in 0..n-1 |-> slot]

\* The slots a retransmission visits.
RetransmitSlots(p) ==
    {p.packet_session_index[i] : i \in 0..p.sessions_remaining - 1}

\* Mutation: the position that fell out of bounds does not point back.
DisassociatedOneWay(p, slot) ==
    LET remaining == p.sessions_remaining - 1
        last      == p.packet_session_index[remaining]
    IN  [p EXCEPT !.sessions_remaining = remaining,
                  !.packet_session_index = [@ EXCEPT ![slot] = last]]

(***************************************************************************)
(* Takes the session of one slot out of a packet that other sessions still *)
(* wait for: the bound shrinks by one and the position that fell out of it *)
(* trades places with the position that named the slot.                    *)
(***************************************************************************)
Disassociated(p, slot) ==
    LET remaining == p.sessions_remaining - 1
        last      == p.packet_session_index[remaining]
        home      == p.packet_session_index[slot]
    IN  [p EXCEPT !.sessions_remaining = remaining,
                  !.packet_session_index = [@ EXCEPT ![last] = home, ![home] = last]]

===============================================================================
