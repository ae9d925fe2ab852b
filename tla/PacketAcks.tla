------------------------------ MODULE PacketAcks ------------------------------
(***************************************************************************)
(* The life of one packet of the proxy server, from the moment it was sent *)
(* to SessionsCount sessions until it is freed.  The sessions acknowledge  *)
(* it, or are closed, in any order, each of them once: a session forgets   *)
(* the packet when it is disassociated from it (packet_head moves on).     *)
(* Between any two of those the packet may be retransmitted.               *)
(***************************************************************************)
EXTENDS PacketSessions

CONSTANT SessionsCount

ASSUME SessionsCountAssumption == SessionsCount \in Nat \ {0}

VARIABLES
    packet,       \* sessions_remaining and packet_session_index
    linked,       \* slots a session's own packet chain still refers to
    resent,       \* slots the latest retransmission was sent to
    freed         \* the packet was given back to the heap

vars == <<packet, linked, resent, freed>>

Slots == 0..SessionsCount - 1

Init ==
    /\ packet = [sessions_remaining   |-> SessionsCount,
                 packet_session_index |-> SelfIndexed(SessionsCount)]
    /\ linked = Slots
    /\ resent = {}
    /\ freed = FALSE

\* Mutation: the last session is disassociated as well.
DisassociateLast(slot) ==
    /\ slot \in linked
    /\ packet.sessions_remaining > 0
    /\ packet' = Disassociated(packet, slot)
    /\ linked' = linked \ {slot}
    /\ UNCHANGED <<resent, freed>>

\* A session acknowledges the packet or is closed: others still wait for it.
Disassociate(slot) ==
    /\ slot \in linked
    /\ packet.sessions_remaining > 1
    /\ packet' = Disassociated(packet, slot)
    /\ linked' = linked \ {slot}
    /\ UNCHANGED <<resent, freed>>

\* The last session is disassociated: the packet is released instead.
Release(slot) ==
    /\ slot \in linked
    /\ packet.sessions_remaining <= 1
    /\ linked' = linked \ {slot}
    /\ freed' = TRUE
    /\ UNCHANGED <<packet, resent>>

\* The retransmit timer fires for the packet, which is still in the queue.
Retransmit ==
    /\ ~ freed
    /\ resent' = RetransmitSlots(packet)
    /\ UNCHANGED <<packet, linked, freed>>

Next ==
    \/ \E slot \in Slots : Disassociate(slot) \/ Release(slot)
    \/ Retransmit

Spec == Init /\ [][Next]_vars

-------------------------------------------------------------------------------
(***************************************************************************)
(* Properties                                                              *)
(***************************************************************************)

TypeOK ==
    /\ packet \in [sessions_remaining   : 0..SessionsCount,
                   packet_session_index : [Slots -> Slots]]
    /\ linked \in SUBSET Slots
    /\ resent \in SUBSET Slots
    /\ freed \in BOOLEAN

\* The bounded prefix of the indirection names exactly the slots whose session
\* still refers to the packet: atem_packet_disassociate() keeps
\* atem_packet_retransmit() from skipping a session that has not acknowledged
\* and from sending to one that has (and whose slot may be stale).
RetransmitsToLinked == ~ freed => RetransmitSlots(packet) = linked

\* The packet is freed by the very last session that refers to it: no session
\* is left with a pointer to freed memory, and none is freed twice.
FreedWhenUnlinked == freed <=> linked = {}

\* Implementation: the packet is the abstract packet with its receivers.
Abstract == INSTANCE Unacknowledged WITH Receivers <- Slots, waiting <- linked

\* Every behaviour of the indirection is one of the abstract packet: whoever is
\* retransmitted to has not acknowledged, and everybody else has.
ImplementsUnacknowledged == Abstract!Spec

-------------------------------------------------------------------------------
(***************************************************************************)
(* The inductive invariant.  Header comment of struct atem_packet_session: *)
(* an index in bounds either points to itself or to a slot out of bounds,  *)
(* and that slot points back.                                              *)
(***************************************************************************)
Remaining == packet.sessions_remaining
Index     == packet.packet_session_index

\* A linked slot is named by the position it points to, which is in bounds.
LinkedNamed == \A s \in linked : Index[s] < Remaining /\ Index[Index[s]] = s

\* A position in bounds names a linked slot, which points back to it.
PrefixLinked == \A i \in Slots : i < Remaining => Index[i] \in linked /\ Index[Index[i]] = i

\* A position in bounds is its own slot's or stands in for one out of bounds.
PrefixOutwards == \A i \in Slots : i < Remaining => Index[i] = i \/ Index[i] >= Remaining

IndexInv ==
    /\ TypeOK
    /\ ~ freed => Remaining > 0 /\ LinkedNamed /\ PrefixLinked /\ PrefixOutwards
    /\ freed => linked = {}

===============================================================================
