--------------------------- MODULE PacketAcksProofs ---------------------------
(***************************************************************************)
(* For every number of sessions, the indirection inside a packet names     *)
(* exactly the sessions that still refer to it, and the packet implements  *)
(* the abstract one of module Unacknowledged.                              *)
(***************************************************************************)
EXTENDS PacketAcks, TLAPS

\* Initially every slot is linked and points to itself.
LEMMA InitIndexInv == Init => IndexInv
<1> SUFFICES ASSUME Init PROVE IndexInv
  OBVIOUS
<1>1. packet.sessions_remaining = SessionsCount
  BY DEF Init
<1>2. packet.packet_session_index = [slot \in Slots |-> slot]
  BY DEF Init, SelfIndexed, Slots
<1>3. TypeOK
  <2>1. SessionsCount \in 0..SessionsCount
    BY SessionsCountAssumption
  <2>2. packet = [sessions_remaining |-> SessionsCount,
                  packet_session_index |-> [slot \in Slots |-> slot]]
    BY DEF Init, SelfIndexed, Slots
  <2>3. [slot \in Slots |-> slot] \in [Slots -> Slots]
    OBVIOUS
  <2>4. linked = Slots /\ resent = {} /\ freed = FALSE
    BY DEF Init
  <2> QED
    BY <2>1, <2>2, <2>3, <2>4 DEF TypeOK
<1>4. Remaining > 0 /\ LinkedNamed /\ PrefixLinked /\ PrefixOutwards
  BY <1>1, <1>2, SessionsCountAssumption
  DEF Init, Remaining, Index, LinkedNamed, PrefixLinked, PrefixOutwards, Slots
<1> QED
  BY <1>3, <1>4 DEF Init, IndexInv

\* Under the invariant, the two ways of naming the retransmitted slots agree:
\* the bounded prefix of the indirection and the set of linked slots.
LEMMA PrefixIsLinked ==
  ASSUME IndexInv, ~ freed
  PROVE  RetransmitSlots(packet) = linked
<1>1. Remaining \in 1..SessionsCount /\ packet.packet_session_index \in [Slots -> Slots]
  BY DEF IndexInv, TypeOK, Remaining
<1>2. RetransmitSlots(packet) = {Index[i] : i \in 0..Remaining - 1}
  BY DEF RetransmitSlots, Index, Remaining
<1>3. ASSUME NEW s \in linked PROVE s \in {Index[i] : i \in 0..Remaining - 1}
  <2>1. Index[s] \in Slots /\ Index[s] < Remaining /\ Index[Index[s]] = s
    BY <1>1 DEF IndexInv, TypeOK, LinkedNamed, Index
  <2> QED
    BY <2>1, <1>1 DEF Slots
<1>4. ASSUME NEW i \in 0..Remaining - 1 PROVE Index[i] \in linked
  BY <1>1, SessionsCountAssumption DEF IndexInv, PrefixLinked, Slots
<1> QED
  BY <1>2, <1>3, <1>4

\* Taking one session out keeps the invariant.  Position `last' is the one that
\* falls out of bounds; `home' is the position that named the slot taken out.
LEMMA DisassociateIndexInv ==
  ASSUME NEW slot \in Slots, IndexInv, Disassociate(slot)
  PROVE  IndexInv'
<1> DEFINE r    == Remaining - 1
           last == Index[r]
           home == Index[slot]
<1>1. /\ Remaining \in 2..SessionsCount
      /\ packet \in [sessions_remaining : 0..SessionsCount, packet_session_index : [Slots -> Slots]]
      /\ slot \in linked /\ linked \subseteq Slots /\ ~ freed
      /\ \A i \in Slots : Index[i] \in Slots
  BY SessionsCountAssumption DEF IndexInv, TypeOK, Disassociate, Remaining, Index
<1>2. r \in Slots /\ last \in Slots /\ home \in Slots /\ r \in Nat /\ r < Remaining /\ Remaining \in Nat
  <2>1. r \in Slots /\ r \in Nat /\ r < Remaining /\ Remaining \in Nat
    BY <1>1, SessionsCountAssumption DEF Slots
  <2> QED
    BY <2>1, <1>1
<1>3. /\ packet' = Disassociated(packet, slot)
      /\ linked' = linked \ {slot}
      /\ freed' = freed /\ resent' = resent
  BY DEF Disassociate
<1>4. /\ Remaining' = r
      /\ packet'.packet_session_index
           = [packet.packet_session_index EXCEPT ![last] = home, ![home] = last]
      /\ packet' \in [sessions_remaining : 0..SessionsCount, packet_session_index : [Slots -> Slots]]
  <2>1. r \in 0..SessionsCount
    BY <1>1, SessionsCountAssumption
  <2> QED
    BY <1>1, <1>2, <1>3, <2>1 DEF Disassociated, Remaining, Index
<1>5. \A i \in Slots : Index'[i] = IF i = home THEN last ELSE IF i = last THEN home ELSE Index[i]
  BY <1>1, <1>2, <1>4 DEF Index
<1>6. LinkedNamed /\ PrefixLinked /\ PrefixOutwards
  BY <1>1 DEF IndexInv
<1>7. /\ last \in linked /\ Index[last] = r
      /\ last = r \/ last >= Remaining
  BY <1>2, <1>6 DEF PrefixLinked, PrefixOutwards
<1>8. home < Remaining /\ Index[home] = slot
  BY <1>1, <1>6 DEF LinkedNamed
<1>9. /\ \A n \in Slots : n < Remaining <=> n < r \/ n = r
      /\ \A n \in Slots : n >= Remaining => n >= r
      /\ \A n \in Slots : ~ (n < r /\ n >= r)
      /\ \A n \in Slots : ~ (n < Remaining /\ n >= Remaining)
      /\ r >= r
  BY <1>1 DEF Slots
\* A position that names itself from within the bounds is not the slot's home
\* unless the slot is its own home.
<1>10. ASSUME home \in linked PROVE home = slot
  <2>1. Index[home] < Remaining
    BY <1>6, <1>10 DEF LinkedNamed
  <2> QED
    BY <2>1, <1>2, <1>6, <1>8, <1>9, <1>1 DEF PrefixOutwards
<1>11. (LinkedNamed)'
  <2> SUFFICES ASSUME NEW s \in linked, s # slot
               PROVE  Index'[s] < r /\ Index'[Index'[s]] = s
    BY <1>3, <1>4 DEF LinkedNamed, Index
  <2>1. s \in Slots /\ Index[s] \in Slots /\ Index[s] < Remaining /\ Index[Index[s]] = s
    BY <1>1, <1>6 DEF LinkedNamed
  <2>2. s # home
    BY <1>10
  <2>3. CASE s = last
    <3>1. Index'[s] = home
      BY <2>1, <2>2, <2>3, <1>5
    <3>2. home # r
      BY <2>3, <1>8
    <3>3. home < r
      BY <3>2, <1>2, <1>8, <1>9
    <3> QED
      BY <3>1, <3>3, <2>3, <1>2, <1>5
  <2>4. CASE s # last
    <3>1. Index'[s] = Index[s]
      BY <2>1, <2>2, <2>4, <1>5
    <3>2. Index[s] # r
      BY <2>1, <2>4
    <3>3. Index[s] < r
      BY <3>2, <2>1, <1>2, <1>9
    <3>4. Index[s] # home
      BY <2>1, <1>8
    <3>5. Index[s] # last
      <4> SUFFICES ASSUME Index[s] = last PROVE FALSE
        OBVIOUS
      <4>1. s = r
        BY <2>1, <1>7
      <4> QED
        BY <4>1, <2>1, <2>4, <1>7, <1>2, <1>9
    <3> QED
      BY <3>1, <3>3, <3>4, <3>5, <2>1, <1>5
  <2> QED
    BY <2>3, <2>4
<1>12. (PrefixLinked)'
  <2> SUFFICES ASSUME NEW i \in Slots, i < r
               PROVE  Index'[i] \in linked \ {slot} /\ Index'[Index'[i]] = i
    BY <1>3, <1>4 DEF PrefixLinked, Index
  <2>1. i < Remaining /\ Index[i] \in linked /\ Index[Index[i]] = i /\ Index[i] \in Slots
    BY <1>1, <1>2, <1>6, <1>9 DEF PrefixLinked
  <2>2. i # last
    BY <1>2, <1>7, <1>9
  <2>3. CASE i = home
    <3>1. Index'[i] = last
      BY <2>3, <1>5
    <3>2. last # slot
      BY <1>2, <1>7, <2>3, <1>9
    <3>3. Index'[last] = home
      BY <1>2, <1>5, <2>2, <2>3
    <3> QED
      BY <3>1, <3>2, <3>3, <2>3, <1>7
  <2>4. CASE i # home
    <3>1. Index'[i] = Index[i]
      BY <2>2, <2>4, <1>5
    <3>2. Index[i] # slot
      BY <2>1, <2>4
    <3>3. Index[i] # last
      BY <2>1, <1>7, <1>2, <1>9
    <3>4. Index[i] # home
      <4> SUFFICES ASSUME Index[i] = home PROVE FALSE
        OBVIOUS
      <4>1. i = slot
        BY <2>1, <1>8
      <4>2. home = slot
        BY <1>10, <2>1
      <4> QED
        BY <4>1, <4>2, <2>4
    <3> QED
      BY <3>1, <3>2, <3>3, <3>4, <2>1, <1>5
  <2> QED
    BY <2>3, <2>4
<1>13. (PrefixOutwards)'
  <2> SUFFICES ASSUME NEW i \in Slots, i < r
               PROVE  Index'[i] = i \/ Index'[i] >= r
    BY <1>4 DEF PrefixOutwards, Index
  <2>1. i # last /\ last >= r
    BY <1>2, <1>7, <1>9
  <2>2. Index[i] = i \/ Index[i] >= Remaining
    BY <1>2, <1>6, <1>9 DEF PrefixOutwards
  <2> QED
    BY <2>1, <2>2, <1>1, <1>2, <1>5, <1>9
<1>14. TypeOK'
  BY <1>1, <1>3, <1>4 DEF IndexInv, TypeOK
<1>15. Remaining' > 0 /\ ~ freed'
  BY <1>1, <1>3, <1>4
<1> QED
  BY <1>11, <1>12, <1>13, <1>14, <1>15 DEF IndexInv

\* The last session's departure unlinks the packet altogether.
LEMMA ReleaseUnlinks ==
  ASSUME NEW slot \in Slots, IndexInv, Release(slot)
  PROVE  linked' = {}
<1>1. Remaining = 1 /\ slot \in linked /\ ~ freed /\ linked \subseteq Slots
  BY SessionsCountAssumption DEF IndexInv, TypeOK, Release, Remaining
<1>2. ASSUME NEW s \in linked PROVE s = Index[0]
  <2>1. Index[s] \in Slots /\ Index[s] < 1 /\ Index[Index[s]] = s
    BY <1>1 DEF IndexInv, LinkedNamed, TypeOK, Index
  <2>2. Index[s] = 0
    BY <2>1 DEF Slots
  <2> QED
    BY <2>1, <2>2
<1> QED
  BY <1>1, <1>2 DEF Release

\* The indirection keeps its shape: every action preserves the invariant.
THEOREM IndexInvariant == Spec => []IndexInv
<1>1. IndexInv /\ [Next]_vars => IndexInv'
  <2> SUFFICES ASSUME IndexInv, [Next]_vars PROVE IndexInv'
    OBVIOUS
  <2>1. ASSUME NEW slot \in Slots, Disassociate(slot) PROVE IndexInv'
    BY <2>1, DisassociateIndexInv
  <2>2. ASSUME NEW slot \in Slots, Release(slot) PROVE IndexInv'
    <3>1. linked' = {} /\ freed' = TRUE
      BY <2>2, ReleaseUnlinks DEF Release
    <3>2. TypeOK'
      BY <2>2, <3>1 DEF IndexInv, TypeOK, Release
    <3> QED
      BY <3>1, <3>2 DEF IndexInv
  <2>3. CASE Retransmit
    <3>1. resent' \in SUBSET Slots
      BY <2>3, PrefixIsLinked DEF IndexInv, TypeOK, Retransmit
    <3>2. UNCHANGED <<packet, linked, freed>>
      BY <2>3 DEF Retransmit
    <3> QED
      BY <3>1, <3>2 DEF IndexInv, TypeOK, LinkedNamed, PrefixLinked, PrefixOutwards,
                        Remaining, Index
  <2>4. CASE UNCHANGED vars
    BY <2>4 DEF vars, IndexInv, TypeOK, LinkedNamed, PrefixLinked, PrefixOutwards,
                Remaining, Index
  <2> QED
    BY <2>1, <2>2, <2>3, <2>4 DEF Next
<1> QED
  BY InitIndexInv, <1>1, PTL DEF Spec

\* Every variable keeps its type.
THEOREM TypeOKThm == Spec => []TypeOK
<1>1. IndexInv => TypeOK
  BY DEF IndexInv
<1> QED
  BY <1>1, IndexInvariant, PTL

\* atem_packet_retransmit() sends to exactly the sessions that have not
\* acknowledged the packet, whatever their number and the order of the others.
THEOREM RetransmitsToLinkedThm == Spec => []RetransmitsToLinked
<1>1. IndexInv => RetransmitsToLinked
  BY PrefixIsLinked DEF RetransmitsToLinked
<1> QED
  BY <1>1, IndexInvariant, PTL

\* atem_packet_disassociate() frees the packet with its last session, not before.
THEOREM FreedWhenUnlinkedThm == Spec => []FreedWhenUnlinked
<1>1. IndexInv => FreedWhenUnlinked
  <2> SUFFICES ASSUME IndexInv, ~ freed PROVE linked # {}
    BY DEF IndexInv, FreedWhenUnlinked
  <2>1. 0 \in Slots /\ 0 < Remaining
    BY SessionsCountAssumption DEF IndexInv, TypeOK, Remaining, Slots
  <2> QED
    BY <2>1 DEF IndexInv, PrefixLinked
<1> QED
  BY <1>1, IndexInvariant, PTL

\* The packet with its indirection implements the abstract packet: every step
\* settles one waiting receiver, resends to all waiting ones, or stutters.
THEOREM Implementation == Spec => ImplementsUnacknowledged
<1>1. Init => Abstract!Init
  BY DEF Init, Abstract!Init
<1>2. IndexInv /\ [Next]_vars => [Abstract!Next]_(Abstract!uvars)
  <2> SUFFICES ASSUME IndexInv, [Next]_vars PROVE [Abstract!Next]_(Abstract!uvars)
    OBVIOUS
  <2>1. ASSUME NEW slot \in Slots, Disassociate(slot) \/ Release(slot)
        PROVE  Abstract!Next
    BY <2>1 DEF Disassociate, Release, Abstract!Next, Abstract!Settle
  <2>2. CASE Retransmit
    <3>1. ~ freed /\ resent' = linked /\ UNCHANGED linked
      BY <2>2, PrefixIsLinked DEF Retransmit
    <3>2. 0 \in Slots /\ 0 < Remaining
      BY <3>1, SessionsCountAssumption DEF IndexInv, TypeOK, Remaining, Slots
    <3>3. linked # {}
      BY <3>1, <3>2 DEF IndexInv, PrefixLinked
    <3> QED
      BY <3>1, <3>3 DEF Abstract!Next, Abstract!Resend
  <2>3. CASE UNCHANGED vars
    BY <2>3 DEF vars, Abstract!uvars
  <2> QED
    BY <2>1, <2>2, <2>3 DEF Next
<1> QED
  BY <1>1, <1>2, IndexInvariant, PTL DEF Spec, ImplementsUnacknowledged, Abstract!Spec

===============================================================================
