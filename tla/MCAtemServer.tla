----------------------------- MODULE MCAtemServer -----------------------------
(***************************************************************************)
(* Small instances of the proxy server.                                    *)
(*                                                                         *)
(* Two sessions and three packets: two sessions share pings and a closing  *)
(* request while one of them still has its accept packet or a cache chunk. *)
(* One retransmit for either kind of packet tells a packet that was sent   *)
(* again from one that ran out.  Ids wrap early on purpose: session ids    *)
(* come around while their first owner may live, and the ids of packets    *)
(* within one chain.                                                       *)
(***************************************************************************)
EXTENDS AtemServerClaims

CONSTANTS peer1, req1, req2, pkt1, pkt2, pkt3

OnePeer  == {peer1}
OneRequest  == {req1}
TwoRequests == {req1, req2}

\* A packet is as good as any other: which one malloc() returns does not matter.
TwoPackets   == {pkt1, pkt2}
ThreePackets == {pkt1, pkt2, pkt3}
AnyPacket    == Permutations(ThreePackets)

NoData    == {}
PlainData == {0}
AnyData   == {0, 2}

===============================================================================
