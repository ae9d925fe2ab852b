----------------------------- MODULE MCPacketAcks -----------------------------
(***************************************************************************)
(* One packet sent to five sessions, the default sessions_limit of the     *)
(* proxy server (proxy/atem_server.c): all orders of acknowledgements,     *)
(* with retransmissions anywhere in between.                               *)
(***************************************************************************)
EXTENDS PacketAcks

===============================================================================
