--------------------------- MODULE AtemServerClaims ---------------------------
(***************************************************************************)
(* What the comments, the assertions and the protocol documentation of the *)
(* repository say of the proxy server, where the code does otherwise.      *)
(***************************************************************************)
EXTENDS AtemServer

\* "Acknowledges all packets up to acknowledge id", and "rejects packets that
\* are considered behind in the sequence" (atem_session_acknowledge()): what
\* an acknowledgement takes out of a chain is not ahead of it.
AcknowledgesUpTo ==
    [][\A peer \in Peers, id \in SessionIds, ack_id \in RemoteIds :
          RecvAck(peer, id, ack_id) =>
              LET i == server.lookup[id]
                  chain == server.sessions[i].chain
              IN  \A k \in DOMAIN chain :
                    \/ Reached(ack_id, LinkSlot(server, chain[k]).remote_id)
                    \/ chain[k] \in ToSet(server'.sessions[i].chain)
      ]_vars

===============================================================================
