--------------------------- MODULE MCConnections ----------------------------
(* Two clients ask for one address; a socket to it can be opened by us,    *)
(* with two messages to write, and one by the peer, with none of its own.  *)
EXTENDS Connections

MCWants == [c \in Client |-> CHOOSE a \in Addr : TRUE]
MCPeer == [s \in Sock |-> CHOOSE a \in Addr : TRUE]
MCMaxWrites == [s \in Sock |-> IF s \in Accepted THEN 0 ELSE 2]

(* Of two sockets to one address one is closed.  Not so between the        *)
(* decrement and the close in DECR-IO-COUNT (network-connection-ss.lisp:   *)
(* 446-448), when a shutdown already finds the count zero and has the      *)
(* record removed, see MCConnectionsOverlap.cfg.                           *)
OneNotClosed ==
  \A s, t \in Sock : Peer[s] = Peer[t] /\ Opened(s) /\ Opened(t) /\ closed[s] \cup closed[t] = {}
                      => s = t
=============================================================================
