SPECIFICATION Spec
CONSTANTS
  Client = {c1, c2}
  Sock = {s1, s2}
  Addr = {a1}
  Accepted = {s2}
  Wants <- MCWants
  Peer <- MCPeer
  NoSock = {s1, s2}
  NoRec = NoRec
  MaxWrites <- MCMaxWrites
INVARIANTS
  OneNotClosed
