-------------------------- MODULE MCStreamDecoder ---------------------------
(***************************************************************************)
(* Streams of one and two short messages whose bytes are ordinary or those *)
(* of the start sequence, cut into packets of several sizes.               *)
(***************************************************************************)
EXTENDS StreamDecoder

Message(n) == UNION { [1 .. k -> {0, FE, FD}] : k \in 0 .. n }

(* Every single message of up to three bytes and a long one, and pairs of  *)
(* short ones.                                                             *)
MCStreams ==
  { <<m>> : m \in Message(3) }
    \cup { <<<<FE, FE, FD, FD, FE, FD, FE>>>>, <<[i \in 1 .. 29 |-> 0]>> }
    \cup { <<m, <<FE, FD>>>> : m \in Message(1) }

(* A checksum in which no start sequence occurs.                           *)
MCCrc(s) == <<FoldLeft(LAMBDA a, b : a + b, 0, s) % 3, Len(s)>>

(* A checksum that is a start sequence, as one of 65536 is in its first    *)
(* two bytes.                                                              *)
MCCrcUnlucky(s) == <<FE, FD>>
=============================================================================
