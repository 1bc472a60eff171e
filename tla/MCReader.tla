------------------------------ MODULE MCReader ------------------------------
(***************************************************************************)
(* The two ends of a socket's reader, each by itself: the stream decoder,  *)
(* which restores the order of packets and yields records, and the         *)
(* dechunker, which records reach in any order once they are decrypted.    *)
(* What the one yields puts no limits on what the other gets, so that both *)
(* together have no behaviour that one alone has not.                      *)
(***************************************************************************)
EXTENDS MCStreamDecoder

CONSTANTS Small, Large, Chunks, Resent, Window

VARIABLES seqs, chain, travel, assembling, seen, copying, copied, answers, got,
          part

Dechunk == INSTANCE Dechunker

chunkVars == <<seqs, chain, travel, assembling, seen, copying, copied, answers, got>>
all == <<vars, chunkVars, part>>

ASSUME ReaderAssumption == Dechunk!DechunkAssumption

MCInit == /\ Init /\ Dechunk!Init /\ part \in {"decode", "dechunk"}
          /\ part = "dechunk" => sent = CHOOSE s \in Streams : TRUE

MCNext == \/ part = "decode" /\ Next /\ UNCHANGED <<chunkVars, part>>
          \/ part = "dechunk" /\ Dechunk!Next /\ UNCHANGED <<vars, part>>

Decode(step)   == part = "decode" /\ step /\ UNCHANGED <<chunkVars, part>>
Assemble(step) == part = "dechunk" /\ step /\ UNCHANGED <<vars, part>>

MCSpec ==
  /\ MCInit /\ [][MCNext]_all
  /\ WF_all(Decode(Reads)) /\ WF_all(Decode(Handle))
  /\ WF_all(Assemble(Dechunk!Checks)) /\ WF_all(Assemble(Dechunk!Handle))

(* Every stream is decoded (StreamDecoder).                                *)
StreamDecoded == <>(part = "decode" => fsm.sent = sent)

(* Every message is given to the customer (Dechunker).                     *)
MessagesGiven == <>(part = "dechunk" => \A m \in Small \cup Large : got[m] # <<>>)

(* No message is given twice (Dechunker).                                  *)
GivenOnce == Dechunk!GivenOnce
=============================================================================
