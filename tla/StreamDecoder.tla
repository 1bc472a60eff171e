---------------------------- MODULE StreamDecoder ---------------------------
(***************************************************************************)
(* The receiving end of a socket: the callback of the asynchronous reader  *)
(* numbers the packets that arrive and sends them to the stream decoder    *)
(* (network-connection-ss.lisp, RD-CALLBACK-FN), which hands them to the   *)
(* Actor around the state machine of module SelfSync, one at a time and in *)
(* the order of their numbers (self-sync-actors.lisp).  Between the Actors *)
(* messages may overtake one another (module Dispatcher).                  *)
(*                                                                         *)
(* The other end has written the records of the messages Sent.  The        *)
(* network cuts the stream into packets wherever it likes.                 *)
(***************************************************************************)
EXTENDS SelfSync

CONSTANTS
  Streams,    (* the sequences of messages the other end may have written  *)
  Sizes       (* bound: the sizes of packets, but for the last one         *)

(* Messages are bytes, and the checksum that WRITE-RECORD puts in front of *)
(* one has its length.                                                     *)
ASSUME StreamsAssumption ==
  /\ Sizes \subseteq Nat
  /\ \A str \in Streams :
       /\ str \in Seq(Seq(Nat))
       /\ \A i \in DOMAIN str :
            LET crc == Crc(<<Len(str[i])>> \o str[i])
            IN crc \in Seq(Nat) /\ Len(crc) = CrcLen

VARIABLES
  sent,       (* the messages the other end has written                    *)
  wire,       (* the bytes that have not been read yet                     *)
  ctr,        (* PACKET-CTR: the packets read so far                       *)
  delivers,   (* the :DELIVER messages under way, <<number, bytes>>        *)
  mode,       (* the behaviour of the decoder: "waiting", or "busy"        *)
  waitIx,     (* WAIT-IX: the packet to be decoded next                    *)
  queue,      (* packets that came too early                               *)
  atFsm,      (* the buffers sent to the FSM Actor                         *)
  next,       (* the number of :NEXT messages under way                    *)
  fsm         (* the state of the machine                                  *)

vars == <<sent, wire, ctr, delivers, mode, waitIx, queue, atFsm, next, fsm>>

Init ==
  /\ sent \in Streams
  /\ wire = FlattenSeq([i \in DOMAIN sent |-> Record(sent[i])])
  /\ ctr = 0
  /\ delivers = {}
  /\ mode = "waiting"
  /\ waitIx = 1
  /\ queue = {}
  /\ atFsm = {}
  /\ next = 0
  /\ fsm = FreshFSM

(* Mutant: packets are numbered from 0.                                    *)
ReadFromZero(n) ==
  /\ 0 < n /\ n <= Len(wire)
  /\ ctr' = ctr + 1
  /\ delivers' = delivers \cup {<<ctr, SubSeq(wire, 1, n)>>}
  /\ wire' = SubSeq(wire, n + 1, Len(wire))
  /\ UNCHANGED <<sent, mode, waitIx, queue, atFsm, next, fsm>>

(* RD-CALLBACK-FN with a packet of n bytes.                                *)
Read(n) ==
  /\ 0 < n /\ n <= Len(wire)
  /\ ctr' = ctr + 1
  /\ delivers' = delivers \cup {<<ctr + 1, SubSeq(wire, 1, n)>>}
  /\ wire' = SubSeq(wire, n + 1, Len(wire))
  /\ UNCHANGED <<sent, mode, waitIx, queue, atFsm, next, fsm>>

(* Mutant: the packet that arrives is taken, whatever its number.          *)
DeliverAny(d) ==
  /\ d \in delivers
  /\ delivers' = delivers \ {d}
  /\ \/ /\ mode = "waiting"
        /\ atFsm' = atFsm \cup {d}
        /\ mode' = "busy" /\ waitIx' = waitIx + 1
        /\ UNCHANGED queue
     \/ /\ mode = "busy"
        /\ queue' = queue \cup {d}
        /\ UNCHANGED <<mode, waitIx, atFsm>>
  /\ UNCHANGED <<sent, wire, ctr, next, fsm>>

(* :DELIVER.  The packet that is waited for goes to the FSM if that is     *)
(* free, any other is kept.                                                *)
Deliver(d) ==
  /\ d \in delivers
  /\ delivers' = delivers \ {d}
  /\ \/ /\ mode = "waiting" /\ d[1] = waitIx
        /\ atFsm' = atFsm \cup {d}
        /\ mode' = "busy" /\ waitIx' = waitIx + 1
        /\ UNCHANGED queue
     \/ /\ mode = "busy" \/ d[1] # waitIx
        /\ queue' = queue \cup {d}
        /\ UNCHANGED <<mode, waitIx, atFsm>>
  /\ UNCHANGED <<sent, wire, ctr, next, fsm>>

(* The FSM Actor: all bytes of the buffer, then :NEXT.  If it fails it has *)
(* sent nothing, not even the messages it found before in the buffer.      *)
Run(d) ==
  LET f == InhaleAll(fsm, d[2])
  IN /\ d \in atFsm
     /\ atFsm' = atFsm \ {d}
     /\ \/ /\ f.state # "error"
           /\ fsm' = f /\ next' = next + 1
        \/ /\ f.state = "error"
           /\ fsm' = [f EXCEPT !.sent = fsm.sent] /\ UNCHANGED next
     /\ UNCHANGED <<sent, wire, ctr, delivers, mode, waitIx, queue>>

(* Mutant: after a packet the decoder waits for the next to arrive.        *)
NextWaits ==
  /\ next > 0
  /\ next' = next - 1
  /\ mode' = "waiting"
  /\ UNCHANGED <<sent, wire, ctr, delivers, waitIx, queue, atFsm, fsm>>

(* :NEXT.  The packet that follows may have come already.                  *)
Next1 ==
  /\ next > 0
  /\ next' = next - 1
  /\ \/ \E d \in queue :
          /\ d[1] = waitIx
          /\ atFsm' = atFsm \cup {d}
          /\ queue' = queue \ {d} /\ waitIx' = waitIx + 1
          /\ UNCHANGED mode
     \/ /\ \A d \in queue : d[1] # waitIx
        /\ mode' = "waiting"
        /\ UNCHANGED <<waitIx, queue, atFsm>>
  /\ UNCHANGED <<sent, wire, ctr, delivers, fsm>>

(* At rest: all that was read is decoded, or the FSM has failed.           *)
Quiet ==
  /\ wire = <<>> /\ delivers = {} /\ atFsm = {} /\ next = 0
  /\ UNCHANGED vars

Handle == (\E d \in delivers : Deliver(d)) \/ (\E d \in atFsm : Run(d)) \/ Next1

Reads == \E n \in Sizes : Read(Min({n, Len(wire)}))

Next == Reads \/ Handle \/ Quiet

Spec == Init /\ [][Next]_vars

(* The socket is read, and every message is handled (EveryMessageHandled   *)
(* of Dispatcher).                                                         *)
FairSpec == Spec /\ WF_vars(Reads) /\ WF_vars(Handle)
-----------------------------------------------------------------------------
(* What is sent on are the messages that were written, in their order,     *)
(* each of them whole, however the stream was cut and jumbled.             *)
DecodedInOrder == IsPrefix(fsm.sent, sent)

(* In the end all of them: "no wait for an additional byte" (lines 161-164)*)
EverythingDecoded == <>(fsm.sent = sent)
=============================================================================
