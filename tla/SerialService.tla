--------------------------- MODULE SerialService ----------------------------
(***************************************************************************)
(* What a SERIALIZER promises to its customers: requests are served one at *)
(* a time in the order in which they arrived, and each gets one answer.    *)
(* The detailed module Serializer is shown to implement this.              *)
(***************************************************************************)
EXTENDS Sequences

CONSTANTS
  Request,    (* the requests, each made once                              *)
  Ser,        (* the serializers                                           *)
  At,         (* At[q]: the serializer q is sent to                        *)
  Answer      (* the answers                                               *)

VARIABLES
  line,       (* line[s]: the requests s has and has not answered; the one *)
              (* being served comes first                                  *)
  inbox       (* inbox[q]: the answers sent to the customer of q           *)

Init ==
  /\ line  = [s \in Ser |-> <<>>]
  /\ inbox = [q \in Request |-> <<>>]

Waiting(q) == \E i \in DOMAIN line[At[q]] : line[At[q]][i] = q

Arrive(q) ==
  /\ ~Waiting(q) /\ inbox[q] = <<>>
  /\ line' = [line EXCEPT ![At[q]] = Append(@, q)]
  /\ UNCHANGED inbox

Serve(s) ==
  /\ line[s] # <<>>
  /\ \E a \in Answer : inbox' = [inbox EXCEPT ![Head(line[s])] = <<a>>]
  /\ line' = [line EXCEPT ![s] = Tail(@)]

Next == (\E q \in Request : Arrive(q)) \/ (\E s \in Ser : Serve(s))

Spec == Init /\ [][Next]_<<line, inbox>>
=============================================================================
