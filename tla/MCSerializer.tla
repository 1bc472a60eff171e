---------------------------- MODULE MCSerializer ----------------------------
(***************************************************************************)
(* Two resources behind serializers A and B.  Client a1 holds A while it   *)
(* uses B (request b1); a2 uses A only, b2 and b3 use B only.              *)
(***************************************************************************)
EXTENDS Serializer

CONSTANTS A, B, a1, a2, b1, b2, b3

MCAt == [q \in Request |-> IF q \in {a1, a2} THEN A ELSE B]

MCInner == [q \in Request |-> IF q = a1 THEN b1 ELSE NoReq]
=============================================================================
