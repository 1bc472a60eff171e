------------------------------- MODULE CheapQ -------------------------------
(***************************************************************************)
(* The functional queue of actors-base/cheapq.lisp: a front list and a     *)
(* rear list in reverse.  It carries the waiting requests of serializers   *)
(* and the stash of the key-value store's gate.  NIL, a queue without      *)
(* cells, reads as the queue of two empty lists.                           *)
(***************************************************************************)
EXTENDS Naturals, Sequences, SequencesExt

CONSTANTS
  Item,       (* what is queued                                            *)
  Nothing,    (* no item                                                   *)
  MaxLen      (* bound: the items in the queue                             *)

(* MCParts assumes this of the instance.                                   *)
ItemAssumption == Nothing \notin Item /\ MaxLen \in Nat

Nil == [hd |-> <<>>, tl |-> <<>>]

EmptyQ(q) == q.hd = <<>>

(* Mutant: the rear list is taken over as it is.                           *)
NormQUnreversed(q) ==
  IF q.hd # <<>> THEN q ELSE [hd |-> q.tl, tl |-> <<>>]

(* A front list that is not empty, unless the queue is.                    *)
NormQ(q) ==
  IF q.hd # <<>> THEN q ELSE [hd |-> Reverse(q.tl), tl |-> <<>>]

AddQ(q, item)  == NormQ([hd |-> q.hd, tl |-> <<item>> \o q.tl])
PushQ(q, item) == [hd |-> <<item>> \o q.hd, tl |-> q.tl]

(* Mutant: what is left is not normalised.                                 *)
RestQRaw(q) == [hd |-> Tail(q.hd), tl |-> q.tl]

RestQ(q) == NormQ([hd |-> Tail(q.hd), tl |-> q.tl])

(* POPQ returns the first item and the rest; nothing from an empty queue.  *)
PopQ(q) ==
  IF EmptyQ(q) THEN [item |-> Nothing, rest |-> Nil]
               ELSE [item |-> Head(q.hd), rest |-> RestQ(q)]
-----------------------------------------------------------------------------
(* The queue in use, next to the sequence it stands for.                   *)
VARIABLES q, popped, ref, first

vars == <<q, popped, ref, first>>

Init == q = Nil /\ popped = Nothing /\ ref = <<>> /\ first = Nothing

Add(x) ==
  /\ Len(ref) < MaxLen
  /\ q' = AddQ(q, x)
  /\ ref' = Append(ref, x)
  /\ UNCHANGED <<popped, first>>

Push(x) ==
  /\ Len(ref) < MaxLen
  /\ q' = PushQ(q, x)
  /\ ref' = <<x>> \o ref
  /\ UNCHANGED <<popped, first>>

Pop ==
  /\ popped' = PopQ(q).item
  /\ q' = PopQ(q).rest
  /\ first' = IF ref = <<>> THEN Nothing ELSE Head(ref)
  /\ ref' = IF ref = <<>> THEN <<>> ELSE Tail(ref)

Next == (\E x \in Item : Add(x) \/ Push(x)) \/ Pop

Spec == Init /\ [][Next]_vars

(* The front and rear lists stand for the sequence of what was added,      *)
(* pushed and not popped, in that order; a queue with items never looks    *)
(* empty, so that a serializer which finds its queue empty strands nobody; *)
(* and POPQ returns the first item (cheapq.lisp:36-60).                    *)
StandsForSequence ==
  /\ q.hd \o Reverse(q.tl) = ref
  /\ EmptyQ(q) <=> ref = <<>>
  /\ popped = first
=============================================================================
