----------------------------- MODULE AtomicMap ------------------------------
(***************************************************************************)
(* What the key-value store promises to its clients: each operation takes  *)
(* effect at one instant, on the whole map, and at most once.              *)
(* The transactions of module KVDB are shown to implement this, and, on    *)
(* several stores taken together, the sessions of module MultiCommit.      *)
(***************************************************************************)
CONSTANTS
  Client,     (* the clients, each with one operation to do                *)
  Pending,    (* the outcome of an operation that has not happened         *)
  Aborted,    (* the outcome of one that was given up                      *)
  Empty,      (* the map the store starts with                             *)
  Outcome(_, _),  (* Outcome(c, map): what c is told if it happens on map  *)
  Effect(_, _)    (* Effect(c, map): the map c leaves behind               *)

VARIABLES
  map,        (* the map                                                   *)
  outcome     (* outcome[c]: what c is told                                *)

Init ==
  /\ map = Empty
  /\ outcome = [c \in Client |-> Pending]

Happen(c) ==
  /\ outcome[c] = Pending
  /\ outcome' = [outcome EXCEPT ![c] = Outcome(c, map)]
  /\ map' = Effect(c, map)

(* A client that holds the store may let go without effect.                *)
GiveUp(c) ==
  /\ outcome[c] = Pending
  /\ outcome' = [outcome EXCEPT ![c] = Aborted]
  /\ UNCHANGED map

Next == \E c \in Client : Happen(c) \/ GiveUp(c)

Spec == Init /\ [][Next]_<<map, outcome>>
=============================================================================
