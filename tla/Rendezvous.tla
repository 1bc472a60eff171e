----------------------------- MODULE Rendezvous -----------------------------
(***************************************************************************)
(* What synchronous channels promise: the offer of a message and the offer *)
(* to take one meet on their channel, each offer meets at most one other,  *)
(* and whoever synchronises is told once: the outcome of one of its offers *)
(* that met, or failure if it set a time limit.  Module SyncChan is shown  *)
(* to implement this.                                                      *)
(***************************************************************************)
CONSTANTS
  Offer,      (* the offers to send or to receive, each made once          *)
  Sync,       (* the calls of SYNC                                         *)
  ChanOf,     (* ChanOf[o]: the channel of the offer o                     *)
  Puts,       (* the offers to send; the others are offers to receive      *)
  Owner,      (* Owner[o]: the call of SYNC that makes the offer o         *)
  Limited,    (* the calls of SYNC that may be told of failure             *)
  Ok, Fail    (* the answers to a sender and to one that is told of failure*)

VARIABLES
  met,        (* the pairs <<put, get>> that have met                      *)
  told        (* told[s]: the answers given to the customer of s           *)

Init ==
  /\ met  = {}
  /\ told = [s \in Sync |-> <<>>]

Meet(p, g) ==
  /\ p \in Puts /\ g \notin Puts /\ ChanOf[p] = ChanOf[g]
  /\ \A m \in met : m[1] # p /\ m[2] # g
  /\ met' = met \cup {<<p, g>>}
  /\ UNCHANGED told

Tell(s, answer) ==
  /\ told[s] = <<>>
  /\ \/ \E m \in met : \/ Owner[m[1]] = s /\ answer = Ok
                       \/ Owner[m[2]] = s /\ answer = m[1]
     \/ s \in Limited /\ answer = Fail
  /\ told' = [told EXCEPT ![s] = <<answer>>]
  /\ UNCHANGED met

Next ==
  \/ \E p, g \in Offer : Meet(p, g)
  \/ \E s \in Sync, answer \in Puts \cup {Ok, Fail} : Tell(s, answer)

Spec == Init /\ [][Next]_<<met, told>>
=============================================================================
