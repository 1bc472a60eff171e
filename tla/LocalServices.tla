---------------------------- MODULE LocalServices ---------------------------
(***************************************************************************)
(* The local services of a connection (secure-channel/secure-bridging).    *)
(*                                                                         *)
(* Actors named in a message that goes out to the peer are replaced by     *)
(* ids, under which they are listed for a while as ephemeral services;     *)
(* what the peer sends to an id is given to its Actor.  An id is listed    *)
(* once more for each use, and each copy has a timer that removes one.     *)
(*                                                                         *)
(* Copies of an id are all alike, so that they are counted.  Time is what  *)
(* the timers have left; their messages may be handled late.               *)
(***************************************************************************)
EXTENDS Naturals, Sequences

CONSTANTS
  Lasting,    (* services for good (:ADD-SERVICE)                          *)
  Brief,      (* ephemeral services without a time to live                 *)
  Timed,      (* ephemeral services with one                               *)
  Outgoing,   (* messages to the peer                                      *)
  Names,      (* Names[o]: the Actors that message o names, all of Timed   *)
  Ttl,        (* the time to live                                          *)
  MaxAnswers  (* bound: how many messages the peer sends to one id         *)

Id == Lasting \cup Brief \cup Timed

(* MCParts assumes this of the instance.                                  *)
NamesAssumption ==
  /\ Names \in [Outgoing -> SUBSET Timed]
  /\ Lasting \cap Brief = {} /\ (Lasting \cup Brief) \cap Timed = {}
  /\ Ttl \in Nat \ {0} /\ MaxAnswers \in Nat

VARIABLES
  copies,     (* copies[i]: how often id i is on the list                  *)
  timers,     (* timers[i]: the time left until each removal of i, oldest  *)
              (* first                                                     *)
  toList,     (* toList[o]: the Actors of o that are still to be listed    *)
  out,        (* the messages that have gone out, or began to              *)
  net,        (* net[i]: how many messages from the peer are under way to i*)
  answers,    (* answers[i]: how many there have been                      *)
  fresh       (* fresh[i]: the time left since i was listed or used last   *)

vars == <<copies, timers, toList, out, net, answers, fresh>>

(* :ADD-SERVICE and :ADD-EPHEMERAL-CLIENT of those that no message names.  *)
Named == UNION { Names[o] : o \in Outgoing }

Init ==
  /\ copies = [i \in Id |-> IF i \in Named THEN 0 ELSE 1]
  /\ timers = [i \in Id |-> IF i \in Timed \ Named THEN <<Ttl>> ELSE <<>>]
  /\ toList = Names
  /\ out = {}
  /\ net = [i \in Id |-> 0]
  /\ answers = [i \in Id |-> 0]
  /\ fresh = [i \in Id |-> IF i \in Timed \ Named THEN Ttl ELSE 0]

(* One more copy, and a timer for it.                                      *)
List(i) ==
  /\ copies' = [copies EXCEPT ![i] = @ + 1]
  /\ timers' = [timers EXCEPT ![i] = Append(@, Ttl)]
  /\ fresh' = [fresh EXCEPT ![i] = Ttl]

(* CLIENT-MARSHAL-ENCODER: the Actors are listed one after the other...    *)
ListNext(o, i) ==
  /\ i \in toList[o]
  /\ toList' = [toList EXCEPT ![o] = @ \ {i}]
  /\ List(i)
  /\ UNCHANGED <<out, net, answers>>

(* ... and then the message goes out.                                      *)
GoOut(o) ==
  /\ toList[o] = {} /\ o \notin out
  /\ out' = out \cup {o}
  /\ UNCHANGED <<copies, timers, toList, net, answers, fresh>>

(* The peer sends to an id it knows.                                       *)
PeerSends(i) ==
  /\ i \in Named => \E o \in out : i \in Names[o]
  /\ answers[i] < MaxAnswers
  /\ answers' = [answers EXCEPT ![i] = @ + 1]
  /\ net' = [net EXCEPT ![i] = @ + 1]
  /\ UNCHANGED <<copies, timers, toList, out, fresh>>

(* Mutant: no further copy for the further timer.                          *)
ProlongTimer(i) ==
  /\ copies' = copies
  /\ timers' = [timers EXCEPT ![i] = Append(@, Ttl)]
  /\ fresh' = [fresh EXCEPT ![i] = Ttl]

(* Mutant: no further timer for the further copy.                          *)
ProlongCopy(i) ==
  /\ copies' = [copies EXCEPT ![i] = @ + 1]
  /\ fresh' = [fresh EXCEPT ![i] = Ttl]
  /\ UNCHANGED timers

(* What a use does to the list: "keep it alive a bit longer".              *)
Prolong(i) == List(i)

(* A message for i: to its Actor, or dropped if i is not listed.           *)
Deliver(i) ==
  /\ net[i] > 0
  /\ net' = [net EXCEPT ![i] = @ - 1]
  /\ \/ /\ i \in Timed /\ copies[i] > 0
        /\ Prolong(i)
     \/ /\ i \in Brief /\ copies[i] > 0
        /\ copies' = [copies EXCEPT ![i] = @ - 1]
        /\ UNCHANGED <<timers, fresh>>
     \/ /\ i \in Lasting \/ copies[i] = 0
        /\ UNCHANGED <<copies, timers, fresh>>
  /\ UNCHANGED <<toList, out, answers>>

(* :REMOVE-SERVICE of a timer removes one copy, if there is one.           *)
Expire(i) ==
  /\ timers[i] # <<>> /\ Head(timers[i]) = 0
  /\ timers' = [timers EXCEPT ![i] = Tail(@)]
  /\ copies' = [copies EXCEPT ![i] = IF @ = 0 THEN 0 ELSE @ - 1]
  /\ UNCHANGED <<toList, out, net, answers, fresh>>

Less(t) == IF t = 0 THEN 0 ELSE t - 1

Tick ==
  /\ \E i \in Id : fresh[i] > 0 \/ \E k \in DOMAIN timers[i] : timers[i][k] > 0
  /\ timers' = [i \in Id |-> [k \in DOMAIN timers[i] |-> Less(timers[i][k])]]
  /\ fresh' = [i \in Id |-> Less(fresh[i])]
  /\ UNCHANGED <<copies, toList, out, net, answers>>

Next ==
  \/ \E o \in Outgoing : GoOut(o) \/ \E i \in Timed : ListNext(o, i)
  \/ \E i \in Id : PeerSends(i) \/ Deliver(i) \/ Expire(i)
  \/ Tick

Spec == Init /\ [][Next]_vars

(* Timers go off, time passes, and messages are handled; the peer need not *)
(* answer.                                                                 *)
FairSpec ==
  /\ Spec
  /\ \A i \in Id : WF_vars(Deliver(i)) /\ WF_vars(Expire(i))
  /\ WF_vars(Tick)
-----------------------------------------------------------------------------
(* A service finds its Actor for the time to live after it was listed, and *)
(* again after each use, whatever removals of earlier uses are under way   *)
(* (secure-bridging.lisp:319-327).                                         *)
KeptWhileUsed == \A i \in Timed : fresh[i] > 0 => copies[i] > 0

(* "Given a time-to-live, after which they become purged", once the peer   *)
(* is silent (secure-bridging.lisp:231-234).                               *)
PurgedInTheEnd == <>[](\A i \in Timed : copies[i] = 0)
=============================================================================
