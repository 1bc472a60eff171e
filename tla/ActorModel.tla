----------------------------- MODULE ActorModel -----------------------------
(***************************************************************************)
(* What the Actors system promises, with no thread, mailbox or retry in    *)
(* sight: a message that was sent is handled once, by one indivisible step *)
(* in which the behaviour of its Actor may advance (BECOME) and further    *)
(* messages come into being (SEND).  A message whose handling exits with   *)
(* an error leaves no trace but the reply its error handler asked for.     *)
(*                                                                         *)
(* The concurrent dispatcher of actors-mstr.lisp (module Dispatcher) is    *)
(* shown to implement this specification.                                  *)
(***************************************************************************)
EXTENDS Sequences

CONSTANTS
  Actor,      (* the Actors                                                *)
  Msg,        (* every message that may ever be sent, each one sent once   *)
  NoMsg,      (* the absence of a message                                  *)
  Root,       (* the messages sent from outside of any Actor               *)
  Target,     (* Target[m]: the Actor m is sent to                         *)
  Chains,     (* Chains[m]: what handling m may send, each a sequence      *)
  ErrReply    (* ErrReply[m]: the answer sent if handling m fails, or      *)
              (* NoMsg when its handler has no WITH-ERROR-RESPONSE         *)

VARIABLES
  pending,    (* messages sent and not handled yet                         *)
  finished,   (* messages whose handling is over                           *)
  beh         (* beh[a]: the messages whose BECOME made a what it is       *)

absVars == <<pending, finished, beh>>

Elements(s) == { s[i] : i \in DOMAIN s }

Init ==
  /\ pending  = {}
  /\ finished = {}
  /\ beh = [a \in Actor |-> <<>>]

Inject(m) ==
  /\ m \in Root \ (pending \cup finished)
  /\ pending' = pending \cup {m}
  /\ UNCHANGED <<finished, beh>>

Handle(m) ==
  /\ m \in pending
  /\ \E c \in Chains[m] : pending' = (pending \ {m}) \cup Elements(c)
  /\ finished' = finished \cup {m}
  /\ \/ UNCHANGED beh
     \/ beh' = [beh EXCEPT ![Target[m]] = Append(@, m)]

Fail(m) ==
  /\ m \in pending
  /\ \/ pending' = pending \ {m}
     \/ /\ ErrReply[m] # NoMsg
        /\ pending' = (pending \ {m}) \cup {ErrReply[m]}
  /\ finished' = finished \cup {m}
  /\ UNCHANGED beh

Next == \E m \in Msg : Inject(m) \/ Handle(m) \/ Fail(m)

Spec == Init /\ [][Next]_absVars
=============================================================================
