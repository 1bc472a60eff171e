----------------------------- MODULE Serializer -----------------------------
(***************************************************************************)
(* The SERIALIZER of actors-base/serializer.lisp: an Actor in front of a   *)
(* service that lets one request through at a time.  It hands the service  *)
(* a customer of its own making, a chain of Actors                         *)
(*                                                                         *)
(*   gate (ONCE) -> label (carries the customer) -> tag -> the serializer  *)
(*                                                                         *)
(* and takes the message that comes back through the tag as the permission *)
(* to go on.  The gate passes one message: an answer of the service or the *)
(* word of a timer, whichever is first (prim-actors.lisp, TIMED-SERVICE).  *)
(*                                                                         *)
(* Messages between Actors are handled one at a time, each once, in any    *)
(* order (module Dispatcher): NET is the set of messages under way.        *)
(* A service may make a request of its own to another serializer and wait  *)
(* for the answer; that is how several resources are held at once.         *)
(***************************************************************************)
EXTENDS Naturals, Sequences, FiniteSets

CONSTANTS
  Request,    (* the requests, each made once                              *)
  NoReq,      (* the absence of a request, or of a tag                     *)
  Ser,        (* the serializers                                           *)
  At,         (* At[q]: the serializer q is sent to                        *)
  Inner,      (* Inner[q]: the request the service of q makes, or NoReq    *)
  Timed,      (* the serializers that were given a timeout                 *)
  Faulty      (* the requests whose service may answer again, or never     *)

Answer == {"ok", "timed-out"}

Outer == { q \in Request : \A p \in Request : Inner[p] # q }

ASSUME RequestAssumption ==
  /\ NoReq \notin Request
  /\ At \in [Request -> Ser]
  /\ Inner \in [Request -> Request \cup {NoReq}]
  /\ \A p, q \in Request : Inner[p] = Inner[q] /\ p # q => Inner[p] = NoReq
  /\ Timed \subseteq Ser
  /\ Faulty \subseteq Request

VARIABLES
  net,        (* the messages under way                                    *)
  tag,        (* tag[s]: the tag of the busy period of s, NoReq if idle;   *)
              (* a tag is named after the request that opened its period   *)
  queue,      (* queue[s]: the requests that wait at s                     *)
  label,      (* label[q]: the tag the label Actor of q leads to           *)
  gate,       (* gate[q]: the state of the ONCE Actor in front of label    *)
  timer,      (* the requests whose timer runs                             *)
  work,       (* work[q]: how far the service is with q                    *)
  inbox       (* inbox[q]: the answers sent to the customer of q           *)

vars == <<net, tag, queue, label, gate, timer, work, inbox>>

Msg(kind, q)  == [kind |-> kind, req |-> q]
Arriving(q)   == Msg("arriving", q)         (* to the serializer At[q]     *)
Dispatched(q) == Msg("dispatched", q)       (* to the TIMED-SERVICE        *)
Calling(q)    == Msg("calling", q)          (* to the service              *)
ToGate(q, a)  == [kind |-> "to-gate", req |-> q, answer |-> a]
Tagged(q, a, g) == [kind |-> "tagged", req |-> q, answer |-> a, tag |-> g]

Init ==
  /\ net   = {}
  /\ tag   = [s \in Ser |-> NoReq]
  /\ queue = [s \in Ser |-> <<>>]
  /\ label = [q \in Request |-> NoReq]
  /\ gate  = [q \in Request |-> "none"]
  /\ timer = {}
  /\ work  = [q \in Request |-> "none"]
  /\ inbox = [q \in Request |-> <<>>]

Replace(m, ms) == net' = (net \ {m}) \cup ms
-----------------------------------------------------------------------------
(* A client sends a request of its own.                                    *)
Send(q) ==
  /\ q \in Outer
  /\ work[q] = "none" /\ Arriving(q) \notin net
  /\ work' = [work EXCEPT ![q] = "sent"]
  /\ net' = net \cup {Arriving(q)}
  /\ UNCHANGED <<tag, queue, label, gate, timer, inbox>>

(* What the serializer takes for a request: whatever did not come through  *)
(* the tag of the busy period, a stray answer included.                    *)
IsRequest(m) ==
  \/ m.kind = "arriving"
  \/ m.kind = "tagged" /\ m.tag # tag[At[m.req]]

(* SERIALIZER-BEH: flag it through and become busy, with a fresh tag.      *)
Accept(m) ==
  /\ m \in net /\ IsRequest(m)
  /\ tag[At[m.req]] = NoReq
  /\ tag' = [tag EXCEPT ![At[m.req]] = m.req]
  /\ label' = [label EXCEPT ![m.req] = m.req]
  /\ Replace(m, {Dispatched(m.req)})
  /\ UNCHANGED <<queue, gate, timer, work, inbox>>

(* Mutant: a busy serializer lets requests through.                        *)
LetThrough(m) ==
  /\ m \in net /\ IsRequest(m)
  /\ tag[At[m.req]] # NoReq
  /\ label' = [label EXCEPT ![m.req] = tag[At[m.req]]]
  /\ Replace(m, {Dispatched(m.req)})
  /\ UNCHANGED <<tag, queue, gate, timer, work, inbox>>

(* Mutant: the latest request overtakes those that wait (PUSHQ, not ADDQ). *)
EnqueueInFront(m) ==
  /\ m \in net /\ IsRequest(m)
  /\ tag[At[m.req]] # NoReq
  /\ queue' = [queue EXCEPT ![At[m.req]] = <<m.req>> \o @]
  /\ Replace(m, {})
  /\ UNCHANGED <<tag, label, gate, timer, work, inbox>>

(* BUSY-SERIALIZER-BEH, second clause.                                     *)
Enqueue(m) ==
  /\ m \in net /\ IsRequest(m)
  /\ tag[At[m.req]] # NoReq
  /\ queue' = [queue EXCEPT ![At[m.req]] = Append(@, m.req)]
  /\ Replace(m, {})
  /\ UNCHANGED <<tag, label, gate, timer, work, inbox>>

(* Mutant: back to idle, whoever waits.                                    *)
ReleaseToIdle(m) ==
  /\ m \in net /\ m.kind = "tagged" /\ m.tag = tag[At[m.req]]
  /\ inbox' = [inbox EXCEPT ![m.req] = Append(@, m.answer)]
  /\ tag' = [tag EXCEPT ![At[m.req]] = NoReq]
  /\ queue' = [queue EXCEPT ![At[m.req]] = <<>>]
  /\ Replace(m, {})
  /\ UNCHANGED <<label, gate, timer, work>>

(* BUSY-SERIALIZER-BEH, first clause: forward the answer; let the next     *)
(* request through, or become idle.                                        *)
Release(m) ==
  LET s == At[m.req]
  IN /\ m \in net /\ m.kind = "tagged" /\ m.tag = tag[s]
     /\ inbox' = [inbox EXCEPT ![m.req] = Append(@, m.answer)]
     /\ \/ /\ queue[s] = <<>>
           /\ tag' = [tag EXCEPT ![s] = NoReq]
           /\ Replace(m, {})
           /\ UNCHANGED <<queue, label>>
        \/ /\ queue[s] # <<>>
           /\ queue' = [queue EXCEPT ![s] = Tail(@)]
           /\ label' = [label EXCEPT ![Head(queue[s])] = tag[s]]
           /\ Replace(m, {Dispatched(Head(queue[s]))})
           /\ UNCHANGED tag
     /\ UNCHANGED <<gate, timer, work>>

(* TIMED-SERVICE: make the gate, start its timer, call the service.        *)
TimedService(q) ==
  /\ Dispatched(q) \in net
  /\ gate' = [gate EXCEPT ![q] = "open"]
  /\ timer' = IF At[q] \in Timed THEN timer \cup {q} ELSE timer
  /\ Replace(Dispatched(q), {Calling(q)})
  /\ UNCHANGED <<tag, queue, label, work, inbox>>

TimerFires(q) ==
  /\ q \in timer
  /\ timer' = timer \ {q}
  /\ net' = net \cup {ToGate(q, "timed-out")}
  /\ UNCHANGED <<tag, queue, label, gate, work, inbox>>

(* Mutant: a gate that does not become a SINK.                             *)
PassAll(q, a) ==
  /\ ToGate(q, a) \in net
  /\ Replace(ToGate(q, a), {Tagged(q, a, label[q])})
  /\ UNCHANGED <<tag, queue, label, gate, timer, work, inbox>>

(* ONCE-BEH, and the label and tag behind it.                              *)
Pass(q, a) ==
  /\ ToGate(q, a) \in net
  /\ \/ /\ gate[q] = "open"
        /\ gate' = [gate EXCEPT ![q] = "shut"]
        /\ Replace(ToGate(q, a), {Tagged(q, a, label[q])})
     \/ /\ gate[q] # "open"
        /\ Replace(ToGate(q, a), {})
        /\ UNCHANGED gate
  /\ UNCHANGED <<tag, queue, label, timer, work, inbox>>

-----------------------------------------------------------------------------
(* The service.  It gets to work on q, asking another serializer perhaps.  *)
Begin(q) ==
  /\ Calling(q) \in net
  /\ Replace(Calling(q), IF Inner[q] = NoReq THEN {} ELSE {Arriving(Inner[q])})
  /\ work' = [work EXCEPT ![q] = "busy"]
  /\ UNCHANGED <<tag, queue, label, gate, timer, inbox>>

(* It answers, and if it is faulty it may do so again later.               *)
Reply(q) ==
  /\ work[q] \in {"busy", "again"}
  /\ Inner[q] # NoReq => inbox[Inner[q]] # <<>>
  /\ net' = net \cup {ToGate(q, "ok")}
  /\ \/ work' = [work EXCEPT ![q] = "done"]
     \/ q \in Faulty /\ work' = [work EXCEPT ![q] = "again"]
  /\ UNCHANGED <<tag, queue, label, gate, timer, inbox>>

(* At rest: nothing is under way and every request has its answer.         *)
Quiet ==
  /\ net = {} /\ timer = {}
  /\ \A q \in Request : inbox[q] # <<>> /\ work[q] = "done"
  /\ UNCHANGED vars

(* A message about q is handled by its serializer.                         *)
AtSerializer(q) ==
  \E m \in net : m.req = q /\ (Accept(m) \/ Enqueue(m) \/ Release(m))

Next ==
  \/ \E q \in Request :
       \/ Send(q) \/ TimedService(q) \/ TimerFires(q) \/ Begin(q) \/ Reply(q)
       \/ \E a \in Answer : Pass(q, a)
       \/ AtSerializer(q)
  \/ Quiet

Spec == Init /\ [][Next]_vars

(* Every message is handled (EveryMessageHandled of Dispatcher), timers go *)
(* off, and services answer unless they are faulty.                        *)
FairSpec ==
  /\ Spec
  /\ \A q \in Request :
       /\ WF_vars(TimedService(q)) /\ WF_vars(TimerFires(q))
       /\ WF_vars(Begin(q)) /\ (q \notin Faulty => WF_vars(Reply(q)))
       /\ WF_vars(\E a \in Answer : Pass(q, a))
       /\ WF_vars(AtSerializer(q))
-----------------------------------------------------------------------------
(* The requests that were let through at s and are not answered yet.       *)
Through(s) ==
  { q \in Request :
      /\ At[q] = s
      /\ \/ Dispatched(q) \in net
         \/ gate[q] = "open"
         \/ \E m \in net : m.kind = "tagged" /\ m.req = q }

(* One request at a time is beyond the serializer, and an idle serializer  *)
(* has none: late and repeated answers of the service do not open it       *)
(* (serializer.lisp:182-214 with the gate of prim-actors.lisp:19-37).      *)
OneAtATime ==
  \A s \in Ser :
    IF tag[s] = NoReq THEN Through(s) = {} /\ queue[s] = <<>>
                      ELSE \E q \in Request : Through(s) = {q}

(* What comes through a tag comes in the busy period of that tag, so that  *)
(* the serializer never takes an answer for a request.                     *)
NoStrayAnswer ==
  \A m \in net : m.kind = "tagged" => m.tag = tag[At[m.req]]

(* "You are the only one running inside that Actor body", until the answer *)
(* is sent (serializer.lisp:76-79, 153-155).                               *)
SoleInstance ==
  \A p, q \in Request : At[p] = At[q] /\ work[p] = "busy" /\ work[q] = "busy" => p = q

(* First come, first served, and one answer each.                          *)
Line(s) ==
  IF Through(s) = {} THEN queue[s]
                     ELSE <<CHOOSE q \in Through(s) : TRUE>> \o queue[s]

Abstract == INSTANCE SerialService WITH line <- [s \in Ser |-> Line(s)]
ServedInTurn == Abstract!Spec

(* Every request is answered, if services answer or timeouts are set and   *)
(* nested requests are made in one order (serializer.lisp:104-143).        *)
EveryRequestAnswered ==
  \A q \in Request : Arriving(q) \in net ~> inbox[q] # <<>>
=============================================================================
