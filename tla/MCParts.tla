------------------------------ MODULE MCParts -------------------------------
(***************************************************************************)
(* Five small components, each by itself: the two functional containers    *)
(* (CheapQ, FplHashtable) in every sequence of operations, sessions over   *)
(* several stores (MultiCommit), the ephemeral services of a connection    *)
(* (LocalServices), and the start and the end of the Actors system         *)
(* (Startup).                                                              *)
(***************************************************************************)
EXTENDS MultiCommit

CONSTANTS
  Item, Nothing, MaxLen,
  Key, Val, NilValue, KeyRemoved, Absent, MaxLayers,
  s1, s2, w, X, Y,
  Lasting, Brief, Timed, a1, a2, Outgoing, Names, Ttl, MaxAnswers,
  Sender, Killer, Pool, Nobody

VARIABLES
  q, popped, ref, first,
  tbl, map,
  copies, timers, toList, out, fromPeer, answers, fresh,
  sendFn, boxes, at, busy, queue, custodian, task, execs, heard,
  part

queueVars   == <<q, popped, ref, first>>
tableVars   == <<tbl, map>>
serviceVars == <<copies, timers, toList, out, fromPeer, answers, fresh>>
startVars   == <<sendFn, boxes, at, busy, queue, custodian, task, execs, heard>>
all == <<vars, queueVars, tableVars, serviceVars, startVars, part>>

(* Sessions s1 and s2 need both stores, in either order of the ids they      *)
(* would give them; w updates one of the stores.                           *)
MCNeeds == [c \in Session \cup Writer |-> IF c = w THEN {X} ELSE {X, Y}]
MCUuid == [c \in Session |-> [s \in Store |->
           CASE c = s1 /\ s = X -> 1 [] c = s1 /\ s = Y -> 2
             [] c = s2 /\ s = X -> 4 [] OTHER -> 3]]

(* A message names a1 and a2.                                              *)
MCNames == <<{a1, a2}>>

Queue    == INSTANCE CheapQ
Table    == INSTANCE FplHashtable WITH Nil <- NilValue
Services == INSTANCE LocalServices WITH net <- fromPeer
System   == INSTANCE Startup WITH pc <- at

ASSUME PartsAssumption ==
  /\ Queue!ItemAssumption
  /\ Table!ValAssumption
  /\ Services!NamesAssumption
  /\ System!PoolAssumption

MCInit ==
  /\ Init /\ Queue!Init /\ Table!Init /\ Services!Init /\ System!Init
  /\ part \in {"queue", "table", "sessions", "services", "system"}
  /\ part # "sessions" => \A s \in Store : db[s].id = Uuid[s1][s]

InSession(step) ==
  /\ part = "sessions" /\ step
  /\ UNCHANGED <<queueVars, tableVars, serviceVars, startVars, part>>
Serving(step) ==
  /\ part = "services" /\ step
  /\ UNCHANGED <<vars, queueVars, tableVars, startVars, part>>

MCNext ==
  \/ /\ part = "queue" /\ Queue!Next
     /\ UNCHANGED <<vars, tableVars, serviceVars, startVars, part>>
  \/ /\ part = "table" /\ Table!Next
     /\ UNCHANGED <<vars, queueVars, serviceVars, startVars, part>>
  \/ /\ part = "sessions" /\ Next
     /\ UNCHANGED <<queueVars, tableVars, serviceVars, startVars, part>>
  \/ /\ part = "services" /\ Services!Next
     /\ UNCHANGED <<vars, queueVars, tableVars, startVars, part>>
  \/ /\ part = "system" /\ System!Next
     /\ UNCHANGED <<vars, queueVars, tableVars, serviceVars, part>>

MCSpec ==
  /\ MCInit /\ [][MCNext]_all
  /\ \A c \in Session \cup Writer :
       /\ WF_all(InSession(ClientStep(c)))
       /\ \A s \in Store : WF_all(InSession(GateStep(c, s)))
  /\ \A i \in Lasting \cup Brief \cup Timed :
       WF_all(Serving(Services!Deliver(i))) /\ WF_all(Serving(Services!Expire(i)))
  /\ WF_all(Serving(Services!Tick))

(* The queue behaves as a sequence (CheapQ).                               *)
StandsForSequence == Queue!StandsForSequence

(* The table behaves as a map (FplHashtable).                              *)
StandsForMap == Table!StandsForMap

(* An id in use finds its Actor (LocalServices).                           *)
KeptWhileUsed == Services!KeptWhileUsed

(* Ids out of use go (LocalServices).                                      *)
PurgedInTheEnd ==
  <>[](part = "services" => \A i \in Timed : copies[i] = 0)

(* The custodian at rest knows the threads that run (Startup).             *)
ThreadsListed == System!ThreadsListed
=============================================================================
