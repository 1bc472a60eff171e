-------------------------- MODULE SerializerProofs --------------------------
(***************************************************************************)
(* For any number of serializers and of requests, nested in any way, with  *)
(* and without timeouts, and for services that answer once, late, twice or *)
(* never: a serializer lets requests through one at a time, takes no stray *)
(* answer for a request, and implements SerialService.                     *)
(***************************************************************************)
EXTENDS Serializer, TLAPS

Message ==
  [kind : {"arriving", "dispatched", "calling"}, req : Request]
    \cup [kind : {"to-gate"}, req : Request, answer : Answer]
    \cup [kind : {"tagged"}, req : Request, answer : Answer, tag : Request]

Types ==
  /\ net \subseteq Message
  /\ tag \in [Ser -> Request \cup {NoReq}]
  /\ queue \in [Ser -> Seq(Request)]
  /\ label \in [Request -> Request \cup {NoReq}]
  /\ gate \in [Request -> {"none", "open", "shut"}]
  /\ timer \subseteq Request
  /\ work \in [Request -> {"none", "sent", "busy", "again", "done"}]
  /\ inbox \in [Request -> Seq(Answer)]

(* Where a request may be: on its way to the serializer, in its queue, on  *)
(* the way to the service or back.                                         *)
Coming(q)   == Arriving(q) \in net
Queued(q)   == \E i \in 1..Len(queue[At[q]]) : queue[At[q]][i] = q
Going(q)    == Dispatched(q) \in net
AtGate(q)   == \E a \in Answer : ToGate(q, a) \in net
Returning(q) == \E a \in Answer, g \in Request : Tagged(q, a, g) \in net
Beyond(q)   == Going(q) \/ gate[q] = "open" \/ Returning(q)

(* Nobody has made the request yet.                                        *)
Early == {"none", "sent"}
Unsent(q) ==
  IF q \in Outer THEN work[q] = "none"
                 ELSE \A p \in Request : Inner[p] = q => work[p] \in Early

(* A request is in one place, and things happen to it in one order.        *)
PlaceAt(q) ==
  /\ Unsent(q) => ~Coming(q) /\ ~Queued(q) /\ ~Going(q) /\ gate[q] = "none" /\ inbox[q] = <<>>
  /\ Coming(q) => ~Queued(q)
  /\ Coming(q) \/ Queued(q) => ~Going(q)
  /\ Coming(q) \/ Queued(q) \/ Going(q) => gate[q] = "none"
  /\ Calling(q) \in net \/ AtGate(q) \/ q \in timer => gate[q] # "none"
  /\ gate[q] = "none" \/ Calling(q) \in net => work[q] \in Early
  /\ Returning(q) => gate[q] = "shut"
  /\ Coming(q) \/ Queued(q) \/ Beyond(q) => inbox[q] = <<>>

(* The queue of a serializer holds its requests, each once.                *)
LineUpAt(s) ==
  \A i, j \in 1..Len(queue[s]) :
    At[queue[s][i]] = s /\ (queue[s][i] = queue[s][j] => i = j)

(* The label of a request that is through leads to the tag of the present  *)
(* period, and so do the answers on their way; there is but one of them.   *)
LabelledAt(q) ==
  /\ Going(q) \/ gate[q] = "open" => label[q] = tag[At[q]]
  /\ \A a \in Answer, g \in Request : Tagged(q, a, g) \in net => g = tag[At[q]]
  /\ \A a, b \in Answer, g, h \in Request :
       Tagged(q, a, g) \in net /\ Tagged(q, b, h) \in net => a = b

(* The one request that is through.                                        *)
SoleAt(s) ==
  /\ \A p, q \in Request : At[p] = s /\ At[q] = s /\ Beyond(p) /\ Beyond(q) => p = q
  /\ tag[s] # NoReq <=> \E q \in Request : At[q] = s /\ Beyond(q)
  /\ tag[s] = NoReq => queue[s] = <<>>

Place    == \A q \in Request : PlaceAt(q)
LineUp   == \A s \in Ser : LineUpAt(s)
Labelled == \A q \in Request : LabelledAt(q)
Sole     == \A s \in Ser : SoleAt(s)

IInv == Types /\ Place /\ LineUp /\ Labelled /\ Sole

(* Nobody joins or leaves a line, and nobody is answered.                  *)
Same ==
  /\ queue' = queue /\ inbox' = inbox
  /\ \A p \in Request : Beyond(p)' <=> Beyond(p)

-----------------------------------------------------------------------------
(* Messages of different kinds, or about different things, differ.         *)
LEMMA Differ ==
  /\ \A p, q : /\ Arriving(p) = Arriving(q) <=> p = q
               /\ Dispatched(p) = Dispatched(q) <=> p = q
               /\ Calling(p) = Calling(q) <=> p = q
               /\ Arriving(p) # Dispatched(q)
               /\ Arriving(p) # Calling(q)
               /\ Dispatched(p) # Calling(q)
  /\ \A p, q, a : /\ ToGate(p, a) # Arriving(q)
                  /\ ToGate(p, a) # Dispatched(q)
                  /\ ToGate(p, a) # Calling(q)
  /\ \A p, q, a, b : ToGate(p, a) = ToGate(q, b) <=> p = q /\ a = b
  /\ \A p, q, a, g : /\ Tagged(p, a, g) # Arriving(q)
                     /\ Tagged(p, a, g) # Dispatched(q)
                     /\ Tagged(p, a, g) # Calling(q)
  /\ \A p, q, a, b, g : Tagged(p, a, g) # ToGate(q, b)
  /\ \A p, q, a, b, g, h :
       Tagged(p, a, g) = Tagged(q, b, h) <=> p = q /\ a = b /\ g = h
<1>1. \A p, q : Arriving(p) = Arriving(q) <=> p = q
  <2> TAKE p, q
  <2>1. Arriving(p).req = p /\ Arriving(q).req = q
    BY DEF Arriving, Msg
  <2> QED BY <2>1
<1>2. \A p, q : Dispatched(p) = Dispatched(q) <=> p = q
  <2> TAKE p, q
  <2>1. Dispatched(p).req = p /\ Dispatched(q).req = q
    BY DEF Dispatched, Msg
  <2> QED BY <2>1
<1>3. \A p, q : Calling(p) = Calling(q) <=> p = q
  <2> TAKE p, q
  <2>1. Calling(p).req = p /\ Calling(q).req = q
    BY DEF Calling, Msg
  <2> QED BY <2>1
<1>4. \A p : /\ Arriving(p).kind = "arriving" /\ Dispatched(p).kind = "dispatched"
             /\ Calling(p).kind = "calling"
  BY DEF Arriving, Dispatched, Calling, Msg
<1>5. \A p, a : ToGate(p, a).kind = "to-gate" /\ ToGate(p, a).req = p /\ ToGate(p, a).answer = a
  BY DEF ToGate
<1>6. \A p, a, g : /\ Tagged(p, a, g).kind = "tagged" /\ Tagged(p, a, g).req = p
                   /\ Tagged(p, a, g).answer = a /\ Tagged(p, a, g).tag = g
  BY DEF Tagged
<1>7. \A p, q : /\ Arriving(p) # Dispatched(q) /\ Arriving(p) # Calling(q)
                /\ Dispatched(p) # Calling(q)
  BY <1>4
<1>8. \A p, q, a : /\ ToGate(p, a) # Arriving(q) /\ ToGate(p, a) # Dispatched(q)
                   /\ ToGate(p, a) # Calling(q)
  BY <1>4, <1>5
<1>9. \A p, q, a, b : ToGate(p, a) = ToGate(q, b) <=> p = q /\ a = b
  <2> TAKE p, q, a, b
  <2> QED BY <1>5
<1>10. \A p, q, a, g : /\ Tagged(p, a, g) # Arriving(q) /\ Tagged(p, a, g) # Dispatched(q)
                       /\ Tagged(p, a, g) # Calling(q)
  BY <1>4, <1>6
<1>11. \A p, q, a, b, g : Tagged(p, a, g) # ToGate(q, b)
  BY <1>5, <1>6
<1>12. \A p, q, a, b, g, h :
       Tagged(p, a, g) = Tagged(q, b, h) <=> p = q /\ a = b /\ g = h
  <2> TAKE p, q, a, b, g, h
  <2> QED BY <1>6
<1> QED BY <1>1, <1>2, <1>3, <1>7, <1>8, <1>9, <1>10, <1>11, <1>12

(* A message of each kind is made as the constructors make it.             *)
LEMMA Forms ==
  /\ \A m \in Message : m.kind = "arriving" => m.req \in Request /\ m = Arriving(m.req)
  /\ \A m \in Message : m.kind = "tagged" =>
       /\ m.req \in Request /\ m.answer \in Answer /\ m.tag \in Request
       /\ m = Tagged(m.req, m.answer, m.tag)
BY DEF Message, Arriving, Tagged, Msg

LEMMA Made ==
  /\ \A q \in Request : /\ Arriving(q) \in Message /\ Dispatched(q) \in Message
                         /\ Calling(q) \in Message
  /\ \A q \in Request, a \in Answer : ToGate(q, a) \in Message
  /\ \A q \in Request, a \in Answer, g \in Request : Tagged(q, a, g) \in Message
BY DEF Message, Arriving, Dispatched, Calling, ToGate, Tagged, Msg

(* Where requests go, and what they ask.                                   *)
LEMMA Requests ==
  /\ NoReq \notin Request
  /\ \A q \in Request : At[q] \in Ser /\ Inner[q] \in Request \cup {NoReq}
  /\ \A p, q \in Request : Inner[p] = Inner[q] /\ p # q => Inner[p] = NoReq
BY RequestAssumption

(* Initially nothing has been sent.                                        *)
LEMMA InitIInv == Init => IInv
<1> SUFFICES ASSUME Init PROVE IInv
  OBVIOUS
<1>1. Types
  BY DEF Init, Types
<1>2. Place
  BY Requests DEF Init, Place, PlaceAt, Coming, Queued, Going, AtGate, Returning, Beyond, Unsent, Early
<1>3. LineUp
  BY DEF Init, LineUp, LineUpAt
<1>4. Labelled
  BY DEF Init, Labelled, LabelledAt, Going
<1>5. Sole
  BY DEF Init, Sole, SoleAt, Beyond, Going, Returning
<1> QED BY <1>1, <1>2, <1>3, <1>4, <1>5 DEF IInv

LEMMA SendKeeps ==
  ASSUME IInv, NEW q \in Request, Send(q)
  PROVE  IInv' /\ Same
<1> USE DEF IInv
<1>1. /\ work[q] = "none" /\ q \in Outer /\ work' = [work EXCEPT ![q] = "sent"]
      /\ net' = net \cup {Arriving(q)}
      /\ UNCHANGED <<tag, queue, label, gate, timer, inbox>>
  BY DEF Send
<1>2. /\ \A p : Coming(p)' <=> Coming(p) \/ p = q
      /\ \A p : Going(p)' <=> Going(p)
      /\ \A p : Calling(p) \in net' <=> Calling(p) \in net
      /\ \A p : AtGate(p)' <=> AtGate(p)
      /\ \A p, a, g : Tagged(p, a, g) \in net' <=> Tagged(p, a, g) \in net
  BY <1>1, Differ DEF Coming, Going, AtGate
<1>3. /\ \A p : Returning(p)' <=> Returning(p)
      /\ \A p : Beyond(p)' <=> Beyond(p)
      /\ \A p : Queued(p)' <=> Queued(p)
  BY <1>1, <1>2 DEF Returning, Beyond, Queued
<1>4. Types'
  BY <1>1, Made DEF Types
<1>5. Place'
  <2> SUFFICES ASSUME NEW p \in Request PROVE PlaceAt(p)'
    BY DEF Place
  <2>1. PlaceAt(p) /\ PlaceAt(q)
    BY DEF Place
  <2>2. Unsent(p)' => Unsent(p) /\ p # q
    BY <1>1 DEF Unsent, Types, Early
  <2>3. work'[p] \in Early <=> work[p] \in Early
    BY <1>1 DEF Types, Early
  <2>4. Unsent(q)
    BY <1>1 DEF Unsent
  <2> QED BY <1>1, <1>2, <1>3, <2>1, <2>2, <2>3, <2>4 DEF PlaceAt
<1>6. LineUp'
  BY <1>1 DEF LineUp, LineUpAt
<1>7. Labelled'
  BY <1>1, <1>2 DEF Labelled, LabelledAt
<1>8. Sole'
  BY <1>1, <1>3 DEF Sole, SoleAt
<1> QED BY <1>1, <1>3, <1>4, <1>5, <1>6, <1>7, <1>8 DEF Same

(* What the serializer takes for a request is one.                         *)
LEMMA Proper ==
  ASSUME IInv, NEW m \in net, IsRequest(m)
  PROVE  m.req \in Request /\ m = Arriving(m.req) /\ Coming(m.req)
<1>1. m \in Message
  BY DEF IInv, Types
<1>2. CASE m.kind = "arriving"
  BY <1>1, <1>2, Forms DEF Coming
<1>3. CASE m.kind = "tagged" /\ m.tag # tag[At[m.req]]
  <2>1. /\ m.req \in Request /\ m.answer \in Answer /\ m.tag \in Request
        /\ Tagged(m.req, m.answer, m.tag) \in net
    BY <1>1, <1>3, Forms
  <2>2. m.tag = tag[At[m.req]]
    BY <2>1 DEF IInv, Labelled, LabelledAt
  <2> QED BY <1>3, <2>2
<1> QED BY <1>2, <1>3 DEF IsRequest

LEMMA AcceptKeeps ==
  ASSUME IInv, NEW m \in net, Accept(m)
  PROVE  IInv' /\ UNCHANGED <<queue, inbox>>
         /\ \A p \in Request : Beyond(p)' <=> Beyond(p) \/ p = m.req
<1> USE DEF IInv
<1> DEFINE q == m.req  s == At[q]
<1>0. IsRequest(m)
  BY DEF Accept
<1>1. q \in Request /\ s \in Ser /\ m = Arriving(q) /\ Coming(q)
  BY <1>0, Proper, Requests
<1>2. /\ tag[s] = NoReq /\ tag' = [tag EXCEPT ![s] = q] /\ label' = [label EXCEPT ![q] = q]
      /\ net' = (net \ {Arriving(q)}) \cup {Dispatched(q)}
      /\ UNCHANGED <<queue, gate, timer, work, inbox>>
  BY <1>1 DEF Accept, Replace
<1> HIDE DEF q, s
<1>3. /\ \A p : Coming(p)' <=> Coming(p) /\ p # q
      /\ \A p : Going(p)' <=> Going(p) \/ p = q
      /\ \A p : Calling(p) \in net' <=> Calling(p) \in net
      /\ \A p : AtGate(p)' <=> AtGate(p)
      /\ \A p, a, g : Tagged(p, a, g) \in net' <=> Tagged(p, a, g) \in net
  BY <1>2, Differ DEF Coming, Going, AtGate
<1>4. /\ \A p : Returning(p)' <=> Returning(p)
      /\ \A p : Beyond(p)' <=> Beyond(p) \/ p = q
      /\ \A p : Queued(p)' <=> Queued(p)
      /\ \A p : Unsent(p)' <=> Unsent(p)
  BY <1>2, <1>3 DEF Returning, Beyond, Queued, Unsent
<1>5. \A p \in Request : At[p] = s => ~Beyond(p)
  BY <1>1, <1>2 DEF Sole, SoleAt
<1>5a. s = At[q]
  BY DEF s
<1>6. Types'
  BY <1>1, <1>2, Made DEF Types
<1>7. Place'
  <2> SUFFICES ASSUME NEW p \in Request PROVE PlaceAt(p)'
    BY DEF Place
  <2>1. PlaceAt(p)
    BY DEF Place
  <2> QED BY <1>1, <1>2, <1>3, <1>4, <2>1 DEF PlaceAt
<1>8. LineUp'
  BY <1>2 DEF LineUp, LineUpAt
<1>9. Labelled'
  <2> SUFFICES ASSUME NEW p \in Request PROVE LabelledAt(p)'
    BY DEF Labelled
  <2>1. LabelledAt(p)
    BY DEF Labelled
  <2>2. label'[q] = q /\ tag'[s] = q
    BY <1>1, <1>2 DEF Types
  <2>3. CASE At[p] = s
    <3>1. ~Going(p) /\ gate[p] # "open" /\ ~Returning(p)
      BY <1>5, <2>3 DEF Beyond
    <3> QED BY <1>2, <1>3, <1>5a, <2>2, <2>3, <3>1 DEF LabelledAt, Returning
  <2>4. CASE At[p] # s
    <3>1. tag'[At[p]] = tag[At[p]] /\ label'[p] = label[p] /\ p # q
      BY <1>1, <1>2, <1>5a, <2>4, Requests DEF Types
    <3> QED BY <1>2, <1>3, <2>1, <3>1 DEF LabelledAt
  <2> QED BY <2>3, <2>4
<1>10. Sole'
  <2> SUFFICES ASSUME NEW r \in Ser PROVE SoleAt(r)'
    BY DEF Sole
  <2>1. SoleAt(r)
    BY DEF Sole
  <2>2. CASE r = s
    <3>1. tag'[s] # NoReq
      BY <1>1, <1>2, Requests DEF Types
    <3> QED BY <1>1, <1>4, <1>5, <1>5a, <2>2, <3>1 DEF SoleAt
  <2>3. CASE r # s
    <3>1. tag'[r] = tag[r]
      BY <1>2, <2>3 DEF Types
    <3> QED BY <1>2, <1>4, <1>5a, <2>1, <2>3, <3>1 DEF SoleAt
  <2> QED BY <2>2, <2>3
<1>11. UNCHANGED <<queue, inbox>> /\ \A p \in Request : Beyond(p)' <=> Beyond(p) \/ p = q
  BY <1>2, <1>4
<1> QED BY <1>6, <1>7, <1>8, <1>9, <1>10, <1>11 DEF q

LEMMA EnqueueKeeps ==
  ASSUME IInv, NEW m \in net, Enqueue(m)
  PROVE  IInv' /\ UNCHANGED inbox
         /\ \A p \in Request : Beyond(p)' <=> Beyond(p)
<1> USE DEF IInv
<1> DEFINE q == m.req  s == At[q]
<1>0. IsRequest(m)
  BY DEF Enqueue
<1>1. q \in Request /\ s \in Ser /\ m = Arriving(q) /\ Coming(q)
  BY <1>0, Proper, Requests
<1>2. /\ tag[s] # NoReq /\ queue' = [queue EXCEPT ![s] = Append(@, q)]
      /\ net' = net \ {Arriving(q)}
      /\ UNCHANGED <<tag, label, gate, timer, work, inbox>>
  BY <1>1 DEF Enqueue, Replace
<1>2a. s = At[q]
  OBVIOUS
<1> HIDE DEF q, s
<1>3. /\ \A p : Coming(p)' <=> Coming(p) /\ p # q
      /\ \A p : Going(p)' <=> Going(p)
      /\ \A p : Calling(p) \in net' <=> Calling(p) \in net
      /\ \A p : AtGate(p)' <=> AtGate(p)
      /\ \A p, a, g : Tagged(p, a, g) \in net' <=> Tagged(p, a, g) \in net
  BY <1>2, Differ DEF Coming, Going, AtGate
<1>4. /\ \A p : Returning(p)' <=> Returning(p)
      /\ \A p : Beyond(p)' <=> Beyond(p)
      /\ \A p : Unsent(p)' <=> Unsent(p)
  BY <1>2, <1>3 DEF Returning, Beyond, Unsent
<1>5. /\ queue[s] \in Seq(Request) /\ queue'[s] = Append(queue[s], q)
      /\ Len(queue'[s]) = Len(queue[s]) + 1 /\ Len(queue[s]) \in Nat
      /\ queue'[s][Len(queue[s]) + 1] = q
      /\ \A i \in 1..Len(queue[s]) : queue'[s][i] = queue[s][i]
      /\ \A r \in Ser : r # s => queue'[r] = queue[r]
  BY <1>1, <1>2 DEF Types
<1>6. \A p \in Request : Queued(p)' <=> Queued(p) \/ p = q
  <2> TAKE p \in Request
  <2>1. CASE At[p] = s
    <3>1. p = q => Queued(p)'
      BY <1>5, <2>1 DEF Queued
    <3>2. Queued(p) => Queued(p)'
      BY <1>5, <2>1 DEF Queued
    <3>3. Queued(p)' => Queued(p) \/ p = q
      <4>0. Queued(p)' <=> \E i \in 1..(Len(queue[s]) + 1) : queue'[s][i] = p
        <5>1. Queued(p)' <=> \E i \in 1..Len(queue'[s]) : queue'[s][i] = p
          BY <2>1 DEF Queued
        <5>2. QED BY <5>1, <1>5
      <4> SUFFICES ASSUME NEW i \in 1..(Len(queue[s]) + 1), queue'[s][i] = p
                   PROVE  Queued(p) \/ p = q
        BY <4>0
      <4>1. CASE i = Len(queue[s]) + 1
        BY <1>5, <4>1
      <4>2. CASE i \in 1..Len(queue[s])
        BY <1>5, <2>1, <4>2 DEF Queued
      <4> QED BY <1>5, <4>1, <4>2
    <3> QED BY <3>1, <3>2, <3>3
  <2>2. CASE At[p] # s
    BY <1>2a, <1>5, <2>2, Requests DEF Queued
  <2> QED BY <2>1, <2>2
<1>7. Types'
  BY <1>1, <1>2 DEF Types
<1>8. Place'
  <2> SUFFICES ASSUME NEW p \in Request PROVE PlaceAt(p)'
    BY DEF Place
  <2>1. PlaceAt(p)
    BY DEF Place
  <2> QED BY <1>1, <1>2, <1>3, <1>4, <1>6, <2>1 DEF PlaceAt
<1>9. LineUp'
  <2> SUFFICES ASSUME NEW r \in Ser PROVE LineUpAt(r)'
    BY DEF LineUp
  <2>1. LineUpAt(r)
    BY DEF LineUp
  <2>2. CASE r # s
    BY <1>5, <2>1, <2>2 DEF LineUpAt
  <2>3. CASE r = s
    <3>1. \A i \in 1..Len(queue[s]) : queue[s][i] # q
      BY <1>1, <1>2a DEF Place, PlaceAt, Queued
    <3>2. SUFFICES ASSUME NEW i \in 1..(Len(queue[s]) + 1), NEW j \in 1..(Len(queue[s]) + 1)
                   PROVE  /\ At[queue'[s][i]] = s
                          /\ queue'[s][i] = queue'[s][j] => i = j
      BY <1>5, <2>3 DEF LineUpAt
    <3>3. /\ i \in 1..Len(queue[s]) \/ i = Len(queue[s]) + 1
          /\ j \in 1..Len(queue[s]) \/ j = Len(queue[s]) + 1
      BY <1>5
    <3>4. At[queue'[s][i]] = s
      BY <1>2a, <1>5, <2>1, <2>3, <3>3 DEF LineUpAt
    <3>5. ASSUME queue'[s][i] = queue'[s][j] PROVE i = j
      <4>1. CASE i \in 1..Len(queue[s]) /\ j \in 1..Len(queue[s])
        BY <1>5, <2>1, <2>3, <3>5, <4>1 DEF LineUpAt
      <4>2. CASE i = Len(queue[s]) + 1 /\ j \in 1..Len(queue[s])
        BY <1>5, <3>1, <3>5, <4>2
      <4>3. CASE i \in 1..Len(queue[s]) /\ j = Len(queue[s]) + 1
        BY <1>5, <3>1, <3>5, <4>3
      <4> QED BY <3>3, <4>1, <4>2, <4>3
    <3> QED BY <3>4, <3>5
  <2> QED BY <2>2, <2>3
<1>10. Labelled'
  BY <1>2, <1>3 DEF Labelled, LabelledAt
<1>11. Sole'
  <2> SUFFICES ASSUME NEW r \in Ser PROVE SoleAt(r)'
    BY DEF Sole
  <2>1. SoleAt(r)
    BY DEF Sole
  <2>2. tag'[r] = NoReq => queue'[r] = <<>>
    BY <1>2, <1>5, <2>1 DEF SoleAt
  <2> QED BY <1>2, <1>4, <2>1, <2>2 DEF SoleAt
<1>12. UNCHANGED inbox /\ \A p \in Request : Beyond(p)' <=> Beyond(p)
  BY <1>2, <1>4
<1> QED BY <1>7, <1>8, <1>9, <1>10, <1>11, <1>12

LEMMA TimedServiceKeeps ==
  ASSUME IInv, NEW q \in Request, TimedService(q)
  PROVE  IInv' /\ Same
<1> USE DEF IInv
<1>1. /\ Going(q) /\ gate' = [gate EXCEPT ![q] = "open"] /\ timer' \subseteq timer \cup {q}
      /\ net' = (net \ {Dispatched(q)}) \cup {Calling(q)}
      /\ UNCHANGED <<tag, queue, label, work, inbox>>
  BY DEF TimedService, Replace, Going
<1>2. /\ \A p : Coming(p)' <=> Coming(p)
      /\ \A p : Going(p)' <=> Going(p) /\ p # q
      /\ \A p : Calling(p) \in net' <=> Calling(p) \in net \/ p = q
      /\ \A p : AtGate(p)' <=> AtGate(p)
      /\ \A p, a, g : Tagged(p, a, g) \in net' <=> Tagged(p, a, g) \in net
  BY <1>1, Differ DEF Coming, Going, AtGate
<1>3. /\ gate'[q] = "open"
      /\ \A p \in Request : p # q => gate'[p] = gate[p]
  BY <1>1 DEF Types
<1>4. /\ \A p : Returning(p)' <=> Returning(p)
      /\ \A p : Queued(p)' <=> Queued(p)
      /\ \A p : Unsent(p)' <=> Unsent(p)
  BY <1>1, <1>2 DEF Returning, Queued, Unsent
<1>5. \A p \in Request : Beyond(p)' <=> Beyond(p)
  BY <1>1, <1>2, <1>3, <1>4 DEF Beyond
<1>6. Types'
  BY <1>1, Made DEF Types
<1>7. Place'
  <2> SUFFICES ASSUME NEW p \in Request PROVE PlaceAt(p)'
    BY DEF Place
  <2>1. PlaceAt(p)
    BY DEF Place
  <2>2. CASE p = q
    BY <1>1, <1>2, <1>3, <1>4, <1>5, <2>1, <2>2 DEF PlaceAt
  <2>3. CASE p # q
    BY <1>1, <1>2, <1>3, <1>4, <1>5, <2>1, <2>3 DEF PlaceAt
  <2> QED BY <2>2, <2>3
<1>8. LineUp'
  BY <1>1 DEF LineUp, LineUpAt
<1>9. Labelled'
  BY <1>1, <1>2, <1>3 DEF Labelled, LabelledAt
<1>10. Sole'
  BY <1>1, <1>5 DEF Sole, SoleAt
<1> QED BY <1>1, <1>5, <1>6, <1>7, <1>8, <1>9, <1>10 DEF Same

LEMMA TimerFiresKeeps ==
  ASSUME IInv, NEW q \in Request, TimerFires(q)
  PROVE  IInv' /\ Same
<1> USE DEF IInv
<1>1. /\ q \in timer /\ timer' = timer \ {q} /\ net' = net \cup {ToGate(q, "timed-out")}
      /\ "timed-out" \in Answer
      /\ UNCHANGED <<tag, queue, label, gate, work, inbox>>
  BY DEF TimerFires, Answer
<1>2. /\ \A p : Coming(p)' <=> Coming(p)
      /\ \A p : Going(p)' <=> Going(p)
      /\ \A p : Calling(p) \in net' <=> Calling(p) \in net
      /\ \A p : AtGate(p)' <=> AtGate(p) \/ p = q
      /\ \A p, a, g : Tagged(p, a, g) \in net' <=> Tagged(p, a, g) \in net
  BY <1>1, Differ DEF Coming, Going, AtGate
<1>3. /\ \A p : Returning(p)' <=> Returning(p)
      /\ \A p : Queued(p)' <=> Queued(p)
      /\ \A p : Beyond(p)' <=> Beyond(p)
      /\ \A p : Unsent(p)' <=> Unsent(p)
  BY <1>1, <1>2 DEF Returning, Queued, Unsent, Beyond
<1>4. Types'
  BY <1>1, Made DEF Types
<1>5. Place'
  <2> SUFFICES ASSUME NEW p \in Request PROVE PlaceAt(p)'
    BY DEF Place
  <2>1. PlaceAt(p)
    BY DEF Place
  <2> QED BY <1>1, <1>2, <1>3, <2>1 DEF PlaceAt
<1>6. LineUp'
  BY <1>1 DEF LineUp, LineUpAt
<1>7. Labelled'
  BY <1>1, <1>2 DEF Labelled, LabelledAt
<1>8. Sole'
  BY <1>1, <1>3 DEF Sole, SoleAt
<1> QED BY <1>1, <1>3, <1>4, <1>5, <1>6, <1>7, <1>8 DEF Same

LEMMA PassKeeps ==
  ASSUME IInv, NEW q \in Request, NEW a \in Answer, Pass(q, a)
  PROVE  IInv' /\ Same
<1> USE DEF IInv
<1>1. ToGate(q, a) \in net /\ AtGate(q) /\ UNCHANGED <<tag, queue, label, timer, work, inbox>>
  BY DEF Pass, AtGate
<1>2. /\ \A p : Queued(p)' <=> Queued(p)
      /\ \A p : Unsent(p)' <=> Unsent(p)
  BY <1>1 DEF Queued, Unsent
<1>3. LineUp'
  BY <1>1 DEF LineUp, LineUpAt
<1>4. CASE gate[q] = "open"
  <2>1. /\ gate' = [gate EXCEPT ![q] = "shut"]
        /\ net' = (net \ {ToGate(q, a)}) \cup {Tagged(q, a, label[q])}
    BY <1>4 DEF Pass, Replace
  <2>2. label[q] = tag[At[q]] /\ label[q] \in Request
    BY <1>4, Requests DEF Labelled, LabelledAt, Sole, SoleAt, Beyond, Types
  <2>3. /\ \A p : Coming(p)' <=> Coming(p)
        /\ \A p : Going(p)' <=> Going(p)
        /\ \A p : Calling(p) \in net' <=> Calling(p) \in net
        /\ \A p : AtGate(p)' => AtGate(p)
        /\ \A p, b, g : Tagged(p, b, g) \in net' <=> \/ Tagged(p, b, g) \in net
                                                     \/ p = q /\ b = a /\ g = label[q]
    BY <2>1, Differ DEF Coming, Going, AtGate
  <2>4. /\ gate'[q] = "shut"
        /\ \A p \in Request : p # q => gate'[p] = gate[p]
    BY <2>1 DEF Types
  <2>5. \A p : Returning(p)' <=> Returning(p) \/ p = q
    BY <2>2, <2>3 DEF Returning
  <2>6. \A p \in Request : Beyond(p)' <=> Beyond(p)
    BY <1>4, <2>3, <2>4, <2>5 DEF Beyond
  <2>7. ~Returning(q)
    BY <1>4 DEF Place, PlaceAt
  <2>8. Types'
    BY <1>1, <2>1, <2>2, Made DEF Types
  <2>9. Place'
    <3> SUFFICES ASSUME NEW p \in Request PROVE PlaceAt(p)'
      BY DEF Place
    <3>1. PlaceAt(p)
      BY DEF Place
    <3>2. CASE p = q
      BY <1>1, <1>2, <1>4, <2>3, <2>4, <2>5, <2>6, <3>1, <3>2 DEF PlaceAt
    <3>3. CASE p # q
      BY <1>1, <1>2, <2>3, <2>4, <2>5, <2>6, <3>1, <3>3 DEF PlaceAt
    <3> QED BY <3>2, <3>3
  <2>10. Labelled'
    <3> SUFFICES ASSUME NEW p \in Request PROVE LabelledAt(p)'
      BY DEF Labelled
    <3>1. LabelledAt(p)
      BY DEF Labelled
    <3>2. CASE p = q
      BY <1>1, <2>2, <2>3, <2>4, <2>7, <3>1, <3>2 DEF LabelledAt, Returning
    <3>3. CASE p # q
      BY <1>1, <2>3, <2>4, <3>1, <3>3 DEF LabelledAt
    <3> QED BY <3>2, <3>3
  <2>11. Sole'
    BY <1>1, <2>6 DEF Sole, SoleAt
  <2> QED BY <1>1, <1>3, <2>6, <2>8, <2>9, <2>10, <2>11 DEF Same
<1>5. CASE gate[q] # "open"
  <2>1. gate' = gate /\ net' = net \ {ToGate(q, a)}
    BY <1>5 DEF Pass, Replace
  <2>2. /\ \A p : Coming(p)' <=> Coming(p)
        /\ \A p : Going(p)' <=> Going(p)
        /\ \A p : Calling(p) \in net' <=> Calling(p) \in net
        /\ \A p : AtGate(p)' => AtGate(p)
        /\ \A p, b, g : Tagged(p, b, g) \in net' <=> Tagged(p, b, g) \in net
    BY <2>1, Differ DEF Coming, Going, AtGate
  <2>3. /\ \A p : Returning(p)' <=> Returning(p)
        /\ \A p : Beyond(p)' <=> Beyond(p)
    BY <2>1, <2>2 DEF Returning, Beyond
  <2>4. Types'
    BY <1>1, <2>1 DEF Types
  <2>5. Place'
    <3> SUFFICES ASSUME NEW p \in Request PROVE PlaceAt(p)'
      BY DEF Place
    <3>1. PlaceAt(p)
      BY DEF Place
    <3> QED BY <1>1, <1>2, <2>1, <2>2, <2>3, <3>1 DEF PlaceAt
  <2>6. Labelled'
    BY <1>1, <2>1, <2>2 DEF Labelled, LabelledAt
  <2>7. Sole'
    BY <1>1, <2>3 DEF Sole, SoleAt
  <2> QED BY <1>1, <1>3, <2>3, <2>4, <2>5, <2>6, <2>7 DEF Same
<1> QED BY <1>4, <1>5

LEMMA BeginKeeps ==
  ASSUME IInv, NEW q \in Request, Begin(q)
  PROVE  IInv' /\ Same
<1> USE DEF IInv
<1> DEFINE r == Inner[q]
<1>1. /\ Calling(q) \in net /\ work' = [work EXCEPT ![q] = "busy"]
      /\ net' = (net \ {Calling(q)}) \cup (IF r = NoReq THEN {} ELSE {Arriving(r)})
      /\ UNCHANGED <<tag, queue, label, gate, timer, inbox>>
  BY DEF Begin, Replace
<1>2. r \in Request \cup {NoReq} /\ NoReq \notin Request
  BY Requests
<1>3. /\ \A p \in Request : Coming(p)' <=> Coming(p) \/ p = r
      /\ \A p : Going(p)' <=> Going(p)
      /\ \A p : Calling(p) \in net' <=> Calling(p) \in net /\ p # q
      /\ \A p : AtGate(p)' <=> AtGate(p)
      /\ \A p, a, g : Tagged(p, a, g) \in net' <=> Tagged(p, a, g) \in net
  BY <1>1, <1>2, Differ DEF Coming, Going, AtGate
<1>4. /\ \A p : Returning(p)' <=> Returning(p)
      /\ \A p : Queued(p)' <=> Queued(p)
      /\ \A p : Beyond(p)' <=> Beyond(p)
  BY <1>1, <1>3 DEF Returning, Queued, Beyond
<1>5. work[q] \in Early /\ gate[q] # "none"
  BY <1>1 DEF Place, PlaceAt
<1>6. /\ work'[q] = "busy"
      /\ \A p \in Request : p # q => work'[p] = work[p]
  BY <1>1 DEF Types
<1>7. r \in Request => Unsent(r)
  <2> SUFFICES ASSUME r \in Request PROVE Unsent(r)
    OBVIOUS
  <2>1. r \notin Outer
    BY DEF Outer
  <2>2. \A p \in Request : Inner[p] = r => p = q
    BY <1>2, Requests
  <2> QED BY <1>5, <2>1, <2>2 DEF Unsent
<1>8. \A p \in Request : Unsent(p)' => Unsent(p) /\ p # r
  <2> TAKE p \in Request
  <2>1. CASE p \in Outer
    BY <1>6, <2>1 DEF Unsent, Outer
  <2>2. CASE p \notin Outer
    BY <1>5, <1>6, <2>2 DEF Unsent, Early
  <2> QED BY <2>1, <2>2
<1>9. Types'
  BY <1>1, <1>2, Made DEF Types
<1>10. Place'
  <2> SUFFICES ASSUME NEW p \in Request PROVE PlaceAt(p)'
    BY DEF Place
  <2>1. PlaceAt(p)
    BY DEF Place
  <2>2. CASE p = r
    <3>1. PlaceAt(q) /\ p # q
      BY <1>5, <1>7, <2>1, <2>2 DEF Place, PlaceAt
    <3> QED BY <1>1, <1>3, <1>4, <1>5, <1>6, <1>7, <1>8, <2>1, <2>2, <3>1 DEF PlaceAt
  <2>3. CASE p # r
    <3>1. CASE p = q
      BY <1>1, <1>3, <1>4, <1>5, <1>6, <1>8, <2>1, <2>3, <3>1 DEF PlaceAt
    <3>2. CASE p # q
      BY <1>1, <1>3, <1>4, <1>6, <1>8, <2>1, <2>3, <3>2 DEF PlaceAt
    <3> QED BY <3>1, <3>2
  <2> QED BY <2>2, <2>3
<1>11. LineUp'
  BY <1>1 DEF LineUp, LineUpAt
<1>12. Labelled'
  BY <1>1, <1>3 DEF Labelled, LabelledAt
<1>13. Sole'
  BY <1>1, <1>4 DEF Sole, SoleAt
<1> QED BY <1>1, <1>4, <1>9, <1>10, <1>11, <1>12, <1>13 DEF Same

LEMMA ReplyKeeps ==
  ASSUME IInv, NEW q \in Request, Reply(q)
  PROVE  IInv' /\ Same
<1> USE DEF IInv
<1>1. /\ work[q] \in {"busy", "again"} /\ net' = net \cup {ToGate(q, "ok")} /\ "ok" \in Answer
      /\ UNCHANGED <<tag, queue, label, gate, timer, inbox>>
  BY DEF Reply, Answer
<1>2. /\ \A p : Coming(p)' <=> Coming(p)
      /\ \A p : Going(p)' <=> Going(p)
      /\ \A p : Calling(p) \in net' <=> Calling(p) \in net
      /\ \A p : AtGate(p)' <=> AtGate(p) \/ p = q
      /\ \A p, a, g : Tagged(p, a, g) \in net' <=> Tagged(p, a, g) \in net
  BY <1>1, Differ DEF Coming, Going, AtGate
<1>3. /\ \A p : Returning(p)' <=> Returning(p)
      /\ \A p : Queued(p)' <=> Queued(p)
      /\ \A p : Beyond(p)' <=> Beyond(p)
  BY <1>1, <1>2 DEF Returning, Queued, Beyond
<1>4. /\ work' \in [Request -> {"none", "sent", "busy", "again", "done"}]
      /\ work'[q] \in {"done", "again"}
      /\ \A p \in Request : p # q => work'[p] = work[p]
  BY DEF Reply, Types
<1>5. \A p \in Request : Unsent(p)' => Unsent(p)
  BY <1>1, <1>4 DEF Unsent, Early
<1>6. \A p \in Request : work[p] \in Early <=> work'[p] \in Early
  BY <1>1, <1>4 DEF Early
<1>7. gate[q] # "none"
  BY <1>1 DEF Place, PlaceAt, Early
<1>8. Types'
  BY <1>1, <1>4, Made DEF Types
<1>9. Place'
  <2> SUFFICES ASSUME NEW p \in Request PROVE PlaceAt(p)'
    BY DEF Place
  <2>1. PlaceAt(p)
    BY DEF Place
  <2> QED BY <1>1, <1>2, <1>3, <1>5, <1>6, <1>7, <2>1 DEF PlaceAt
<1>10. LineUp'
  BY <1>1 DEF LineUp, LineUpAt
<1>11. Labelled'
  BY <1>1, <1>2 DEF Labelled, LabelledAt
<1>12. Sole'
  BY <1>1, <1>3 DEF Sole, SoleAt
<1> QED BY <1>1, <1>3, <1>8, <1>9, <1>10, <1>11, <1>12 DEF Same

(* An answer that a serializer takes is the one answer of the request that *)
(* is through.                                                             *)
LEMMA Taken ==
  ASSUME IInv, NEW m \in net, m.kind = "tagged"
  PROVE  /\ m.req \in Request /\ m.answer \in Answer /\ m.tag = tag[At[m.req]]
         /\ m = Tagged(m.req, m.answer, m.tag) /\ m.tag \in Request
         /\ Beyond(m.req) /\ gate[m.req] = "shut" /\ ~Going(m.req) /\ Returning(m.req)
         /\ \A a, g : Tagged(m.req, a, g) \in net /\ a \in Answer /\ g \in Request
              => Tagged(m.req, a, g) = m
<1>1. m \in Message
  BY DEF IInv, Types
<1>2. /\ m.req \in Request /\ m.answer \in Answer /\ m.tag \in Request
      /\ m = Tagged(m.req, m.answer, m.tag)
  BY <1>1, Forms
<1>3. Returning(m.req)
  BY <1>2 DEF Returning
<1>4. gate[m.req] = "shut" /\ ~Going(m.req)
  BY <1>2, <1>3 DEF IInv, Place, PlaceAt
<1>5. LabelledAt(m.req)
  BY <1>2 DEF IInv, Labelled
<1> QED BY <1>2, <1>3, <1>4, <1>5 DEF LabelledAt, Beyond

(* The serializer becomes idle.                                            *)
LEMMA ReleaseLastKeeps ==
  ASSUME IInv, NEW m \in net, Release(m), queue[At[m.req]] = <<>>
  PROVE  IInv' /\ \A p \in Request : Beyond(p)' <=> Beyond(p) /\ p # m.req
<1> USE DEF IInv
<1> DEFINE q == m.req  s == At[q]
<1>1. /\ m.kind = "tagged" /\ tag' = [tag EXCEPT ![s] = NoReq] /\ net' = net \ {m}
      /\ inbox' = [inbox EXCEPT ![q] = Append(@, m.answer)]
      /\ UNCHANGED <<queue, label, gate, timer, work>>
  BY DEF Release, Replace
<1>2. /\ q \in Request /\ m.answer \in Answer /\ m = Tagged(q, m.answer, m.tag)
      /\ Beyond(q) /\ gate[q] = "shut" /\ ~Going(q) /\ Returning(q)
      /\ \A a \in Answer, g \in Request : Tagged(q, a, g) \in net => Tagged(q, a, g) = m
  BY <1>1, Taken
<1>3. s \in Ser /\ s = At[q] /\ queue[s] = <<>>
  BY <1>2, Requests
<1> HIDE DEF q, s
<1>4. /\ \A p : Coming(p)' <=> Coming(p)
      /\ \A p : Going(p)' <=> Going(p)
      /\ \A p : Calling(p) \in net' <=> Calling(p) \in net
      /\ \A p : AtGate(p)' <=> AtGate(p)
      /\ \A p, a, g : Tagged(p, a, g) \in net' => Tagged(p, a, g) \in net
      /\ \A p, a, g : p # q => (Tagged(p, a, g) \in net' <=> Tagged(p, a, g) \in net)
  BY <1>1, <1>2, Differ DEF Coming, Going, AtGate
<1>5. ~Returning(q)'
  BY <1>1, <1>2, <1>4 DEF Returning
<1>6. /\ \A p : p # q => (Returning(p)' <=> Returning(p))
      /\ \A p : Queued(p)' <=> Queued(p)
      /\ \A p : Unsent(p)' <=> Unsent(p)
  BY <1>1, <1>4 DEF Returning, Queued, Unsent
<1>7. \A p \in Request : Beyond(p)' <=> Beyond(p) /\ p # q
  BY <1>1, <1>2, <1>4, <1>5, <1>6 DEF Beyond
<1>8. \A p \in Request : p # q => inbox'[p] = inbox[p]
  BY <1>1 DEF Types
<1>9. Types'
  BY <1>1, <1>2, <1>3 DEF Types
<1>10. Place'
  <2> SUFFICES ASSUME NEW p \in Request PROVE PlaceAt(p)'
    BY DEF Place
  <2>1. PlaceAt(p)
    BY DEF Place
  <2>2. CASE p = q
    BY <1>1, <1>2, <1>4, <1>5, <1>6, <1>7, <2>1, <2>2 DEF PlaceAt
  <2>3. CASE p # q
    BY <1>1, <1>4, <1>6, <1>7, <1>8, <2>1, <2>3 DEF PlaceAt
  <2> QED BY <2>2, <2>3
<1>11. LineUp'
  BY <1>1 DEF LineUp, LineUpAt
<1>12. Labelled'
  <2> SUFFICES ASSUME NEW p \in Request PROVE LabelledAt(p)'
    BY DEF Labelled
  <2>1. LabelledAt(p)
    BY DEF Labelled
  <2>2. CASE At[p] = s
    <3>1. ~Beyond(p)'
      BY <1>2, <1>3, <1>7, <2>2 DEF Sole, SoleAt
    <3> QED BY <3>1 DEF LabelledAt, Beyond, Returning
  <2>3. CASE At[p] # s
    <3>1. tag'[At[p]] = tag[At[p]]
      BY <1>1, <2>3, Requests DEF Types
    <3> QED BY <1>1, <1>4, <2>1, <3>1 DEF LabelledAt
  <2> QED BY <2>2, <2>3
<1>13. Sole'
  <2> SUFFICES ASSUME NEW r \in Ser PROVE SoleAt(r)'
    BY DEF Sole
  <2>1. SoleAt(r)
    BY DEF Sole
  <2>2. CASE r = s
    <3>1. tag'[s] = NoReq
      BY <1>1, <1>3 DEF Types
    <3> QED BY <1>1, <1>2, <1>3, <1>7, <2>1, <2>2, <3>1 DEF SoleAt
  <2>3. CASE r # s
    <3>1. tag'[r] = tag[r]
      BY <1>1, <2>3 DEF Types
    <3> QED BY <1>1, <1>3, <1>7, <2>1, <2>3, <3>1 DEF SoleAt
  <2> QED BY <2>2, <2>3
<1> QED BY <1>7, <1>9, <1>10, <1>11, <1>12, <1>13 DEF q

(* Properties of a queue that has a first element.                         *)
LEMMA FirstAndRest ==
  ASSUME NEW u \in Seq(Request), u # <<>>
  PROVE  /\ Head(u) \in Request /\ Head(u) = u[1] /\ Tail(u) \in Seq(Request)
         /\ Len(u) \in Nat /\ Len(u) > 0 /\ Len(Tail(u)) = Len(u) - 1
         /\ \A i \in 1..Len(Tail(u)) : Tail(u)[i] = u[i + 1]
OBVIOUS

(* It lets the next request through.                                       *)
LEMMA ReleaseNextKeeps ==
  ASSUME IInv, NEW m \in net, Release(m), queue[At[m.req]] # <<>>
  PROVE  IInv' /\ \A p \in Request :
                   Beyond(p)' <=> (Beyond(p) /\ p # m.req) \/ p = Head(queue[At[m.req]])
<1> USE DEF IInv
<1> DEFINE q == m.req  s == At[q]  r == Head(queue[s])
<1>1. /\ m.kind = "tagged" /\ m.tag = tag[s]
      /\ queue' = [queue EXCEPT ![s] = Tail(@)] /\ label' = [label EXCEPT ![r] = tag[s]]
      /\ net' = (net \ {m}) \cup {Dispatched(r)}
      /\ inbox' = [inbox EXCEPT ![q] = Append(@, m.answer)]
      /\ UNCHANGED <<tag, gate, timer, work>>
  BY DEF Release, Replace
<1>2. /\ q \in Request /\ m.answer \in Answer /\ m = Tagged(q, m.answer, m.tag)
      /\ Beyond(q) /\ gate[q] = "shut" /\ ~Going(q) /\ Returning(q)
      /\ \A a \in Answer, g \in Request : Tagged(q, a, g) \in net => Tagged(q, a, g) = m
  BY <1>1, Taken
<1>3. /\ s \in Ser /\ s = At[q] /\ queue[s] # <<>> /\ queue[s] \in Seq(Request)
      /\ r = Head(queue[s])
  BY <1>2, Requests DEF Types
<1> HIDE DEF q, s, r
<1>4. /\ r \in Request /\ r = queue[s][1] /\ Tail(queue[s]) \in Seq(Request)
      /\ Len(queue[s]) \in Nat /\ Len(queue[s]) > 0 /\ Len(queue'[s]) = Len(queue[s]) - 1
      /\ \A i \in 1..Len(queue'[s]) : queue'[s][i] = queue[s][i + 1]
      /\ \A x \in Ser : x # s => queue'[x] = queue[x]
  BY <1>1, <1>3, FirstAndRest DEF Types
<1>5. At[r] = s /\ Queued(r)
  <2>1. 1 \in 1..Len(queue[s])
    BY <1>4
  <2>2. At[queue[s][1]] = s
    BY <1>3, <2>1 DEF LineUp, LineUpAt
  <2> QED BY <1>4, <2>1, <2>2 DEF Queued
<1>6. /\ r # q /\ ~Returning(r) /\ gate[r] = "none" /\ ~Going(r) /\ inbox[r] = <<>>
      /\ ~Coming(r) /\ ~Unsent(r)
  BY <1>2, <1>4, <1>5 DEF Place, PlaceAt
<1>7. /\ \A p : Coming(p)' <=> Coming(p)
      /\ \A p : Going(p)' <=> Going(p) \/ p = r
      /\ \A p : Calling(p) \in net' <=> Calling(p) \in net
      /\ \A p : AtGate(p)' <=> AtGate(p)
      /\ \A p, a, g : Tagged(p, a, g) \in net' => Tagged(p, a, g) \in net
      /\ \A p, a, g : p # q => (Tagged(p, a, g) \in net' <=> Tagged(p, a, g) \in net)
      /\ m \notin net'
  <2>1. \A x : x \in net' <=> x = Dispatched(r) \/ (x \in net /\ x # m)
    BY <1>1
  <2>2. /\ \A p, a, g : m = Tagged(p, a, g) => p = q
        /\ \A p : m # Arriving(p) /\ m # Dispatched(p) /\ m # Calling(p)
        /\ \A p, a : m # ToGate(p, a)
    BY <1>2, Differ
  <2>3. /\ \A p : Coming(p)' <=> Coming(p)
        /\ \A p : Going(p)' <=> Going(p) \/ p = r
        /\ \A p : Calling(p) \in net' <=> Calling(p) \in net
    BY <2>1, <2>2, Differ DEF Coming, Going
  <2>4. \A p : AtGate(p)' <=> AtGate(p)
    BY <2>1, <2>2, Differ DEF AtGate
  <2>5. /\ \A p, a, g : Tagged(p, a, g) \in net' => Tagged(p, a, g) \in net
        /\ \A p, a, g : p # q => (Tagged(p, a, g) \in net' <=> Tagged(p, a, g) \in net)
    BY <2>1, <2>2, Differ
  <2>6. m \notin net'
    BY <2>1, <2>2
  <2> QED BY <2>3, <2>4, <2>5, <2>6
<1>8. ~Returning(q)'
  BY <1>2, <1>7 DEF Returning
<1>9. /\ \A p : p # q => (Returning(p)' <=> Returning(p))
      /\ \A p : Unsent(p)' <=> Unsent(p)
  BY <1>1, <1>7 DEF Returning, Unsent
<1>10. \A p \in Request : Queued(p)' <=> Queued(p) /\ p # r
  <2> TAKE p \in Request
  <2>1. CASE At[p] # s
    BY <1>4, <1>5, <2>1, Requests DEF Queued
  <2>2. CASE At[p] = s
    <3>1. ASSUME Queued(p)' PROVE Queued(p) /\ p # r
      <4>1. PICK i \in 1..Len(queue'[s]) : queue'[s][i] = p
        BY <2>2, <3>1 DEF Queued
      <4>2. /\ i + 1 \in 1..Len(queue[s]) /\ 1 \in 1..Len(queue[s]) /\ i + 1 # 1
            /\ queue[s][i + 1] = p
        BY <1>4, <4>1
      <4>3. queue[s][i + 1] # queue[s][1]
        BY <1>3, <4>2 DEF LineUp, LineUpAt
      <4> QED BY <1>4, <2>2, <4>2, <4>3 DEF Queued
    <3>2. ASSUME Queued(p), p # r PROVE Queued(p)'
      <4>1. PICK i \in 1..Len(queue[s]) : queue[s][i] = p
        BY <2>2, <3>2 DEF Queued
      <4>2. i # 1
        BY <1>4, <3>2, <4>1
      <4>3. i - 1 \in 1..Len(queue'[s]) /\ queue'[s][i - 1] = queue[s][(i - 1) + 1]
        BY <1>4, <4>1, <4>2
      <4>4. (i - 1) + 1 = i
        BY <4>1
      <4>5. queue'[s][i - 1] = p
        BY <4>1, <4>3, <4>4
      <4> QED BY <2>2, <4>3, <4>5 DEF Queued
    <3> QED BY <3>1, <3>2
  <2> QED BY <2>1, <2>2
<1>11. \A p \in Request : Beyond(p)' <=> (Beyond(p) /\ p # q) \/ p = r
  BY <1>1, <1>2, <1>6, <1>7, <1>8, <1>9 DEF Beyond
<1>12. \A p \in Request : p # q => inbox'[p] = inbox[p]
  BY <1>1 DEF Types
<1>13. tag[s] \in Request
  BY <1>2, <1>3 DEF Sole, SoleAt, Types
<1>14. Types'
  BY <1>1, <1>2, <1>3, <1>4, <1>13, Made DEF Types
<1>15. Place'
  <2> SUFFICES ASSUME NEW p \in Request PROVE PlaceAt(p)'
    BY DEF Place
  <2>1. PlaceAt(p)
    BY DEF Place
  <2>2. CASE p = q
    BY <1>1, <1>2, <1>6, <1>7, <1>8, <1>9, <1>10, <1>11, <2>1, <2>2 DEF PlaceAt
  <2>3. CASE p = r
    BY <1>1, <1>4, <1>6, <1>7, <1>9, <1>10, <1>11, <1>12, <2>1, <2>3 DEF PlaceAt
  <2>4. CASE p # q /\ p # r
    BY <1>1, <1>7, <1>9, <1>10, <1>11, <1>12, <2>1, <2>4 DEF PlaceAt
  <2> QED BY <2>2, <2>3, <2>4
<1>16. LineUp'
  <2> SUFFICES ASSUME NEW x \in Ser PROVE LineUpAt(x)'
    BY DEF LineUp
  <2>1. LineUpAt(x)
    BY DEF LineUp
  <2>2. CASE x # s
    BY <1>4, <2>1, <2>2 DEF LineUpAt
  <2>3. CASE x = s
    <3> SUFFICES ASSUME NEW i \in 1..Len(queue'[s]), NEW j \in 1..Len(queue'[s])
                 PROVE  /\ At[queue'[s][i]] = s
                        /\ queue'[s][i] = queue'[s][j] => i = j
      BY <2>3 DEF LineUpAt
    <3>1. /\ i + 1 \in 1..Len(queue[s]) /\ j + 1 \in 1..Len(queue[s])
          /\ queue'[s][i] = queue[s][i + 1] /\ queue'[s][j] = queue[s][j + 1]
      BY <1>4
    <3>2. At[queue[s][i + 1]] = s /\ (queue[s][i + 1] = queue[s][j + 1] => i + 1 = j + 1)
      BY <2>1, <2>3, <3>1 DEF LineUpAt
    <3> QED BY <1>4, <3>1, <3>2
  <2> QED BY <2>2, <2>3
<1>17. Labelled'
  <2> SUFFICES ASSUME NEW p \in Request PROVE LabelledAt(p)'
    BY DEF Labelled
  <2>1. LabelledAt(p)
    BY DEF Labelled
  <2>2. CASE p = r
    <3>1. label'[r] = tag[s]
      BY <1>1, <1>4 DEF Types
    <3>2. ~Returning(p)'
      BY <1>6, <1>9, <2>2
    <3> QED BY <1>1, <1>5, <2>2, <3>1, <3>2 DEF LabelledAt, Returning
  <2>3. CASE p # r
    <3>1. label'[p] = label[p]
      BY <1>1, <2>3 DEF Types
    <3> QED BY <1>1, <1>7, <2>1, <2>3, <3>1 DEF LabelledAt
  <2> QED BY <2>2, <2>3
<1>18. Sole'
  <2> SUFFICES ASSUME NEW x \in Ser PROVE SoleAt(x)'
    BY DEF Sole
  <2>1. SoleAt(x)
    BY DEF Sole
  <2>2. CASE x = s
    <3>1. tag'[s] # NoReq
      BY <1>1, <1>13, Requests
    <3> QED BY <1>2, <1>3, <1>4, <1>5, <1>11, <2>1, <2>2, <3>1 DEF SoleAt
  <2>3. CASE x # s
    BY <1>1, <1>3, <1>4, <1>5, <1>11, <2>1, <2>3 DEF SoleAt
  <2> QED BY <2>2, <2>3
<1> QED BY <1>11, <1>14, <1>15, <1>16, <1>17, <1>18 DEF q, s, r

LEMMA NextKeeps == IInv /\ [Next]_vars => IInv'
<1> SUFFICES ASSUME IInv, [Next]_vars PROVE IInv'
  OBVIOUS
<1>1. CASE UNCHANGED vars
  <2>1. \A p : /\ Coming(p)' = Coming(p) /\ Queued(p)' = Queued(p) /\ Going(p)' = Going(p)
               /\ AtGate(p)' = AtGate(p) /\ Returning(p)' = Returning(p)
               /\ Beyond(p)' = Beyond(p) /\ Unsent(p)' = Unsent(p)
    BY <1>1 DEF vars, Coming, Queued, Going, AtGate, Returning, Beyond, Unsent
  <2>2. Types'
    BY <1>1 DEF vars, IInv, Types
  <2>3. Place'
    BY <1>1, <2>1 DEF vars, IInv, Place, PlaceAt
  <2>4. LineUp'
    BY <1>1 DEF vars, IInv, LineUp, LineUpAt
  <2>5. Labelled'
    BY <1>1, <2>1 DEF vars, IInv, Labelled, LabelledAt
  <2>6. Sole'
    BY <1>1, <2>1 DEF vars, IInv, Sole, SoleAt
  <2> QED BY <2>2, <2>3, <2>4, <2>5, <2>6 DEF IInv
<1>2. ASSUME NEW q \in Request, AtSerializer(q) PROVE IInv'
  <2> PICK m \in net : Accept(m) \/ Enqueue(m) \/ Release(m)
    BY <1>2 DEF AtSerializer
  <2> QED BY AcceptKeeps, EnqueueKeeps, ReleaseLastKeeps, ReleaseNextKeeps
<1>3. CASE Next
  <2>1. CASE Quiet
    BY <1>1, <2>1 DEF Quiet
  <2>2. CASE ~Quiet
    <3> PICK q \in Request :
          \/ Send(q) \/ TimedService(q) \/ TimerFires(q) \/ Begin(q) \/ Reply(q)
          \/ \E a \in Answer : Pass(q, a)
          \/ AtSerializer(q)
      BY <1>3, <2>2 DEF Next
    <3> QED BY <1>2, SendKeeps, TimedServiceKeeps, TimerFiresKeeps, BeginKeeps, ReplyKeeps, PassKeeps
  <2> QED BY <2>1, <2>2
<1> QED BY <1>1, <1>3

(* The invariant holds of every behaviour of the serializers, with any     *)
(* service behind them (serializer.lisp:182-214).                          *)
THEOREM Invariance == Spec => []IInv
BY InitIInv, NextKeeps, PTL DEF Spec


(* For any number of serializers and requests the variables have their     *)
(* types (serializer.lisp:182-214).                                        *)
THEOREM TypeCorrect == Spec => []Types
BY Invariance, PTL DEF IInv
-----------------------------------------------------------------------------
(* The requests that are through, in the words of the invariant.           *)
LEMMA ThroughBeyond ==
  IInv => \A s \in Ser : \A q : q \in Through(s) <=> q \in Request /\ At[q] = s /\ Beyond(q)
<1> SUFFICES ASSUME IInv, NEW s \in Ser, NEW q \in Request
             PROVE  (\E m \in net : m.kind = "tagged" /\ m.req = q) <=> Returning(q)
  BY DEF Through, Beyond, Going
<1>1. \A m \in net : m.kind = "tagged" => Returning(m.req)
  BY Taken
<1>2. \A a, g : Tagged(q, a, g).kind = "tagged" /\ Tagged(q, a, g).req = q
  BY DEF Tagged
<1> QED BY <1>1, <1>2 DEF Returning

(* A serializer lets its requests through one at a time, and an idle one   *)
(* has none, however late or often services answer                         *)
(* (serializer.lisp:195-214).                                              *)
THEOREM OneBeyond == Spec => []OneAtATime
<1>1. IInv => OneAtATime
  <2> SUFFICES ASSUME IInv, NEW s \in Ser
               PROVE  IF tag[s] = NoReq THEN Through(s) = {} /\ queue[s] = <<>>
                                        ELSE \E q \in Request : Through(s) = {q}
    BY DEF OneAtATime
  <2>1. SoleAt(s)
    BY DEF IInv, Sole
  <2>2. CASE tag[s] = NoReq
    BY <2>1, <2>2, ThroughBeyond DEF SoleAt
  <2>3. CASE tag[s] # NoReq
    <3>1. PICK q \in Request : At[q] = s /\ Beyond(q)
      BY <2>1, <2>3 DEF SoleAt
    <3>2. \A p : p \in Through(s) <=> p = q
      BY <2>1, <3>1, ThroughBeyond DEF SoleAt
    <3>3. Through(s) = {q}
      BY <3>2
    <3> QED BY <2>3, <3>3
  <2> QED BY <2>2, <2>3
<1> QED BY <1>1, Invariance, PTL

(* No answer of a service is ever taken for a request                      *)
(* (serializer.lisp:199, 211).                                             *)
THEOREM NoneAstray == Spec => []NoStrayAnswer
<1>1. IInv => NoStrayAnswer
  BY Taken DEF NoStrayAnswer
<1> QED BY <1>1, Invariance, PTL

-----------------------------------------------------------------------------
(* The line before a serializer: what is queued, behind the request that is*)
(* through, if there is one.                                               *)
LineIs(s) ==
  /\ (\A q \in Request : At[q] = s => ~Beyond(q)) => Line(s) = queue[s]
  /\ \A q \in Request : At[q] = s /\ Beyond(q) => Line(s) = <<q>> \o queue[s]
AllLines == \A s \in Ser : LineIs(s)

LEMMA Lines == IInv => AllLines
<1> SUFFICES ASSUME IInv, NEW s \in Ser PROVE LineIs(s)
  BY DEF AllLines
<1>1. ASSUME \A q \in Request : At[q] = s => ~Beyond(q) PROVE Line(s) = queue[s]
  <2>1. Through(s) = {}
    BY <1>1, ThroughBeyond
  <2> QED BY <2>1 DEF Line
<1>2. ASSUME NEW q \in Request, At[q] = s, Beyond(q) PROVE Line(s) = <<q>> \o queue[s]
  <2>1. \A p : p \in Through(s) <=> p = q
    BY <1>2, ThroughBeyond DEF IInv, Sole, SoleAt
  <2>2. Through(s) # {} /\ (CHOOSE p \in Through(s) : TRUE) = q
    BY <2>1
  <2> QED BY <2>2 DEF Line
<1> QED BY <1>1, <1>2 DEF LineIs

LEMMA LinesNext == IInv' => AllLines'
BY Lines, PTL

(* One in front of a sequence.                                             *)
LEMMA InFront ==
  ASSUME NEW S, NEW x \in S, NEW u \in Seq(S)
  PROVE  /\ Len(u) \in Nat /\ DOMAIN (<<x>> \o u) = 1..(Len(u) + 1)
         /\ (<<x>> \o u)[1] = x
         /\ \A j \in 2..(Len(u) + 1) : (<<x>> \o u)[j] = u[j - 1]
OBVIOUS

LEMMA LineGrows ==
  ASSUME NEW S, NEW u \in Seq(S), NEW x \in S, NEW y \in S
  PROVE  <<x>> \o Append(u, y) = Append(<<x>> \o u, y)
<1> DEFINE a == <<x>> \o Append(u, y)  b == Append(<<x>> \o u, y)  n == Len(u) + 2
<1>1. /\ Len(u) \in Nat /\ <<x>> \o u \in Seq(S) /\ Append(u, y) \in Seq(S)
      /\ Len(<<x>> \o u) = Len(u) + 1 /\ Len(Append(u, y)) = Len(u) + 1
  OBVIOUS
<1>2. a \in Seq(S) /\ b \in Seq(S) /\ Len(a) = n /\ Len(b) = n
  BY <1>1
<1>3. ASSUME NEW i \in 1..n PROVE a[i] = b[i]
  <2>1. CASE i = 1
    BY <1>1, <2>1
  <2>2. CASE i \in 2..(Len(u) + 1)
    BY <1>1, <2>2
  <2>3. CASE i = n
    BY <1>1, <2>3
  <2> QED BY <1>1, <2>1, <2>2, <2>3
<1> HIDE DEF a, b
<1> QED BY <1>1, <1>2, <1>3 DEF a, b

LEMMA SameLines ==
  ASSUME IInv, IInv', NEW s \in Ser, queue'[s] = queue[s],
         \A q \in Request : At[q] = s => (Beyond(q)' <=> Beyond(q))
  PROVE  Line(s)' = Line(s)
<1>1. LineIs(s) /\ LineIs(s)'
  BY Lines, LinesNext DEF AllLines
<1>2. CASE \A q \in Request : At[q] = s => ~Beyond(q)
  <2>1. \A q \in Request : At[q] = s => ~Beyond(q)'
    BY <1>2
  <2> QED BY <1>1, <1>2, <2>1 DEF LineIs
<1>3. CASE \E q \in Request : At[q] = s /\ Beyond(q)
  <2> PICK q \in Request : At[q] = s /\ Beyond(q)
    BY <1>3
  <2>1. Beyond(q)'
    OBVIOUS
  <2> QED BY <1>1, <2>1 DEF LineIs
<1> QED BY <1>2, <1>3

(* What happens to the lines in a step of a serializer.                    *)
LEMMA AcceptArrives ==
  ASSUME IInv, NEW m \in net, Accept(m)
  PROVE  Abstract!Arrive(m.req)
<1> DEFINE q == m.req  s == At[q]
<1>1. q \in Request /\ s \in Ser /\ Coming(q) /\ tag[s] = NoReq
  BY Proper, Requests DEF Accept
<1>2. /\ IInv' /\ UNCHANGED <<queue, inbox>>
      /\ \A p \in Request : Beyond(p)' <=> Beyond(p) \/ p = q
  BY AcceptKeeps
<1>3. queue[s] = <<>> /\ \A p \in Request : At[p] = s => ~Beyond(p)
  BY <1>1 DEF IInv, Sole, SoleAt
<1>4. Line(s) = <<>> /\ Line(s)' = <<q>>
  <2>1. LineIs(s) /\ LineIs(s)'
    BY <1>1, <1>2, Lines, LinesNext DEF AllLines
  <2>2. Line(s)' = <<q>> \o <<>>
    BY <1>1, <1>2, <1>3, <2>1 DEF LineIs
  <2> QED BY <1>1, <1>3, <2>1, <2>2 DEF LineIs
<1>5. \A r \in Ser : r # s => Line(r)' = Line(r)
  BY <1>2, SameLines
<1>6. inbox[q] = <<>>
  BY <1>1 DEF IInv, Place, PlaceAt
<1> QED BY <1>1, <1>2, <1>4, <1>5, <1>6 DEF Abstract!Arrive, Abstract!Waiting

LEMMA EnqueueArrives ==
  ASSUME IInv, NEW m \in net, Enqueue(m)
  PROVE  Abstract!Arrive(m.req)
<1> DEFINE q == m.req  s == At[q]
<1>1. /\ q \in Request /\ s \in Ser /\ Coming(q) /\ tag[s] # NoReq
      /\ queue' = [queue EXCEPT ![s] = Append(@, q)]
  BY Proper, Requests DEF Enqueue
<1>2. /\ IInv' /\ UNCHANGED inbox
      /\ \A p \in Request : Beyond(p)' <=> Beyond(p)
  BY EnqueueKeeps
<1>3. PICK x \in Request : At[x] = s /\ Beyond(x)
  BY <1>1 DEF IInv, Sole, SoleAt
<1>4. /\ queue[s] \in Seq(Request) /\ queue'[s] = Append(queue[s], q)
      /\ \A r \in Ser : r # s => queue'[r] = queue[r]
  BY <1>1 DEF IInv, Types
<1>5. Line(s) = <<x>> \o queue[s] /\ Line(s)' = <<x>> \o Append(queue[s], q)
  <2>1. LineIs(s) /\ LineIs(s)'
    BY <1>1, <1>2, Lines, LinesNext DEF AllLines
  <2> QED BY <1>2, <1>3, <1>4, <2>1 DEF LineIs
<1>6. Line(s)' = Append(Line(s), q)
  <2> PICK u : u = queue[s]
    OBVIOUS
  <2>1. u \in Seq(Request) /\ q \in Request /\ x \in Request
    BY <1>1, <1>3, <1>4
  <2>2. <<x>> \o Append(u, q) = Append(<<x>> \o u, q)
    BY <2>1, LineGrows
  <2> QED BY <1>5, <2>2
<1>7. \A r \in Ser : r # s => Line(r)' = Line(r)
  BY <1>2, <1>4, SameLines
<1>8. inbox[q] = <<>> /\ ~Queued(q) /\ x # q
  BY <1>1, <1>3 DEF IInv, Place, PlaceAt, Beyond
<1>9. \A i \in DOMAIN Line(s) : Line(s)[i] # q
  <2>1. SUFFICES ASSUME NEW i \in DOMAIN Line(s) PROVE Line(s)[i] # q
    OBVIOUS
  <2>2. /\ Len(queue[s]) \in Nat /\ DOMAIN Line(s) = 1..(Len(queue[s]) + 1)
        /\ Line(s)[1] = x
        /\ \A j \in 2..(Len(queue[s]) + 1) : Line(s)[j] = queue[s][j - 1]
    <3>1. Line(s) = <<x>> \o queue[s] /\ queue[s] \in Seq(Request) /\ x \in Request
      BY <1>3, <1>4, <1>5
    <3> QED BY <3>1, InFront
  <2>3. CASE i = 1
    BY <1>8, <2>2, <2>3
  <2>4. CASE i \in 2..(Len(queue[s]) + 1)
    <3>1. i - 1 \in 1..Len(queue[s])
      BY <2>2, <2>4
    <3> QED BY <1>8, <2>2, <2>4, <3>1 DEF Queued
  <2> QED BY <2>2, <2>3, <2>4
<1> QED BY <1>1, <1>2, <1>6, <1>7, <1>8, <1>9 DEF Abstract!Arrive, Abstract!Waiting

LEMMA ReleaseServes ==
  ASSUME IInv, NEW m \in net, Release(m)
  PROVE  Abstract!Serve(At[m.req])
<1> DEFINE q == m.req  s == At[q]
<1>1. /\ m.kind = "tagged" /\ inbox' = [inbox EXCEPT ![q] = Append(@, m.answer)]
      /\ IF queue[s] = <<>> THEN queue' = queue ELSE queue' = [queue EXCEPT ![s] = Tail(@)]
  BY DEF Release
<1>2. /\ q \in Request /\ s \in Ser /\ m.answer \in Answer /\ Beyond(q)
      /\ gate[q] = "shut" /\ queue[s] \in Seq(Request)
  BY <1>1, Taken, Requests DEF IInv, Types
<1>3. IInv'
  BY ReleaseLastKeeps, ReleaseNextKeeps
<1>4. inbox[q] = <<>>
  BY <1>2 DEF IInv, Place, PlaceAt
<1>5. inbox' = [inbox EXCEPT ![q] = <<m.answer>>]
  BY <1>1, <1>2, <1>4 DEF IInv, Types
<1>6. LineIs(s) /\ LineIs(s)'
  BY <1>2, <1>3, Lines, LinesNext DEF AllLines
<1>7. Line(s) = <<q>> \o queue[s]
  BY <1>2, <1>6 DEF LineIs
<1>8. Line(s) # <<>> /\ Head(Line(s)) = q /\ Tail(Line(s)) = queue[s]
  BY <1>2, <1>7
<1>9. \A p \in Request : At[p] = s /\ Beyond(p) => p = q
  BY <1>2 DEF IInv, Sole, SoleAt
<1>10. Line(s)' = queue[s] /\ \A r \in Ser : r # s => Line(r)' = Line(r)
  <2>1. CASE queue[s] = <<>>
    <3>1. \A p \in Request : Beyond(p)' <=> Beyond(p) /\ p # q
      BY <2>1, ReleaseLastKeeps
    <3>2. \A p \in Request : At[p] = s => ~Beyond(p)'
      BY <1>9, <3>1
    <3>3. Line(s)' = queue[s]
      BY <1>1, <1>6, <2>1, <3>2 DEF LineIs
    <3>4. \A r \in Ser : r # s => Line(r)' = Line(r)
      BY <1>1, <1>3, <2>1, <3>1, SameLines
    <3> QED BY <3>3, <3>4
  <2>2. CASE queue[s] # <<>>
    <3> PICK n \in Request : n = Head(queue[s])
      BY <1>2, <2>2, FirstAndRest
    <3>1. \A p \in Request : Beyond(p)' <=> (Beyond(p) /\ p # q) \/ p = n
      BY <2>2, ReleaseNextKeeps
    <3>2. At[n] = s
      <4>1. n = queue[s][1] /\ 1 \in 1..Len(queue[s])
        BY <1>2, <2>2, FirstAndRest
      <4> QED BY <1>2, <4>1 DEF IInv, LineUp, LineUpAt
    <3>3. queue'[s] = Tail(queue[s]) /\ \A r \in Ser : r # s => queue'[r] = queue[r]
      BY <1>1, <1>2, <2>2 DEF IInv, Types
    <3>4. Line(s)' = <<n>> \o Tail(queue[s])
      BY <1>6, <3>1, <3>2, <3>3 DEF LineIs
    <3>5. <<n>> \o Tail(queue[s]) = queue[s]
      BY <1>2, <2>2
    <3>6. \A r \in Ser : r # s => Line(r)' = Line(r)
      BY <1>3, <3>1, <3>2, <3>3, SameLines
    <3> QED BY <3>4, <3>5, <3>6
  <2> QED BY <2>1, <2>2
<1>11. [r \in Ser |-> Line(r)]' = [[r \in Ser |-> Line(r)] EXCEPT ![s] = Tail(@)]
  BY <1>2, <1>8, <1>10
<1> QED BY <1>2, <1>5, <1>8, <1>11 DEF Abstract!Serve

(* A step that moves nobody in a line is no step of the abstract service.  *)
LEMMA SameStutters ==
  ASSUME IInv, IInv', Same
  PROVE  UNCHANGED <<[s \in Ser |-> Line(s)], inbox>>
BY SameLines DEF Same

(* The serializers implement SerialService: whatever services and timers   *)
(* do, each answers its requests once, in the order in which they came     *)
(* (serializer.lisp:182-217).                                              *)
THEOREM Implementation == Spec => ServedInTurn
<1>1. Init => Abstract!Init
  <2> SUFFICES ASSUME Init PROVE Abstract!Init
    OBVIOUS
  <2>1. IInv
    BY InitIInv
  <2>2. \A s \in Ser : Line(s) = <<>>
    BY <2>1, Lines DEF Init, AllLines, LineIs, IInv, Sole, SoleAt
  <2> QED BY <2>2 DEF Init, Abstract!Init
<1>2. IInv /\ [Next]_vars =>
        [Abstract!Next]_<<[s \in Ser |-> Line(s)], inbox>>
  <2> SUFFICES ASSUME IInv, [Next]_vars
               PROVE  Abstract!Next \/ UNCHANGED <<[s \in Ser |-> Line(s)], inbox>>
    OBVIOUS
  <2>0. IInv'
    BY NextKeeps
  <2>1. CASE UNCHANGED vars
    <3>1. Same
      BY <2>1 DEF vars, Same, Beyond, Going, Returning
    <3> QED BY <2>0, <3>1, SameStutters
  <2>2. CASE Quiet
    BY <2>1, <2>2 DEF Quiet
  <2>3. CASE Next /\ ~Quiet
    <3> PICK q \in Request :
          \/ Send(q) \/ TimedService(q) \/ TimerFires(q) \/ Begin(q) \/ Reply(q)
          \/ \E a \in Answer : Pass(q, a)
          \/ AtSerializer(q)
      BY <2>3 DEF Next
    <3>1. CASE AtSerializer(q)
      <4> PICK m \in net : m.req = q /\ (Accept(m) \/ Enqueue(m) \/ Release(m))
        BY <3>1 DEF AtSerializer
      <4> QED BY AcceptArrives, EnqueueArrives, ReleaseServes, Requests DEF Abstract!Next
    <3>2. CASE ~AtSerializer(q)
      <4>1. Same
        BY <3>2, SendKeeps, TimedServiceKeeps, TimerFiresKeeps, BeginKeeps, ReplyKeeps, PassKeeps
      <4> QED BY <2>0, <4>1, SameStutters
    <3> QED BY <3>1, <3>2
  <2> QED BY <2>1, <2>2, <2>3
<1> QED BY <1>1, <1>2, Invariance, PTL DEF Spec, ServedInTurn, Abstract!Spec

=============================================================================
