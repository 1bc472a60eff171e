---------------------------- MODULE PartsProofs -----------------------------
(***************************************************************************)
(* Proofs about the parts that module MCParts puts side by side: the       *)
(* functional queue, the functional hash table, the ephemeral services of  *)
(* a connection, and the start and the end of the Actors system, for any   *)
(* constants.                                                              *)
(***************************************************************************)
EXTENDS MCParts, TLAPS, SequenceTheorems, FiniteSetTheorems, WellFoundedInduction

-----------------------------------------------------------------------------
(* The services of a connection (LocalServices).                           *)

ServiceTypes ==
  /\ copies \in [Services!Id -> Nat] /\ timers \in [Services!Id -> Seq(Nat)]
  /\ fresh \in [Services!Id -> Nat]

(* Each copy of an id has a timer, and the one set last has the time left  *)
(* since the last use.                                                     *)
Timing ==
  \A i \in Timed :
    /\ copies[i] = Len(timers[i])
    /\ fresh[i] > 0 => timers[i] # <<>> /\ timers[i][Len(timers[i])] = fresh[i]

ServiceInv == ServiceTypes /\ Timing

ServicesDo == Services!Next /\ UNCHANGED <<vars, queueVars, tableVars, startVars, part>>

(* One more copy.                                                          *)
LEMMA ListKeeps ==
  ASSUME ServiceInv, NEW i \in Services!Id, Services!List(i)
  PROVE  ServiceInv'
<1>1. Ttl \in Nat \ {0} /\ Timed \subseteq Services!Id
  BY PartsAssumption DEF Services!NamesAssumption, Services!Id
<1>2. /\ copies' = [copies EXCEPT ![i] = copies[i] + 1]
      /\ timers' = [timers EXCEPT ![i] = Append(timers[i], Ttl)]
      /\ fresh' = [fresh EXCEPT ![i] = Ttl]
  BY DEF Services!List
<1>3. ServiceTypes'
  BY <1>1, <1>2 DEF ServiceInv, ServiceTypes
<1>4. ASSUME NEW j \in Timed
      PROVE  /\ copies'[j] = Len(timers'[j])
             /\ fresh'[j] > 0 => timers'[j] # <<>> /\ timers'[j][Len(timers'[j])] = fresh'[j]
  <2>1. CASE j = i
    <3>1. PICK s \in Seq(Nat) : s = timers[i] /\ copies[i] = Len(s)
      BY <2>1 DEF ServiceInv, ServiceTypes, Timing
    <3>2. timers'[i] = Append(s, Ttl) /\ copies'[i] = copies[i] + 1 /\ fresh'[i] = Ttl
      BY <1>2, <3>1 DEF ServiceInv, ServiceTypes
    <3>3. /\ Len(Append(s, Ttl)) = Len(s) + 1 /\ Append(s, Ttl) # <<>>
          /\ Append(s, Ttl)[Len(s) + 1] = Ttl
      BY <1>1, <3>1
    <3> QED BY <2>1, <3>1, <3>2, <3>3
  <2>2. CASE j # i
    BY <1>1, <1>2, <2>2 DEF ServiceInv, ServiceTypes, Timing
  <2> QED BY <2>1, <2>2
<1> QED BY <1>3, <1>4 DEF ServiceInv, Timing

(* A timer goes off and removes a copy.                                    *)
LEMMA ExpireKeeps ==
  ASSUME ServiceInv, NEW i \in Services!Id, Services!Expire(i)
  PROVE  ServiceInv'
<1>1. Timed \subseteq Services!Id
  BY DEF Services!Id
<1>2. /\ timers[i] # <<>> /\ Head(timers[i]) = 0
      /\ timers' = [timers EXCEPT ![i] = Tail(timers[i])]
      /\ copies' = [copies EXCEPT ![i] = IF copies[i] = 0 THEN 0 ELSE copies[i] - 1]
      /\ fresh' = fresh
  BY DEF Services!Expire
<1>3. PICK s \in Seq(Nat) : s = timers[i] /\ s # <<>> /\ Head(s) = 0
  BY <1>2 DEF ServiceInv, ServiceTypes
<1>4. /\ Tail(s) \in Seq(Nat) /\ Len(Tail(s)) = Len(s) - 1 /\ Len(s) \in Nat \ {0}
      /\ \A k \in 1..Len(Tail(s)) : Tail(s)[k] = s[k + 1]
      /\ s[1] = 0
  BY <1>3
<1>5. ServiceTypes'
  BY <1>2, <1>3, <1>4 DEF ServiceInv, ServiceTypes
<1>6. ASSUME NEW j \in Timed
      PROVE  /\ copies'[j] = Len(timers'[j])
             /\ fresh'[j] > 0 => timers'[j] # <<>> /\ timers'[j][Len(timers'[j])] = fresh'[j]
  <2>1. CASE j = i
    <3>1. /\ copies[i] = Len(s) /\ (fresh[i] > 0 => s[Len(s)] = fresh[i])
          /\ timers'[i] = Tail(s) /\ copies'[i] = copies[i] - 1
      BY <1>2, <1>3, <1>4, <2>1 DEF ServiceInv, ServiceTypes, Timing
    <3>2. ASSUME fresh[i] > 0 PROVE Tail(s) # <<>> /\ Tail(s)[Len(Tail(s))] = fresh[i]
      <4>1. Len(s) # 1
        BY <1>4, <3>1, <3>2
      <4>2. Len(Tail(s)) \in 1..Len(Tail(s)) /\ Len(Tail(s)) + 1 = Len(s)
        BY <1>4, <4>1
      <4>3. Tail(s)[Len(Tail(s))] = s[Len(Tail(s)) + 1]
        BY <1>4, <4>2
      <4>4. Tail(s) # <<>>
        BY <4>2
      <4> QED BY <3>1, <3>2, <4>2, <4>3, <4>4
    <3> QED BY <1>2, <1>4, <2>1, <3>1, <3>2
  <2>2. CASE j # i
    BY <1>1, <1>2, <2>2 DEF ServiceInv, ServiceTypes, Timing
  <2> QED BY <2>1, <2>2
<1> QED BY <1>5, <1>6 DEF ServiceInv, Timing

(* Time passes.                                                            *)
LEMMA TickKeeps ==
  ASSUME ServiceInv, Services!Tick
  PROVE  ServiceInv'
<1>1. Timed \subseteq Services!Id
  BY DEF Services!Id
<1>2. /\ timers' = [i \in Services!Id |-> [k \in DOMAIN timers[i] |-> Services!Less(timers[i][k])]]
      /\ fresh' = [i \in Services!Id |-> Services!Less(fresh[i])]
      /\ copies' = copies
  BY DEF Services!Tick
<1>3. \A n \in Nat : Services!Less(n) \in Nat /\ (Services!Less(n) > 0 => n > 0)
  BY DEF Services!Less
<1>4. ASSUME NEW i \in Services!Id
      PROVE  /\ timers'[i] \in Seq(Nat) /\ Len(timers'[i]) = Len(timers[i])
             /\ \A k \in 1..Len(timers[i]) : timers'[i][k] = Services!Less(timers[i][k])
  <2>1. PICK s \in Seq(Nat), n \in Nat : s = timers[i] /\ n = Len(s)
    BY DEF ServiceInv, ServiceTypes
  <2>2. DOMAIN s = 1..n /\ \A k \in 1..n : s[k] \in Nat
    BY <2>1
  <2>3. timers'[i] = [k \in 1..n |-> Services!Less(s[k])]
    BY <1>2, <2>1, <2>2
  <2>4. timers'[i] \in Seq(Nat) /\ Len(timers'[i]) = n
    <3>1. timers'[i] \in [1..n -> Nat]
      BY <1>3, <2>2, <2>3
    <3> QED BY <3>1
  <2> QED BY <2>1, <2>3, <2>4
<1>5. ServiceTypes'
  BY <1>2, <1>3, <1>4 DEF ServiceInv, ServiceTypes
<1>6. ASSUME NEW j \in Timed
      PROVE  /\ copies'[j] = Len(timers'[j])
             /\ fresh'[j] > 0 => timers'[j] # <<>> /\ timers'[j][Len(timers'[j])] = fresh'[j]
  <2>1. copies'[j] = Len(timers'[j]) /\ fresh'[j] = Services!Less(fresh[j])
    BY <1>1, <1>2, <1>4 DEF ServiceInv, Timing
  <2>2. ASSUME fresh'[j] > 0
        PROVE  timers'[j] # <<>> /\ timers'[j][Len(timers'[j])] = fresh'[j]
    <3>1. timers[j] # <<>> /\ timers[j][Len(timers[j])] = fresh[j]
      BY <1>1, <1>3, <2>1, <2>2 DEF ServiceInv, ServiceTypes, Timing
    <3>2. Len(timers[j]) \in 1..Len(timers[j])
      BY <1>1, <3>1 DEF ServiceInv, ServiceTypes
    <3> QED BY <1>1, <1>4, <2>1, <3>1, <3>2
  <2> QED BY <2>1, <2>2
<1> QED BY <1>5, <1>6 DEF ServiceInv, Timing

LEMMA ServicesKeep ==
  ASSUME ServiceInv, Services!Next \/ UNCHANGED serviceVars
  PROVE  ServiceInv'
<1>1. ASSUME UNCHANGED <<copies, timers, fresh>> PROVE ServiceInv'
  BY <1>1 DEF ServiceInv, ServiceTypes, Timing
<1>2. ASSUME NEW o \in Outgoing, NEW i \in Timed, Services!ListNext(o, i) PROVE ServiceInv'
  BY <1>2, ListKeeps DEF Services!ListNext, Services!Id
<1>3. ASSUME NEW i \in Services!Id, Services!Deliver(i) PROVE ServiceInv'
  <2>1. CASE i \in Timed /\ copies[i] > 0 /\ Services!Prolong(i)
    BY <2>1, ListKeeps DEF Services!Prolong
  <2>2. CASE /\ i \in Brief /\ copies[i] > 0
             /\ copies' = [copies EXCEPT ![i] = copies[i] - 1]
             /\ UNCHANGED <<timers, fresh>>
    <3>1. i \notin Timed /\ Timed \subseteq Services!Id
      BY <2>2, PartsAssumption DEF Services!NamesAssumption, Services!Id
    <3>2. copies[i] - 1 \in Nat
      BY <2>2 DEF ServiceInv, ServiceTypes
    <3> QED BY <2>2, <3>1, <3>2 DEF ServiceInv, ServiceTypes, Timing
  <2>3. CASE UNCHANGED <<copies, timers, fresh>>
    BY <1>1, <2>3
  <2> QED BY <1>3, <2>1, <2>2, <2>3 DEF Services!Deliver
<1>4. ASSUME NEW o, Services!GoOut(o) PROVE ServiceInv'
  BY <1>1, <1>4 DEF Services!GoOut
<1>5. ASSUME NEW i, Services!PeerSends(i) PROVE ServiceInv'
  BY <1>1, <1>5 DEF Services!PeerSends
<1>6. ASSUME UNCHANGED serviceVars PROVE ServiceInv'
  BY <1>1, <1>6 DEF serviceVars
<1> QED BY <1>2, <1>3, <1>4, <1>5, <1>6, ExpireKeeps, TickKeeps DEF Services!Next

LEMMA ServicesBegin == Services!Init => ServiceInv
<1> SUFFICES ASSUME Services!Init PROVE ServiceInv
  OBVIOUS
<1>1. /\ Ttl \in Nat \ {0} /\ Timed \subseteq Services!Id
      /\ <<Ttl>> \in Seq(Nat) /\ Len(<<Ttl>>) = 1 /\ <<Ttl>>[1] = Ttl
  BY PartsAssumption DEF Services!NamesAssumption, Services!Id
<1>2. /\ copies = [i \in Services!Id |-> IF i \in Services!Named THEN 0 ELSE 1]
      /\ timers = [i \in Services!Id |-> IF i \in Timed \ Services!Named THEN <<Ttl>> ELSE <<>>]
      /\ fresh = [i \in Services!Id |-> IF i \in Timed \ Services!Named THEN Ttl ELSE 0]
  BY DEF Services!Init
<1>3. ServiceTypes
  BY <1>1, <1>2 DEF ServiceTypes
<1>4. Timing
  BY <1>1, <1>2 DEF Timing
<1> QED BY <1>3, <1>4 DEF ServiceInv

(* While the time since an id was listed or used last is not over, the id  *)
(* is listed, however many removals of earlier uses are under way.         *)
THEOREM ServicesKept == MCSpec => []KeptWhileUsed
<1>1. MCInit => ServiceInv
  BY ServicesBegin DEF MCInit
<1>2. ServiceInv /\ [MCNext]_all => ServiceInv'
  BY ServicesKeep DEF MCNext, all
<1>3. ServiceInv => KeptWhileUsed
  <2> SUFFICES ASSUME ServiceInv, NEW i \in Timed, fresh[i] > 0 PROVE copies[i] > 0
    BY DEF KeptWhileUsed, Services!KeptWhileUsed
  <2>1. copies[i] = Len(timers[i]) /\ timers[i] # <<>> /\ timers[i] \in Seq(Nat)
    BY DEF ServiceInv, ServiceTypes, Timing, Services!Id
  <2> QED BY <2>1
<1> QED BY <1>1, <1>2, <1>3, PTL DEF MCSpec

-----------------------------------------------------------------------------
(* The functional queue (CheapQ).                                          *)

QueueTypes == q \in [hd : Seq(Item), tl : Seq(Item)]
QueueInv   == QueueTypes /\ StandsForSequence

(* The sequence that a front list and a rear list stand for.               *)
Stands(front, rear) == front \o Queue!Reverse(rear)

LEMMA Reversed ==
  ASSUME NEW S, NEW s \in Seq(S)
  PROVE  /\ Queue!Reverse(s) \in Seq(S) /\ Len(Queue!Reverse(s)) = Len(s)
         /\ \A i \in 1..Len(s) : Queue!Reverse(s)[i] = s[(Len(s) - i) + 1]
<1>1. PICK n \in Nat : n = Len(s)
  OBVIOUS
<1>2. \A i \in 1..n : s[i] \in S
  BY <1>1
<1>3. Queue!Reverse(s) = [i \in 1..n |-> s[(n - i) + 1]]
  BY <1>1 DEF Queue!Reverse
<1>4. \A i \in 1..n : (n - i) + 1 \in 1..n
  OBVIOUS
<1>5. Queue!Reverse(s) \in [1..n -> S]
  BY <1>2, <1>3, <1>4
<1>6. Queue!Reverse(s) \in Seq(S) /\ Len(Queue!Reverse(s)) = n
  BY <1>5
<1> QED BY <1>1, <1>3, <1>6

LEMMA ReversedEmpty == Queue!Reverse(<<>>) = <<>>
<1>1. <<>> \in Seq({}) /\ Len(<<>>) = 0
  OBVIOUS
<1>2. Queue!Reverse(<<>>) \in Seq({}) /\ Len(Queue!Reverse(<<>>)) = 0
  BY <1>1, Reversed
<1> QED BY <1>2

(* What is put in front of the rear list comes last.                       *)
LEMMA ReversedCons ==
  ASSUME NEW S, NEW s \in Seq(S), NEW x \in S
  PROVE  Queue!Reverse(<<x>> \o s) = Append(Queue!Reverse(s), x)
<1> DEFINE more == <<x>> \o s
           r    == Queue!Reverse(s)
<1>1. /\ more \in Seq(S) /\ Len(more) = Len(s) + 1 /\ Len(s) \in Nat
      /\ more[1] = x /\ \A i \in 1..Len(s) : more[i + 1] = s[i]
  <2>1. <<x>> \in Seq(S) /\ Len(<<x>>) = 1 /\ <<x>>[1] = x /\ Len(s) \in Nat
    OBVIOUS
  <2>2. /\ more \in Seq(S) /\ Len(more) = 1 + Len(s)
        /\ \A i \in 1..(1 + Len(s)) : more[i] = IF i <= 1 THEN <<x>>[i] ELSE s[i - 1]
    BY <2>1, ConcatProperties
  <2> HIDE DEF more
  <2>3. 1 \in 1..(1 + Len(s)) /\ \A i \in 1..Len(s) : i + 1 \in 1..(1 + Len(s)) /\ ~(i + 1 <= 1)
    BY <2>1
  <2>4. more[1] = x
    BY <2>1, <2>2, <2>3
  <2>5. ASSUME NEW i \in 1..Len(s) PROVE more[i + 1] = s[i]
    <3>1. more[i + 1] = s[(i + 1) - 1]
      BY <2>2, <2>3
    <3> QED BY <2>1, <3>1
  <2> QED BY <2>1, <2>2, <2>4, <2>5
<1>2. /\ r \in Seq(S) /\ Len(r) = Len(s)
      /\ \A i \in 1..Len(s) : r[i] = s[(Len(s) - i) + 1]
  BY Reversed
<1>3. /\ Queue!Reverse(more) \in Seq(S) /\ Len(Queue!Reverse(more)) = Len(s) + 1
      /\ \A i \in 1..(Len(s) + 1) : Queue!Reverse(more)[i] = more[((Len(s) + 1) - i) + 1]
  <2> HIDE DEF more
  <2>1. /\ Queue!Reverse(more) \in Seq(S) /\ Len(Queue!Reverse(more)) = Len(more)
        /\ \A i \in 1..Len(more) : Queue!Reverse(more)[i] = more[(Len(more) - i) + 1]
    BY <1>1, Reversed
  <2> QED BY <1>1, <2>1
<1>4. /\ Append(r, x) \in Seq(S) /\ Len(Append(r, x)) = Len(s) + 1
      /\ \A i \in 1..Len(s) : Append(r, x)[i] = r[i]
      /\ Append(r, x)[Len(s) + 1] = x
  BY <1>2, AppendProperties
<1> HIDE DEF more, r
<1>5. ASSUME NEW i \in 1..(Len(s) + 1) PROVE Queue!Reverse(more)[i] = Append(r, x)[i]
  <2>1. CASE i = Len(s) + 1
    <3>1. ((Len(s) + 1) - i) + 1 = 1
      BY <1>1, <2>1
    <3> QED BY <1>1, <1>3, <1>4, <2>1, <3>1
  <2>2. CASE i # Len(s) + 1
    <3>1. i \in 1..Len(s) /\ (Len(s) - i) + 1 \in 1..Len(s)
      BY <1>1, <2>2
    <3>2. ((Len(s) + 1) - i) + 1 = ((Len(s) - i) + 1) + 1
      BY <1>1
    <3>3. Queue!Reverse(more)[i] = s[(Len(s) - i) + 1]
      BY <1>1, <1>3, <3>1, <3>2
    <3> QED BY <1>2, <1>4, <3>1, <3>3
  <2> QED BY <2>1, <2>2
<1> QED BY <1>3, <1>4, <1>5, SeqEqual DEF more, r

(* Normalising changes neither the sequence nor its items, and a queue     *)
(* with items has a front list afterwards.                                 *)
LEMMA Normalised ==
  ASSUME NEW front \in Seq(Item), NEW rear \in Seq(Item),
         NEW n, n = Queue!NormQ([hd |-> front, tl |-> rear])
  PROVE  /\ n \in [hd : Seq(Item), tl : Seq(Item)]
         /\ Stands(n.hd, n.tl) = Stands(front, rear)
         /\ n.hd = <<>> <=> Stands(front, rear) = <<>>
<1>1. Queue!Reverse(rear) \in Seq(Item) /\ <<>> \in Seq(Item)
  BY Reversed
<1>2. CASE front # <<>>
  <2>1. n = [hd |-> front, tl |-> rear]
    BY <1>2 DEF Queue!NormQ
  <2>2. Stands(front, rear) # <<>>
    BY <1>1, <1>2, ConcatEqualIffEmpty DEF Stands
  <2> QED BY <1>2, <2>1, <2>2
<1>3. CASE front = <<>>
  <2>1. n = [hd |-> Queue!Reverse(rear), tl |-> <<>>]
    BY <1>3 DEF Queue!NormQ
  <2>2. Stands(n.hd, n.tl) = Queue!Reverse(rear)
    <3>1. n.hd = Queue!Reverse(rear) /\ n.tl = <<>>
      BY <2>1
    <3>2. Stands(n.hd, n.tl) = Queue!Reverse(rear) \o <<>>
      BY <3>1, ReversedEmpty DEF Stands
    <3> QED BY <1>1, <3>2, ConcatEmptySeq
  <2>3. Stands(front, rear) = Queue!Reverse(rear)
    BY <1>1, <1>3, ConcatEmptySeq DEF Stands
  <2>4. n \in [hd : Seq(Item), tl : Seq(Item)] /\ n.hd = Queue!Reverse(rear)
    <3> DEFINE turned == Queue!Reverse(rear)
    <3>1. PICK none : none = <<>>
      OBVIOUS
    <3>2. n = [hd |-> turned, tl |-> none] /\ turned \in Seq(Item) /\ none \in Seq(Item)
      BY <1>1, <2>1, <3>1
    <3> HIDE DEF turned
    <3>3. n \in [hd : Seq(Item), tl : Seq(Item)] /\ n.hd = turned
      BY <3>2
    <3> QED BY <3>3 DEF turned
  <2> QED BY <2>2, <2>3, <2>4
<1> QED BY <1>2, <1>3

(* One item behind two lists, and in front of them.                        *)
LEMMA AroundBoth ==
  ASSUME NEW x \in Item, NEW front \in Seq(Item), NEW rear \in Seq(Item)
  PROVE  /\ front \o (rear \o <<x>>) = (front \o rear) \o <<x>>
         /\ (<<x>> \o front) \o rear = <<x>> \o (front \o rear)
<1>1. PICK one : one = <<x>>
  OBVIOUS
<1>2. one \in Seq(Item)
  BY <1>1
<1>3. front \o (rear \o one) = (front \o rear) \o one
  BY <1>2, ConcatAssociative
<1>4. (one \o front) \o rear = one \o (front \o rear)
  BY <1>2, ConcatAssociative
<1> QED BY <1>1, <1>3, <1>4

LEMMA QueueMeans ==
  StandsForSequence <=>
    Stands(q.hd, q.tl) = ref /\ (q.hd = <<>> <=> ref = <<>>) /\ popped = first
BY DEF StandsForSequence, Queue!StandsForSequence, Queue!EmptyQ, Stands

LEMMA AddKeeps ==
  ASSUME QueueInv, NEW x \in Item, Queue!Add(x)
  PROVE  QueueInv'
<1>1. /\ q.hd \in Seq(Item) /\ q.tl \in Seq(Item) /\ Stands(q.hd, q.tl) = ref
      /\ popped = first
  BY QueueMeans DEF QueueInv, QueueTypes
<1>2. /\ q' = Queue!NormQ([hd |-> q.hd, tl |-> <<x>> \o q.tl]) /\ ref' = Append(ref, x)
      /\ UNCHANGED <<popped, first>>
  BY DEF Queue!Add, Queue!AddQ
<1>3. <<x>> \in Seq(Item) /\ <<x>> \o q.tl \in Seq(Item) /\ Queue!Reverse(q.tl) \in Seq(Item)
  BY <1>1, ConcatProperties, Reversed
<1>4. Stands(q.hd, <<x>> \o q.tl) = ref'
  <2>1. Stands(q.hd, <<x>> \o q.tl) = q.hd \o (Queue!Reverse(q.tl) \o <<x>>)
    BY <1>1, <1>3, ReversedCons, AppendIsConcat DEF Stands
  <2>2. ref \in Seq(Item) /\ ref' = ref \o <<x>>
    BY <1>1, <1>2, <1>3, ConcatProperties, AppendIsConcat DEF Stands
  <2>3. q.hd \o (Queue!Reverse(q.tl) \o <<x>>) = (q.hd \o Queue!Reverse(q.tl)) \o <<x>>
    BY <1>1, <1>3, AroundBoth
  <2>4. q.hd \o Queue!Reverse(q.tl) = ref
    BY <1>1 DEF Stands
  <2> QED BY <2>1, <2>2, <2>3, <2>4
<1>5. /\ QueueTypes' /\ Stands(q'.hd, q'.tl) = ref' /\ (q'.hd = <<>> <=> ref' = <<>>)
  <2> DEFINE more == <<x>> \o q.tl
  <2>1. /\ q' = Queue!NormQ([hd |-> q.hd, tl |-> more]) /\ more \in Seq(Item)
        /\ q.hd \in Seq(Item) /\ Stands(q.hd, more) = ref'
    BY <1>1, <1>2, <1>3, <1>4
  <2> HIDE DEF more
  <2> QED BY <2>1, Normalised DEF QueueTypes
<1> QED BY <1>1, <1>2, <1>5
       DEF QueueInv, StandsForSequence, Queue!StandsForSequence, Queue!EmptyQ, Stands

LEMMA PushKeeps ==
  ASSUME QueueInv, NEW x \in Item, Queue!Push(x)
  PROVE  QueueInv'
<1>1. /\ q.hd \in Seq(Item) /\ q.tl \in Seq(Item) /\ Stands(q.hd, q.tl) = ref
      /\ popped = first
  BY QueueMeans DEF QueueInv, QueueTypes
<1>2. /\ q' = [hd |-> <<x>> \o q.hd, tl |-> q.tl] /\ ref' = <<x>> \o ref
      /\ UNCHANGED <<popped, first>>
  BY DEF Queue!Push, Queue!PushQ
<1>3. /\ <<x>> \in Seq(Item) /\ <<x>> \o q.hd \in Seq(Item) /\ Queue!Reverse(q.tl) \in Seq(Item)
      /\ ref \in Seq(Item) /\ <<x>> # <<>>
  <2>1. <<x>> \in Seq(Item) /\ <<x>> # <<>>
    OBVIOUS
  <2>2. <<x>> \o q.hd \in Seq(Item) /\ Queue!Reverse(q.tl) \in Seq(Item)
    BY <1>1, <2>1, ConcatProperties, Reversed
  <2>3. q.hd \o Queue!Reverse(q.tl) \in Seq(Item)
    BY <1>1, <2>2, ConcatProperties
  <2>4. ref \in Seq(Item)
    BY <1>1, <2>3 DEF Stands
  <2> QED BY <2>1, <2>2, <2>4
<1>4. Stands(q'.hd, q'.tl) = ref'
  <2>1. q'.hd = <<x>> \o q.hd /\ q'.tl = q.tl
    BY <1>2
  <2>2. (<<x>> \o q.hd) \o Queue!Reverse(q.tl) = <<x>> \o (q.hd \o Queue!Reverse(q.tl))
    BY <1>1, <1>3, AroundBoth
  <2> QED BY <1>1, <1>2, <2>1, <2>2 DEF Stands
<1>5. q'.hd # <<>> /\ ref' # <<>>
  BY <1>1, <1>2, <1>3, ConcatEqualIffEmpty
<1> QED BY <1>1, <1>2, <1>3, <1>4, <1>5
       DEF QueueInv, QueueTypes, StandsForSequence, Queue!StandsForSequence, Queue!EmptyQ, Stands

(* The first of two lists, and what is left of both without it.            *)
LEMMA FirstOfBoth ==
  ASSUME NEW front \in Seq(Item), front # <<>>, NEW rear \in Seq(Item)
  PROVE  /\ Head(front \o rear) = Head(front)
         /\ Tail(front \o rear) = Tail(front) \o rear
<1> DEFINE h    == Head(front)
           t    == Tail(front)
<1>1. h \in Item /\ t \in Seq(Item) /\ front = <<h>> \o t
  <2>1. /\ h \in Item /\ t \in Seq(Item) /\ Len(t) = Len(front) - 1 /\ h = front[1]
        /\ \A i \in 1..Len(t) : t[i] = front[i + 1]
        /\ Len(front) \in Nat \ {0}
    BY HeadTailProperties, EmptySeq
  <2>2. <<h>> \in Seq(Item) /\ Len(<<h>>) = 1 /\ <<h>>[1] = h
    BY <2>1
  <2>3. /\ <<h>> \o t \in Seq(Item) /\ Len(<<h>> \o t) = 1 + Len(t)
        /\ \A i \in 1..(1 + Len(t)) : (<<h>> \o t)[i] = IF i <= 1 THEN <<h>>[i] ELSE t[i - 1]
    BY <2>1, <2>2, ConcatProperties
  <2> HIDE DEF h, t
  <2>4. ASSUME NEW i \in 1..Len(front) PROVE front[i] = (<<h>> \o t)[i]
    <3>1. CASE i = 1
      BY <2>1, <2>2, <2>3, <3>1
    <3>2. CASE i # 1
      <4>1. i - 1 \in 1..Len(t) /\ (i - 1) + 1 = i /\ ~(i <= 1) /\ i \in 1..(1 + Len(t))
        BY <2>1, <3>2
      <4> QED BY <2>1, <2>3, <4>1
    <3> QED BY <3>1, <3>2
  <2>5. Len(front) = Len(<<h>> \o t)
    BY <2>1, <2>3
  <2> QED BY <2>1, <2>3, <2>4, <2>5, SeqEqual
<1>2. t \o rear \in Seq(Item) /\ <<h>> \in Seq(Item)
  BY <1>1, ConcatProperties
<1> HIDE DEF h, t
<1>3. front \o rear = <<h>> \o (t \o rear)
  BY <1>1, <1>2, ConcatAssociative
<1>4. ASSUME NEW s \in Seq(Item) PROVE Head(<<h>> \o s) = h /\ Tail(<<h>> \o s) = s
  <2> DEFINE hs == <<h>> \o s
  <2>1. /\ hs \in Seq(Item) /\ Len(hs) = 1 + Len(s) /\ Len(s) \in Nat
        /\ \A i \in 1..(1 + Len(s)) : hs[i] = IF i <= 1 THEN <<h>>[i] ELSE s[i - 1]
    BY <1>2, ConcatProperties
  <2>2. <<h>>[1] = h
    OBVIOUS
  <2> HIDE DEF hs
  <2>3. hs # <<>> /\ Head(hs) = hs[1] /\ hs[1] = h
    BY <2>1, <2>2
  <2>4. /\ Tail(hs) \in Seq(Item) /\ Len(Tail(hs)) = Len(s)
        /\ \A i \in 1..Len(s) : Tail(hs)[i] = hs[i + 1]
    BY <2>1, <2>3, HeadTailProperties
  <2>5. ASSUME NEW i \in 1..Len(s) PROVE Tail(hs)[i] = s[i]
    <3>1. i + 1 \in 1..(1 + Len(s)) /\ ~(i + 1 <= 1) /\ (i + 1) - 1 = i
      BY <2>1
    <3> QED BY <2>1, <2>4, <3>1
  <2>6. Tail(hs) = s
    BY <2>4, <2>5, SeqEqual
  <2> QED BY <2>3, <2>6 DEF hs
<1> QED BY <1>2, <1>3, <1>4 DEF h, t

LEMMA PopKeeps ==
  ASSUME QueueInv, Queue!Pop
  PROVE  QueueInv'
<1>1. /\ q.hd \in Seq(Item) /\ q.tl \in Seq(Item) /\ Stands(q.hd, q.tl) = ref
      /\ q.hd = <<>> <=> ref = <<>>
  BY QueueMeans DEF QueueInv, QueueTypes
<1>2. /\ popped' = Queue!PopQ(q).item /\ q' = Queue!PopQ(q).rest
      /\ first' = IF ref = <<>> THEN Nothing ELSE Head(ref)
      /\ ref' = IF ref = <<>> THEN <<>> ELSE Tail(ref)
  BY DEF Queue!Pop
<1>3. CASE ref = <<>>
  <2>1. popped' = Nothing /\ first' = Nothing /\ q' = [hd |-> <<>>, tl |-> <<>>] /\ ref' = <<>>
    BY <1>1, <1>2, <1>3 DEF Queue!PopQ, Queue!EmptyQ, Queue!Nil
  <2>2. Stands(<<>>, <<>>) = <<>>
    BY ReversedEmpty DEF Stands
  <2>3. q'.hd = <<>> /\ q'.tl = <<>> /\ <<>> \in Seq(Item)
    BY <2>1
  <2> QED BY <2>1, <2>2, <2>3
         DEF QueueInv, QueueTypes, StandsForSequence, Queue!StandsForSequence, Queue!EmptyQ, Stands
<1>4. CASE ref # <<>>
  <2>1. /\ q.hd # <<>> /\ popped' = Head(q.hd) /\ first' = Head(ref) /\ ref' = Tail(ref)
        /\ q' = Queue!NormQ([hd |-> Tail(q.hd), tl |-> q.tl])
    BY <1>1, <1>2, <1>4 DEF Queue!PopQ, Queue!EmptyQ, Queue!RestQ
  <2>2. Queue!Reverse(q.tl) \in Seq(Item) /\ Tail(q.hd) \in Seq(Item)
    BY <1>1, <2>1, Reversed, HeadTailProperties
  <2>3. Head(ref) = Head(q.hd) /\ Tail(ref) = Stands(Tail(q.hd), q.tl)
    BY <1>1, <2>1, <2>2, FirstOfBoth DEF Stands
  <2>4. /\ q' \in [hd : Seq(Item), tl : Seq(Item)]
        /\ Stands(q'.hd, q'.tl) = Stands(Tail(q.hd), q.tl)
        /\ q'.hd = <<>> <=> Stands(Tail(q.hd), q.tl) = <<>>
    <3> DEFINE t == Tail(q.hd)
    <3>1. t \in Seq(Item) /\ q.tl \in Seq(Item) /\ q' = Queue!NormQ([hd |-> t, tl |-> q.tl])
      BY <1>1, <2>1, <2>2
    <3> HIDE DEF t
    <3>2. /\ q' \in [hd : Seq(Item), tl : Seq(Item)]
          /\ Stands(q'.hd, q'.tl) = Stands(t, q.tl)
          /\ q'.hd = <<>> <=> Stands(t, q.tl) = <<>>
      BY <3>1, Normalised
    <3> QED BY <3>2 DEF t
  <2>5. /\ QueueTypes' /\ Stands(q'.hd, q'.tl) = ref' /\ (q'.hd = <<>> <=> ref' = <<>>)
    BY <2>1, <2>3, <2>4 DEF QueueTypes
  <2> QED BY <2>1, <2>3, <2>5
         DEF QueueInv, StandsForSequence, Queue!StandsForSequence, Queue!EmptyQ, Stands
<1> QED BY <1>3, <1>4

(* The two lists stand for what was added and pushed and not popped, in    *)
(* order; a queue with items never looks empty; POPQ gives the first item. *)
THEOREM QueueIsSequence == MCSpec => []StandsForSequence
<1>1. MCInit => QueueInv
  <2> SUFFICES ASSUME MCInit PROVE QueueInv
    OBVIOUS
  <2>1. q = [hd |-> <<>>, tl |-> <<>>] /\ popped = Nothing /\ ref = <<>> /\ first = Nothing
    BY DEF MCInit, Queue!Init, Queue!Nil
  <2>2. q.hd = <<>> /\ q.tl = <<>> /\ <<>> \in Seq(Item)
    BY <2>1
  <2>3. Stands(<<>>, <<>>) = <<>>
    BY ReversedEmpty DEF Stands
  <2> QED BY <2>1, <2>2, <2>3, QueueMeans DEF QueueInv, QueueTypes
<1>2. QueueInv /\ [MCNext]_all => QueueInv'
  <2> SUFFICES ASSUME QueueInv, [MCNext]_all PROVE QueueInv'
    OBVIOUS
  <2>1. Queue!Next \/ UNCHANGED <<q, popped, ref, first>>
    BY DEF MCNext, all, queueVars
  <2>2. ASSUME UNCHANGED <<q, popped, ref, first>> PROVE QueueInv'
    BY <2>2 DEF QueueInv, QueueTypes, StandsForSequence, Queue!StandsForSequence, Queue!EmptyQ
  <2> QED BY <2>1, <2>2, AddKeeps, PushKeeps, PopKeeps DEF Queue!Next
<1>3. QueueInv => StandsForSequence
  BY DEF QueueInv
<1> QED BY <1>1, <1>2, <1>3, PTL DEF MCSpec

-----------------------------------------------------------------------------
(* The start and the end of the Actors system (Startup).                   *)

Running == { e \in DOMAIN execs : execs[e] # System!Dead }

SystemTypes ==
  /\ busy \in System!Foreign \cup {Nobody}
  /\ task = [t \in System!Foreign |-> task[t]]
  /\ queue \in Seq({"ensure", "kill"})
  /\ boxes \in Seq(SUBSET System!Foreign) /\ boxes # <<>>
  /\ execs \in Seq(Int)
  /\ \A e \in DOMAIN execs : execs[e] \in {System!Dead, System!Looking} \cup 1..Len(boxes)
  /\ custodian \in [count : Nat, threads : SUBSET Nat]

(* Only the thread that keeps the custodian busy has work of it to do.     *)
OneAtWork ==
  /\ \A t \in System!Foreign : task[t].do # "none" => t = busy
  /\ busy # Nobody => task[busy].do \in {"ensure", "add", "become", "kill"}

(* The list lacks just the thread started by an :ADD-EXECUTIVE that has not *)
(* reached its BECOME; nothing else of the custodian has changed since.    *)
ListedBut ==
  /\ IsFiniteSet(custodian.threads) /\ Cardinality(custodian.threads) <= Pool
  /\ (busy = Nobody \/ task[busy].do # "become") => custodian.threads = Running
  /\ \A t \in System!Foreign :
       /\ task[t].do \in {"add", "become"} =>
            /\ task[t].id = custodian.count + 1
            /\ Cardinality(custodian.threads) < Pool
       /\ task[t].do = "become" =>
            /\ task[t].seen = custodian /\ task[t].new \in Running
            /\ custodian.threads = Running \ {task[t].new}

SystemInv == SystemTypes /\ OneAtWork /\ ListedBut

(* The instance's Cardinality is the one of FiniteSets.                    *)
LEMMA SameCardinality == \A S : System!Cardinality(S) = Cardinality(S)
BY DEF System!Cardinality, Cardinality, System!IsFiniteSet, IsFiniteSet

LEMMA SystemBegins == System!Init => SystemInv
<1> SUFFICES ASSUME System!Init PROVE SystemInv
  OBVIOUS
<1>1. Nobody \notin System!Foreign /\ Pool \in Nat \ {0}
  BY PartsAssumption DEF System!PoolAssumption
<1>2. /\ boxes = <<{}>> /\ busy = Nobody /\ queue = <<>> /\ execs = <<>>
      /\ custodian = [count |-> 0, threads |-> {}]
      /\ task = [t \in System!Foreign |-> [do |-> "none"]]
  BY DEF System!Init, System!NoTask
<1>3. Running = {}
  BY <1>2 DEF Running
<1>4. IsFiniteSet({}) /\ Cardinality({}) = 0
  BY FS_EmptySet
<1>5. SystemTypes
  BY <1>2 DEF SystemTypes
<1>6. OneAtWork
  BY <1>1, <1>2 DEF OneAtWork
<1>7. ListedBut
  BY <1>1, <1>2, <1>3, <1>4 DEF ListedBut
<1> QED BY <1>5, <1>6, <1>7 DEF SystemInv

(* Steps that leave the custodian, its work and the executives alone.      *)
LEMMA SenderKeeps ==
  ASSUME SystemInv, UNCHANGED <<busy, queue, custodian, task, execs>>,
         boxes' \in Seq(SUBSET System!Foreign), Len(boxes') >= Len(boxes)
  PROVE  SystemInv'
<1>1. Running' = Running
  BY DEF Running
<1>2. SystemTypes'
  BY DEF SystemInv, SystemTypes
<1>3. OneAtWork' /\ ListedBut'
  BY <1>1 DEF SystemInv, OneAtWork, ListedBut
<1> QED BY <1>2, <1>3 DEF SystemInv

(* A thread calls the custodian: at once, or by way of its SERIALIZER.     *)
LEMMA CallKeeps ==
  ASSUME SystemInv, NEW t \in System!Foreign, System!Call(t)
  PROVE  SystemInv'
<1>1. /\ UNCHANGED <<boxes, custodian, execs>> /\ System!Request(t) \in {"ensure", "kill"}
      /\ Nobody \notin System!Foreign
  BY PartsAssumption DEF System!Call, System!Request, System!PoolAssumption
<1>2. Running' = Running
  BY <1>1 DEF Running
<1>3. CASE /\ busy = Nobody /\ busy' = t /\ UNCHANGED queue
           /\ task' = [task EXCEPT ![t] = [do |-> System!Request(t)]]
  <2>1. /\ task'[t].do = System!Request(t)
        /\ \A u \in System!Foreign : u # t => task'[u] = task[u]
        /\ task' = [u \in System!Foreign |-> task'[u]]
    BY <1>3 DEF SystemInv, SystemTypes
  <2>2. SystemTypes'
    BY <1>1, <1>3, <2>1 DEF SystemInv, SystemTypes
  <2>3. OneAtWork'
    BY <1>1, <1>3, <2>1 DEF SystemInv, OneAtWork
  <2>4. \A u \in System!Foreign : task'[u].do \notin {"add", "become"}
    BY <1>1, <1>3, <2>1 DEF SystemInv, OneAtWork
  <2>5. ListedBut'
    BY <1>1, <1>2, <1>3, <2>1, <2>4 DEF SystemInv, ListedBut
  <2> QED BY <2>2, <2>3, <2>5 DEF SystemInv
<1>4. CASE /\ queue' = Append(queue, System!Request(t)) /\ UNCHANGED <<busy, task>>
  <2>1. SystemTypes'
    BY <1>1, <1>4 DEF SystemInv, SystemTypes
  <2>2. OneAtWork' /\ ListedBut'
    BY <1>1, <1>2, <1>4 DEF SystemInv, OneAtWork, ListedBut
  <2> QED BY <2>1, <2>2 DEF SystemInv
<1> QED BY <1>3, <1>4 DEF System!Call

(* The custodian answers: it is at rest, or turns to the next request.     *)
LEMMA AnswerKeeps ==
  ASSUME SystemInv, NEW t \in System!Foreign, busy = t, System!Answered(t), UNCHANGED boxes,
         execs' \in Seq(Int),
         \A e \in DOMAIN execs' :
           execs'[e] \in {System!Dead, System!Looking} \cup 1..Len(boxes),
         custodian' \in [count : Nat, threads : SUBSET Nat],
         IsFiniteSet(custodian'.threads), Cardinality(custodian'.threads) <= Pool,
         custodian'.threads = Running'
  PROVE  SystemInv'
<1>1. Nobody \notin System!Foreign
  BY PartsAssumption DEF System!PoolAssumption
<1>2. CASE /\ queue # <<>> /\ queue' = Tail(queue) /\ UNCHANGED busy
           /\ task' = [task EXCEPT ![t] = [do |-> Head(queue)]]
  <2>1. Head(queue) \in {"ensure", "kill"} /\ Tail(queue) \in Seq({"ensure", "kill"})
    BY <1>2, HeadTailProperties DEF SystemInv, SystemTypes
  <2>2. /\ task'[t].do = Head(queue)
        /\ \A u \in System!Foreign : u # t => task'[u] = task[u]
        /\ task' = [u \in System!Foreign |-> task'[u]]
    BY <1>2 DEF SystemInv, SystemTypes
  <2>3. SystemTypes'
    BY <1>2, <2>1, <2>2 DEF SystemInv, SystemTypes
  <2>4. OneAtWork' /\ \A u \in System!Foreign : task'[u].do \notin {"add", "become"}
    BY <1>2, <2>1, <2>2 DEF SystemInv, OneAtWork
  <2>5. ListedBut'
    BY <1>2, <2>1, <2>2, <2>4 DEF ListedBut
  <2> QED BY <2>3, <2>4, <2>5 DEF SystemInv
<1>3. CASE queue = <<>> /\ busy' = Nobody /\ UNCHANGED queue
           /\ task' = [task EXCEPT ![t] = System!NoTask]
  <2>1. /\ task'[t].do = "none"
        /\ \A u \in System!Foreign : u # t => task'[u] = task[u]
        /\ task' = [u \in System!Foreign |-> task'[u]]
    BY <1>3 DEF SystemInv, SystemTypes, System!NoTask
  <2>2. SystemTypes'
    BY <1>3, <2>1 DEF SystemInv, SystemTypes
  <2>3. OneAtWork' /\ \A u \in System!Foreign : task'[u].do \notin {"add", "become"}
    BY <1>1, <1>3, <2>1 DEF SystemInv, OneAtWork
  <2>4. ListedBut'
    BY <1>3, <2>1, <2>3 DEF ListedBut
  <2> QED BY <2>2, <2>3, <2>4 DEF SystemInv
<1> QED BY <1>2, <1>3 DEF System!Answered

LEMMA EnsureKeeps ==
  ASSUME SystemInv, NEW t \in System!Foreign, System!Ensure(t)
  PROVE  SystemInv'
<1>1. /\ task[t].do = "ensure" /\ busy = t /\ UNCHANGED <<boxes, custodian, execs>>
      /\ Nobody \notin System!Foreign
  BY PartsAssumption DEF System!Ensure, SystemInv, OneAtWork, System!PoolAssumption
<1>2. Running' = Running /\ custodian.threads = Running
  BY <1>1 DEF Running, SystemInv, ListedBut
<1>3. CASE /\ Cardinality(custodian.threads) < Pool /\ UNCHANGED <<busy, queue>>
           /\ task' = [task EXCEPT ![t] = [do |-> "add", id |-> custodian.count + 1]]
  <2>1. /\ task'[t].do = "add" /\ task'[t].id = custodian.count + 1
        /\ \A u \in System!Foreign : u # t => task'[u] = task[u]
        /\ task' = [u \in System!Foreign |-> task'[u]]
    BY <1>3 DEF SystemInv, SystemTypes
  <2>2. SystemTypes'
    BY <1>1, <1>3, <2>1 DEF SystemInv, SystemTypes
  <2>3. OneAtWork' /\ \A u \in System!Foreign : u # t => task'[u].do = "none"
    BY <1>1, <1>3, <2>1 DEF SystemInv, OneAtWork
  <2>4. ListedBut'
    BY <1>1, <1>2, <1>3, <2>1, <2>3 DEF SystemInv, ListedBut
  <2> QED BY <2>2, <2>3, <2>4 DEF SystemInv
<1>4. CASE System!Answered(t)
  BY <1>1, <1>2, <1>4, AnswerKeeps DEF SystemInv, SystemTypes, ListedBut
<1> QED BY <1>3, <1>4, SameCardinality DEF System!Ensure

LEMMA AddExecutiveKeeps ==
  ASSUME SystemInv, NEW t \in System!Foreign, System!AddExecutive(t)
  PROVE  SystemInv'
<1>1. /\ task[t].do = "add" /\ busy = t /\ UNCHANGED <<boxes, busy, queue, custodian>>
      /\ Nobody \notin System!Foreign
  BY PartsAssumption DEF System!AddExecutive, SystemInv, OneAtWork, System!PoolAssumption
<1>2. /\ task[t].id = custodian.count + 1 /\ Cardinality(custodian.threads) < Pool
      /\ custodian.threads = Running /\ custodian.count \in Nat /\ execs \in Seq(Int)
  BY <1>1 DEF SystemInv, SystemTypes, ListedBut
<1> DEFINE n == Len(execs) + 1
<1>3. /\ execs' = Append(execs, System!Looking)
      /\ task' = [task EXCEPT ![t] = [do |-> "become", id |-> task[t].id,
                                      new |-> n, seen |-> custodian]]
  BY <1>1, <1>2 DEF System!AddExecutive
<1>4. /\ execs' \in Seq(Int) /\ DOMAIN execs' = DOMAIN execs \cup {n} /\ n \notin DOMAIN execs
      /\ execs'[n] = System!Looking /\ \A e \in DOMAIN execs : execs'[e] = execs[e]
  <2>1. System!Looking \in Int /\ Len(execs) \in Nat /\ DOMAIN execs = 1..Len(execs)
    BY <1>2 DEF System!Looking
  <2>2. /\ execs' \in Seq(Int) /\ Len(execs') = n
        /\ \A e \in 1..Len(execs) : execs'[e] = execs[e]
        /\ execs'[n] = System!Looking
    BY <1>2, <1>3, <2>1, AppendProperties
  <2>3. DOMAIN execs' = 1..n
    BY <2>2
  <2>4. 1..n = 1..Len(execs) \cup {n} /\ n \notin 1..Len(execs)
    BY <2>1
  <2> QED BY <2>1, <2>2, <2>3, <2>4
<1> HIDE DEF n
<1>5. Running' = Running \cup {n} /\ n \notin Running
  BY <1>4 DEF Running, System!Looking, System!Dead
<1>6. /\ task'[t].do = "become" /\ task'[t].id = custodian.count + 1
      /\ task'[t].new = n /\ task'[t].seen = custodian
      /\ \A u \in System!Foreign : u # t => task'[u] = task[u]
      /\ task' = [u \in System!Foreign |-> task'[u]]
  BY <1>2, <1>3 DEF SystemInv, SystemTypes
<1>7. SystemTypes'
  BY <1>1, <1>4, <1>6 DEF SystemInv, SystemTypes
<1>8. OneAtWork' /\ \A u \in System!Foreign : u # t => task'[u].do = "none"
  BY <1>1, <1>6 DEF SystemInv, OneAtWork
<1>9. ListedBut'
  <2>1. busy' # Nobody /\ task'[busy'].do = "become"
    BY <1>1, <1>6
  <2>2. custodian'.threads = Running' \ {n} /\ n \in Running'
    BY <1>1, <1>2, <1>5
  <2> QED BY <1>1, <1>2, <1>6, <1>8, <2>1, <2>2 DEF SystemInv, ListedBut
<1> QED BY <1>7, <1>8, <1>9 DEF SystemInv

LEMMA BecomeKeeps ==
  ASSUME SystemInv, NEW t \in System!Foreign, System!Become(t)
  PROVE  SystemInv'
<1>1. /\ task[t].do = "become" /\ busy = t /\ UNCHANGED <<boxes, busy, queue, execs>>
      /\ Nobody \notin System!Foreign /\ Pool \in Nat
  BY PartsAssumption DEF System!Become, SystemInv, OneAtWork, System!PoolAssumption
<1>2. /\ task[t].id = custodian.count + 1 /\ Cardinality(custodian.threads) < Pool
      /\ task[t].seen = custodian /\ task[t].new \in Running
      /\ custodian.threads = Running \ {task[t].new} /\ IsFiniteSet(custodian.threads)
      /\ custodian.count \in Nat /\ custodian.threads \subseteq Nat
  BY <1>1 DEF SystemInv, SystemTypes, ListedBut
<1>3. /\ custodian' = [count |-> task[t].id, threads |-> custodian.threads \cup {task[t].new}]
      /\ task' = [task EXCEPT ![t] = [do |-> "ensure"]]
  BY <1>2 DEF System!Become
<1>4. Running' = Running /\ Running \subseteq Nat
  <2>1. DOMAIN execs \subseteq Nat
    BY DEF SystemInv, SystemTypes
  <2> QED BY <1>1, <2>1 DEF Running
<1>5. custodian'.count = custodian.count + 1 /\ custodian'.threads = Running
  BY <1>2, <1>3
<1>6. IsFiniteSet(Running) /\ Cardinality(Running) <= Pool
  <2>1. Running = custodian.threads \cup {task[t].new}
    BY <1>2
  <2>2. /\ IsFiniteSet(custodian.threads \cup {task[t].new})
        /\ Cardinality(custodian.threads \cup {task[t].new}) = Cardinality(custodian.threads) + 1
    BY <1>2, FS_AddElement
  <2>3. Cardinality(custodian.threads) \in Nat
    BY <1>2, FS_CardinalityType
  <2> QED BY <1>1, <1>2, <2>1, <2>2, <2>3
<1>7. /\ task'[t].do = "ensure"
      /\ \A u \in System!Foreign : u # t => task'[u] = task[u]
      /\ task' = [u \in System!Foreign |-> task'[u]]
  BY <1>3 DEF SystemInv, SystemTypes
<1>8. SystemTypes'
  <2>1. custodian' \in [count : Nat, threads : SUBSET Nat]
    <3>1. custodian' = [count |-> custodian.count + 1, threads |-> Running]
      BY <1>2, <1>3
    <3> QED BY <1>2, <1>4, <3>1
  <2> QED BY <1>1, <1>7, <2>1 DEF SystemInv, SystemTypes
<1>9. OneAtWork' /\ \A u \in System!Foreign : task'[u].do \notin {"add", "become"}
  BY <1>1, <1>7 DEF SystemInv, OneAtWork
<1>10. ListedBut'
  BY <1>4, <1>5, <1>6, <1>9 DEF ListedBut
<1> QED BY <1>8, <1>9, <1>10 DEF SystemInv

LEMMA KillExecutivesKeeps ==
  ASSUME SystemInv, NEW t \in System!Foreign, System!KillExecutives(t)
  PROVE  SystemInv'
<1>1. /\ task[t].do = "kill" /\ busy = t /\ UNCHANGED boxes /\ System!Answered(t)
      /\ execs' = [e \in DOMAIN execs |->
                     IF e \in custodian.threads THEN System!Dead ELSE execs[e]]
      /\ custodian' = [count |-> 0, threads |-> {}]
      /\ Nobody \notin System!Foreign /\ Pool \in Nat
  BY PartsAssumption DEF System!KillExecutives, SystemInv, OneAtWork, System!PoolAssumption
<1>2. custodian.threads = Running
  BY <1>1 DEF SystemInv, ListedBut
<1> DEFINE n == Len(execs)
<1>3. n \in Nat /\ DOMAIN execs = 1..n
  BY DEF SystemInv, SystemTypes
<1> HIDE DEF n
<1>4. execs' \in [1..n -> Int] /\ DOMAIN execs' = DOMAIN execs
  BY <1>1, <1>3 DEF SystemInv, SystemTypes, System!Dead
<1>5. execs' \in Seq(Int)
  BY <1>3, <1>4
<1>6. \A e \in DOMAIN execs' : execs'[e] = System!Dead
  BY <1>1, <1>2, <1>4 DEF Running
<1>7. Running' = {}
  BY <1>6 DEF Running
<1>8. IsFiniteSet({}) /\ Cardinality({}) = 0
  BY FS_EmptySet
<1>9. custodian'.threads = {} /\ custodian' \in [count : Nat, threads : SUBSET Nat]
  BY <1>1
<1> QED BY <1>1, <1>5, <1>6, <1>7, <1>8, <1>9, AnswerKeeps

(* Executives wait at a mailbox, and look for the next one.                *)
LEMMA ExecutiveKeeps ==
  ASSUME SystemInv, NEW e \in DOMAIN execs, System!Look(e) \/ System!Read(e)
  PROVE  SystemInv'
<1>1. UNCHANGED <<busy, queue, custodian, task>> /\ execs[e] # System!Dead
  BY DEF System!Look, System!Read, System!Looking, System!Dead
<1>2. PICK m \in {System!Looking} \cup 1..Len(boxes) : execs' = [execs EXCEPT ![e] = m]
  <2>1. Len(boxes) \in Nat \ {0}
    BY EmptySeq DEF SystemInv, SystemTypes
  <2> QED BY <2>1 DEF System!Look, System!Read, System!CentralMail
<1>3. boxes' \in Seq(SUBSET System!Foreign) /\ Len(boxes') = Len(boxes)
  <2>1. CASE UNCHANGED boxes
    BY <2>1 DEF SystemInv, SystemTypes
  <2>2. CASE System!Read(e)
    <3>1. execs[e] \in 1..Len(boxes) /\ boxes \in Seq(SUBSET System!Foreign)
      BY <2>2 DEF SystemInv, SystemTypes, System!Read, System!Dead, System!Looking
    <3>2. PICK x : boxes' = [boxes EXCEPT ![execs[e]] = boxes[execs[e]] \ {x}]
      BY <2>2 DEF System!Read
    <3>3. boxes[execs[e]] \ {x} \in SUBSET System!Foreign
      BY <3>1
    <3> QED BY <3>1, <3>2, <3>3, ExceptSeq
  <2> QED BY <2>1, <2>2 DEF System!Look
<1>4. m \in Int /\ m # System!Dead /\ Len(boxes) \in Nat
  BY DEF SystemInv, SystemTypes, System!Looking, System!Dead
<1>5. /\ execs' \in Seq(Int) /\ DOMAIN execs' = DOMAIN execs /\ execs'[e] = m
      /\ \A x \in DOMAIN execs : x # e => execs'[x] = execs[x]
  BY <1>2, <1>4 DEF SystemInv, SystemTypes
<1>6. Running' = Running
  BY <1>1, <1>4, <1>5 DEF Running
<1>7. SystemTypes'
  <2>1. boxes' # <<>>
    BY <1>3, EmptySeq DEF SystemInv, SystemTypes
  <2> QED BY <1>1, <1>2, <1>3, <1>5, <2>1 DEF SystemInv, SystemTypes
<1>8. OneAtWork' /\ ListedBut'
  BY <1>1, <1>6 DEF SystemInv, OneAtWork, ListedBut
<1> QED BY <1>7, <1>8 DEF SystemInv

LEMMA ForeignKeeps ==
  ASSUME SystemInv, NEW t \in System!Foreign, System!ForeignStep(t)
  PROVE  SystemInv'
<1>1. boxes \in Seq(SUBSET System!Foreign) /\ boxes # <<>> /\ Len(boxes) \in Nat \ {0}
  BY EmptySeq DEF SystemInv, SystemTypes
<1>2. CASE System!Send(t) \/ System!SetSend(t) \/ System!UnsetSend(t)
  BY <1>1, <1>2, SenderKeeps DEF System!Send, System!SetSend, System!UnsetSend
<1>3. CASE System!Post(t)
  <2> DEFINE b == Len(boxes)
  <2>1. boxes' = [boxes EXCEPT ![b] = boxes[b] \cup {t}] /\ b \in 1..Len(boxes)
    BY <1>1, <1>3 DEF System!Post, System!CentralMail
  <2> HIDE DEF b
  <2>2. boxes[b] \cup {t} \in SUBSET System!Foreign
    BY <1>1, <2>1
  <2>3. boxes' \in Seq(SUBSET System!Foreign) /\ Len(boxes') = Len(boxes)
    BY <1>1, <2>1, <2>2, ExceptSeq
  <2> QED BY <1>1, <1>3, <2>3, SenderKeeps DEF System!Post
<1>4. CASE System!NewMailbox(t)
  <2>1. boxes' = Append(boxes, {}) /\ {} \in SUBSET System!Foreign
    BY <1>4 DEF System!NewMailbox
  <2>2. boxes' \in Seq(SUBSET System!Foreign) /\ Len(boxes') = Len(boxes) + 1
    BY <1>1, <2>1, AppendProperties
  <2> QED BY <1>1, <1>4, <2>2, SenderKeeps DEF System!NewMailbox
<1> QED BY <1>2, <1>3, <1>4, CallKeeps, EnsureKeeps, AddExecutiveKeeps, BecomeKeeps,
           KillExecutivesKeeps DEF System!ForeignStep

(* Whenever the custodian is at rest, its list has just the threads that   *)
(* run, and no more than the pool wants.                                   *)
THEOREM RestingCustodianKnows == MCSpec => []ThreadsListed
<1>1. MCInit => SystemInv
  BY SystemBegins DEF MCInit
<1>2. SystemInv /\ [MCNext]_all => SystemInv'
  <2> SUFFICES ASSUME SystemInv, [MCNext]_all PROVE SystemInv'
    OBVIOUS
  <2>1. System!Next \/ UNCHANGED startVars
    BY DEF MCNext, all
  <2>2. CASE UNCHANGED startVars
    <3>1. UNCHANGED <<boxes, busy, queue, custodian, task, execs>>
      BY <2>2 DEF startVars
    <3> QED BY <3>1 DEF SystemInv, SystemTypes, OneAtWork, ListedBut, Running
  <2> QED BY <2>1, <2>2, ForeignKeeps, ExecutiveKeeps DEF System!Next
<1>3. SystemInv => ThreadsListed
  <2> SUFFICES ASSUME SystemInv, busy = Nobody
               PROVE  /\ custodian.threads = { e \in DOMAIN execs : execs[e] # System!Dead }
                      /\ Cardinality(custodian.threads) <= Pool
    BY SameCardinality DEF ThreadsListed, System!ThreadsListed
  <2> QED BY DEF SystemInv, ListedBut, Running
<1> QED BY <1>1, <1>2, <1>3, PTL DEF MCSpec

-----------------------------------------------------------------------------
(* The functional hash table (FplHashtable).                               *)

(* The order of the natural numbers, in the form the induction over the    *)
(* positions of a list needs: every set of numbers has a least one.        *)
LEMMA Descends ==
  \E R : IsWellFoundedOn(R, Nat) /\ \A m, n \in Nat : n < m => <<n, m>> \in R
<1>1. \A m, n \in Nat : n < m => <<n, m>> \in OpToRel(<, Nat)
  BY DEF OpToRel
<1> QED BY <1>1, NatLessThanWellFounded

LEMMA LeastExists ==
  ASSUME NEW T \in SUBSET Nat, T # {}
  PROVE  \E m \in T : \A n \in T : m <= n
<1>1. PICK R : IsWellFoundedOn(R, Nat) /\ \A m, n \in Nat : n < m => <<n, m>> \in R
  BY Descends
<1>2. PICK m \in T : \A n \in T : <<n, m>> \notin R
  BY <1>1, WFMin
<1>3. \A n \in T : ~(n < m) /\ n \in Nat /\ m \in Nat
  BY <1>1, <1>2
<1> QED BY <1>2, <1>3

TableType == [htbl : [Key -> Val \cup {Absent}],
              alst : Seq([key : Key, val : Val \cup {KeyRemoved}])]

(* What a binding stands for.                                              *)
Meant(v) == IF v = KeyRemoved THEN Absent ELSE v

(* The hash table with the bindings at the positions of s applied to it:   *)
(* the first of a key's bindings counts.                                   *)
BoundIn(t, s, k) == { i \in s : t.alst[i].key = k }
Applied(t, s) ==
  [k \in Key |-> IF BoundIn(t, s, k) = {} THEN t.htbl[k]
                 ELSE Meant(t.alst[Table!Min(BoundIn(t, s, k))].val)]

(* The equation that defines the fold of REBUILD.                          *)
Rebuilding(t, iter) ==
  iter = [s \in SUBSET DOMAIN t.alst |->
            IF s = {} THEN t.htbl
            ELSE Table!Rebind(t.alst[Table!Min(s)], iter[s \ {Table!Min(s)}])]

LEMMA RebuildFolds ==
  ASSUME NEW t
  PROVE  Table!Rebuild(t) =
           [htbl |-> (CHOOSE iter : Rebuilding(t, iter))[DOMAIN t.alst], alst |-> <<>>]
BY DEF Table!Rebuild, Table!FoldRight, Table!MapThenFoldSet, Rebuilding

LEMMA LeastOf ==
  ASSUME NEW T \in SUBSET Nat, NEW m \in T, \A n \in T : m <= n
  PROVE  Table!Min(T) = m
<1>1. \A x \in T : (\A n \in T : x <= n) => x = m
  <2> SUFFICES ASSUME NEW x \in T, \A n \in T : x <= n PROVE x = m
    OBVIOUS
  <2>1. x <= m /\ m <= x /\ x \in Nat /\ m \in Nat
    OBVIOUS
  <2> QED BY <2>1
<1> QED BY <1>1 DEF Table!Min

LEMMA LeastIs ==
  ASSUME NEW T \in SUBSET Nat, T # {}
  PROVE  Table!Min(T) \in T /\ \A n \in T : Table!Min(T) <= n
BY LeastExists DEF Table!Min

LEMMA Positions ==
  ASSUME NEW t \in TableType
  PROVE  /\ Len(t.alst) \in Nat /\ DOMAIN t.alst = 1..Len(t.alst)
         /\ DOMAIN t.alst \subseteq Nat
         /\ \A i \in DOMAIN t.alst : /\ t.alst[i].key \in Key
                                     /\ t.alst[i].val \in Val \cup {KeyRemoved}
         /\ t.htbl \in [Key -> Val \cup {Absent}]
<1> DEFINE Pair == [key : Key, val : Val \cup {KeyRemoved}]
<1>1. PICK l \in Seq(Pair) : l = t.alst
  BY DEF TableType
<1>2. /\ Len(l) \in Nat /\ DOMAIN l = 1..Len(l) /\ DOMAIN l \subseteq Nat
      /\ \A i \in DOMAIN l : l[i] \in Pair
  <2> HIDE DEF Pair
  <2> QED BY <1>1
<1>3. \A pair \in Pair : pair.key \in Key /\ pair.val \in Val \cup {KeyRemoved}
  OBVIOUS
<1>4. t.htbl \in [Key -> Val \cup {Absent}]
  BY DEF TableType
<1> HIDE DEF Pair
<1> QED BY <1>1, <1>2, <1>3, <1>4

(* A look-up sees all bindings of the list.                                *)
LEMMA EffectApplied ==
  ASSUME NEW t \in TableType, NEW k \in Key
  PROVE  Table!InEffect(t, k) = Applied(t, DOMAIN t.alst)[k]
<1>1. Table!Bound(t, k) = BoundIn(t, DOMAIN t.alst, k)
  BY DEF Table!Bound, BoundIn
<1>2. Table!Assoc(t, k) = t.alst[Table!Min(Table!Bound(t, k))].val
  BY DEF Table!Assoc, Table!Min
<1> QED BY <1>1, <1>2 DEF Table!InEffect, Applied, Meant

LEMMA AppliedType ==
  ASSUME NEW t \in TableType, NEW s \in SUBSET DOMAIN t.alst
  PROVE  Applied(t, s) \in [Key -> Val \cup {Absent}]
<1> SUFFICES ASSUME NEW k \in Key PROVE Applied(t, s)[k] \in Val \cup {Absent}
  BY DEF Applied
<1> DEFINE B == BoundIn(t, s, k)
<1>1. B \in SUBSET Nat /\ B \subseteq DOMAIN t.alst
  BY Positions DEF BoundIn
<1>2. CASE B = {}
  BY <1>2, Positions DEF Applied
<1>3. CASE B # {}
  <2>1. Table!Min(B) \in DOMAIN t.alst
    BY <1>1, <1>3, LeastIs
  <2>2. Applied(t, s)[k] = Meant(t.alst[Table!Min(B)].val)
    BY <1>3 DEF Applied
  <2> HIDE DEF B
  <2> QED BY <2>1, <2>2, Positions DEF Meant
<1> QED BY <1>2, <1>3

(* Applying the bindings from the last to the first is one step at a time. *)
LEMMA AppliedStep ==
  ASSUME NEW t \in TableType, NEW s \in SUBSET DOMAIN t.alst, s # {}
  PROVE  Applied(t, s) = Table!Rebind(t.alst[Table!Min(s)], Applied(t, s \ {Table!Min(s)}))
<1> DEFINE m == Table!Min(s)
           r == s \ {m}
<1>1. s \in SUBSET Nat /\ m \in s /\ \A i \in s : m <= i
  BY Positions, LeastIs
<1>2. r \in SUBSET DOMAIN t.alst /\ m \in DOMAIN t.alst
  BY <1>1
<1>3. Applied(t, r) \in [Key -> Val \cup {Absent}]
  BY <1>2, AppliedType
<1> HIDE DEF m
<1>4. ASSUME NEW k \in Key
      PROVE  Applied(t, s)[k] = Table!Rebind(t.alst[m], Applied(t, r))[k]
  <2>1. CASE t.alst[m].key = k
    <3>1. m \in BoundIn(t, s, k) /\ BoundIn(t, s, k) \in SUBSET Nat
          /\ \A i \in BoundIn(t, s, k) : m <= i
      BY <1>1, <2>1 DEF BoundIn
    <3>2. Table!Min(BoundIn(t, s, k)) = m
      BY <3>1, LeastOf
    <3>3. Applied(t, s)[k] = Meant(t.alst[m].val)
      BY <3>1, <3>2 DEF Applied
    <3> QED BY <1>3, <2>1, <3>3 DEF Table!Rebind, Meant
  <2>2. CASE t.alst[m].key # k
    <3>1. BoundIn(t, s, k) = BoundIn(t, r, k)
      BY <2>2 DEF BoundIn
    <3>2. Applied(t, s)[k] = Applied(t, r)[k]
      BY <3>1 DEF Applied
    <3> QED BY <1>3, <2>2, <3>2 DEF Table!Rebind
  <2> QED BY <2>1, <2>2
<1>5. Table!Rebind(t.alst[m], Applied(t, r)) \in [Key -> Val \cup {Absent}]
  <2>1. Meant(t.alst[m].val) \in Val \cup {Absent}
    BY <1>2, Positions DEF Meant
  <2> QED BY <1>3, <2>1 DEF Table!Rebind, Meant
<1>6. Applied(t, s) \in [Key -> Val \cup {Absent}]
  BY AppliedType
<1>7. Applied(t, s) = Table!Rebind(t.alst[m], Applied(t, r))
  BY <1>4, <1>5, <1>6
<1> QED BY <1>7 DEF m

(* So the equation has a solution,                                         *)
LEMMA Solvable ==
  ASSUME NEW t \in TableType
  PROVE  \E iter : Rebuilding(t, iter)
<1> DEFINE g == [s \in SUBSET DOMAIN t.alst |-> Applied(t, s)]
<1>1. ASSUME NEW s \in SUBSET DOMAIN t.alst
      PROVE  Applied(t, s) = IF s = {} THEN t.htbl
                             ELSE Table!Rebind(t.alst[Table!Min(s)], g[s \ {Table!Min(s)}])
  <2>1. CASE s = {}
    <3>1. \A k \in Key : BoundIn(t, s, k) = {}
      BY <2>1 DEF BoundIn
    <3>2. Applied(t, s) = [k \in Key |-> t.htbl[k]]
      BY <3>1 DEF Applied
    <3> QED BY <2>1, <3>2, Positions
  <2>2. CASE s # {}
    <3>1. g[s \ {Table!Min(s)}] = Applied(t, s \ {Table!Min(s)})
      OBVIOUS
    <3> QED BY <2>2, <3>1, AppliedStep
  <2> QED BY <2>1, <2>2
<1>2. Rebuilding(t, g)
  BY <1>1 DEF Rebuilding
<1> QED BY <1>2

(* and every solution has this value for all bindings of the list: the     *)
(* least number of last bindings for which it had another is not zero, and *)
(* is not one more than a number for which it had not.                     *)
LEMMA SolutionIs ==
  ASSUME NEW t \in TableType, NEW iter, Rebuilding(t, iter)
  PROVE  iter[DOMAIN t.alst] = Applied(t, DOMAIN t.alst)
<1> DEFINE n == Len(t.alst)
           Last(d) == (n + 1 - d)..n
           Wrong == { d \in 0..n : iter[Last(d)] # Applied(t, Last(d)) }
<1>1. n \in Nat /\ DOMAIN t.alst = 1..n
  BY Positions
<1>2. \A s \in SUBSET DOMAIN t.alst :
        iter[s] = IF s = {} THEN t.htbl
                  ELSE Table!Rebind(t.alst[Table!Min(s)], iter[s \ {Table!Min(s)}])
  BY DEF Rebuilding
<1>3. \A d \in 0..n : Last(d) \in SUBSET DOMAIN t.alst
  BY <1>1
<1> HIDE DEF n
<1>4. Last(0) = {} /\ Last(n) = DOMAIN t.alst
  BY <1>1
<1>5. iter[{}] = Applied(t, {})
  <2>1. \A k \in Key : BoundIn(t, {}, k) = {}
    BY DEF BoundIn
  <2>2. Applied(t, {}) = [k \in Key |-> t.htbl[k]]
    BY <2>1 DEF Applied
  <2> QED BY <1>2, <2>2, Positions
<1>6. ASSUME NEW d \in 0..n, d # 0, iter[Last(d - 1)] = Applied(t, Last(d - 1))
      PROVE  iter[Last(d)] = Applied(t, Last(d))
  <2>1. /\ n + 1 - d \in Last(d) /\ \A i \in Last(d) : n + 1 - d <= i
        /\ Last(d) \in SUBSET Nat /\ Last(d) # {}
        /\ Last(d) \ {n + 1 - d} = Last(d - 1)
    <3>1. n + 1 - (d - 1) = (n + 1 - d) + 1 /\ n + 1 - d <= n /\ n + 1 - d >= 1
      BY <1>1, <1>6
    <3>2. PICK f \in 1..n : f = n + 1 - d
      BY <1>1, <3>1
    <3>3. f \in Nat /\ n \in Nat /\ f <= n
      BY <1>1
    <3>4. f \in f..n /\ (\A i \in f..n : f <= i) /\ f..n \in SUBSET Nat /\ f..n # {}
      BY <3>3
    <3>5. (f..n) \ {f} = (f + 1)..n
      BY <3>3
    <3> QED BY <3>1, <3>2, <3>4, <3>5
  <2>2. Last(d) \in SUBSET DOMAIN t.alst
    BY <1>3
  <2> HIDE DEF Last
  <2>3. Table!Min(Last(d)) = n + 1 - d
    BY <2>1, LeastOf
  <2>4. PICK s, r, m : /\ s \in SUBSET DOMAIN t.alst
                       /\ s = Last(d) /\ r = Last(d - 1) /\ m = Table!Min(s)
    BY <2>2
  <2>5. s # {} /\ s \ {m} = r /\ iter[r] = Applied(t, r)
    BY <1>6, <2>1, <2>3, <2>4
  <2>6. iter[s] = Table!Rebind(t.alst[m], iter[r])
    BY <1>2, <2>4, <2>5
  <2>7. Applied(t, s) = Table!Rebind(t.alst[m], Applied(t, r))
    BY <2>4, <2>5, AppliedStep
  <2> QED BY <2>4, <2>5, <2>6, <2>7
<1>7. Wrong = {}
  <2> SUFFICES ASSUME Wrong # {} PROVE FALSE
    OBVIOUS
  <2>1. Wrong \in SUBSET Nat
    BY <1>1
  <2>2. PICK d \in Wrong : \A e \in Wrong : d <= e
    BY <2>1, LeastExists
  <2>3. d \in 0..n /\ iter[Last(d)] # Applied(t, Last(d))
    OBVIOUS
  <2>4. d # 0
    <3> HIDE DEF Last, Wrong
    <3> QED BY <1>4, <1>5, <2>3
  <2>5. d - 1 \in 0..n /\ d - 1 \notin Wrong
    <3> HIDE DEF Wrong
    <3> QED BY <1>1, <2>2, <2>3, <2>4
  <2>6. iter[Last(d - 1)] = Applied(t, Last(d - 1))
    <3> HIDE DEF Last
    <3> QED BY <2>5
  <2> HIDE DEF Last, Wrong
  <2> QED BY <1>6, <2>3, <2>4, <2>6
<1>8. n \in 0..n
  BY <1>1
<1>9. iter[Last(n)] = Applied(t, Last(n))
  <2> HIDE DEF Last
  <2> QED BY <1>7, <1>8
<1> HIDE DEF Last
<1> QED BY <1>4, <1>9

(* Rebuilding changes nothing of what is looked up.                        *)
LEMMA RebuildSame ==
  ASSUME NEW t \in TableType
  PROVE  /\ Table!Rebuild(t) \in TableType
         /\ \A k \in Key : Table!InEffect(Table!Rebuild(t), k) = Table!InEffect(t, k)
<1> DEFINE iter == CHOOSE i : Rebuilding(t, i)
<1>1. Rebuilding(t, iter)
  BY Solvable
<1>2. Table!Rebuild(t) = [htbl |-> iter[DOMAIN t.alst], alst |-> <<>>]
  BY RebuildFolds
<1> HIDE DEF iter
<1>3. iter[DOMAIN t.alst] = Applied(t, DOMAIN t.alst)
  BY <1>1, SolutionIs
<1>4. Applied(t, DOMAIN t.alst) \in [Key -> Val \cup {Absent}]
  BY AppliedType
<1>5. Table!Rebuild(t) \in TableType
  <2>1. <<>> \in Seq([key : Key, val : Val \cup {KeyRemoved}])
    OBVIOUS
  <2> QED BY <1>2, <1>3, <1>4, <2>1 DEF TableType
<1>6. ASSUME NEW k \in Key
      PROVE  Table!InEffect(Table!Rebuild(t), k) = Table!InEffect(t, k)
  <2>1. Table!Bound(Table!Rebuild(t), k) = {}
    BY <1>2 DEF Table!Bound
  <2>2. Table!InEffect(Table!Rebuild(t), k) = Applied(t, DOMAIN t.alst)[k]
    BY <1>2, <1>3, <2>1 DEF Table!InEffect
  <2> QED BY <2>2, EffectApplied
<1> QED BY <1>5, <1>6

(* Of two tables over the same hash table whose lists differ in one more   *)
(* binding in front, the new binding is the one in effect of its key.      *)
LEMMA FirstCounts ==
  ASSUME NEW t \in TableType, NEW u \in TableType, NEW n \in Nat,
         DOMAIN t.alst = 1..n, DOMAIN u.alst = 1..(n + 1), u.htbl = t.htbl,
         \A i \in 1..n : u.alst[i + 1] = t.alst[i]
  PROVE  /\ Table!InEffect(u, u.alst[1].key) = Meant(u.alst[1].val)
         /\ \A j \in Key \ {u.alst[1].key} : Table!InEffect(u, j) = Table!InEffect(t, j)
<1>1. ASSUME NEW k, k = u.alst[1].key
      PROVE  Table!InEffect(u, k) = Meant(u.alst[1].val)
  <2> DEFINE B == Table!Bound(u, k)
  <2>1. 1 \in B /\ \A i \in B : i \in 1..(n + 1)
    BY <1>1 DEF Table!Bound
  <2> HIDE DEF B
  <2>2. B \in SUBSET Nat /\ \A i \in B : 1 <= i
    BY <2>1
  <2>3. Table!Min(B) = 1
    BY <2>1, <2>2, LeastOf
  <2>4. Table!Assoc(u, k) = u.alst[1].val
    BY <2>3 DEF B, Table!Assoc, Table!Min
  <2> QED BY <2>1, <2>4 DEF B, Table!InEffect, Meant
<1>2. ASSUME NEW j \in Key \ {u.alst[1].key}
      PROVE  Table!InEffect(u, j) = Table!InEffect(t, j)
  <2> DEFINE B == Table!Bound(t, j)
             C == Table!Bound(u, j)
  <2>1. \A i : i \in B <=> i \in 1..n /\ t.alst[i].key = j
    BY DEF Table!Bound
  <2>2. \A i : i \in C <=> i \in 1..(n + 1) /\ u.alst[i].key = j
    BY DEF Table!Bound
  <2>3. 1 \notin C
    BY <2>2
  <2> HIDE DEF B, C
  <2>4. ASSUME NEW i \in 1..n PROVE i + 1 \in C <=> i \in B
    <3>1. i + 1 \in 1..(n + 1) /\ u.alst[i + 1] = t.alst[i]
      OBVIOUS
    <3> QED BY <2>1, <2>2, <3>1
  <2>5. ASSUME NEW i \in C PROVE i - 1 \in B
    <3>1. i \in 1..(n + 1) /\ i # 1
      BY <2>2, <2>3
    <3>2. i - 1 \in 1..n /\ (i - 1) + 1 = i
      BY <3>1
    <3> QED BY <2>4, <3>2
  <2>6. B \in SUBSET Nat /\ C \in SUBSET Nat
    <3>1. (\A i \in B : i \in 1..n) /\ (\A i \in C : i \in 1..(n + 1))
      BY <2>1, <2>2
    <3> QED BY <3>1
  <2>7. CASE B = {}
    <3>1. C = {}
      BY <2>5, <2>7
    <3> QED BY <2>7, <3>1 DEF B, C, Table!InEffect
  <2>8. CASE B # {}
    <3>1. PICK m \in B : m = Table!Min(B) /\ \A i \in B : m <= i
      BY <2>6, <2>8, LeastIs
    <3>2. m \in 1..n /\ m + 1 \in C
      BY <2>1, <2>4
    <3>3. \A i \in C : m + 1 <= i
      <4>1. \A i \in C : m <= i - 1 /\ i \in Nat /\ m \in Nat
        BY <2>5, <2>6, <3>1
      <4> QED BY <4>1
    <3>4. Table!Min(C) = m + 1
      BY <2>6, <3>2, <3>3, LeastOf
    <3>5. Table!Assoc(u, j) = u.alst[m + 1].val
      BY <3>4 DEF C, Table!Assoc, Table!Min
    <3>6. Table!Assoc(t, j) = t.alst[m].val
      BY <3>1 DEF B, Table!Assoc, Table!Min
    <3>7. Table!Assoc(u, j) = Table!Assoc(t, j)
      BY <3>2, <3>5, <3>6
    <3>8. C # {}
      BY <3>2
    <3> QED BY <2>8, <3>7, <3>8 DEF B, C, Table!InEffect
  <2> QED BY <2>7, <2>8
<1> QED BY <1>1, <1>2

(* A binding in front of the list is the one in effect of its key.         *)
LEMMA BindingInFront ==
  ASSUME NEW t \in TableType, NEW k \in Key, NEW v \in Val \cup {KeyRemoved}, NEW u,
         u = [t EXCEPT !.alst = <<[key |-> k, val |-> v]>> \o @]
  PROVE  /\ u \in TableType
         /\ Table!InEffect(u, k) = Meant(v)
         /\ \A j \in Key \ {k} : Table!InEffect(u, j) = Table!InEffect(t, j)
<1> DEFINE Pair == [key : Key, val : Val \cup {KeyRemoved}]
<1>1. PICK p \in Pair : p = [key |-> k, val |-> v] /\ p.key = k /\ p.val = v
  OBVIOUS
<1>2. PICK l \in Seq(Pair) : l = t.alst
  BY DEF TableType
<1>3. u = [htbl |-> t.htbl, alst |-> <<p>> \o l]
  BY <1>1, <1>2 DEF TableType
<1> HIDE DEF Pair
<1>4. /\ <<p>> \o l \in Seq(Pair) /\ (<<p>> \o l)[1] = p
      /\ Len(l) \in Nat /\ DOMAIN l = 1..Len(l) /\ DOMAIN (<<p>> \o l) = 1..(Len(l) + 1)
      /\ \A i \in 1..Len(l) : (<<p>> \o l)[i + 1] = l[i]
  <2>1. PICK h \in Seq(Pair) : h = <<p>> /\ Len(h) = 1 /\ h[1] = p
    <3>1. <<p>> \in Seq(Pair) /\ Len(<<p>>) = 1 /\ <<p>>[1] = p
      BY <1>1
    <3> QED BY <3>1
  <2>2. h \o l \in Seq(Pair) /\ (h \o l)[1] = p
    BY <2>1
  <2>3. Len(l) \in Nat /\ DOMAIN l = 1..Len(l) /\ DOMAIN (h \o l) = 1..(Len(l) + 1)
    BY <2>1
  <2>4. \A i \in 1..Len(l) : (h \o l)[i + 1] = l[i]
    BY <2>1
  <2> QED BY <2>1, <2>2, <2>3, <2>4
<1>5. u \in TableType
  <2>1. PICK h, c : h = t.htbl /\ c = <<p>> \o l
    OBVIOUS
  <2>2. h \in [Key -> Val \cup {Absent}] /\ c \in Seq(Pair)
    BY <1>4, <2>1, Positions
  <2>3. [htbl |-> h, alst |-> c] \in TableType
    BY <2>2 DEF TableType, Pair
  <2> QED BY <1>3, <2>1, <2>3
<1>6. u.htbl = t.htbl /\ u.alst = <<p>> \o l
  BY <1>3
<1>7. PICK n : n = Len(l) /\ n \in Nat
  BY <1>4
<1>8. /\ DOMAIN t.alst = 1..n /\ DOMAIN u.alst = 1..(n + 1)
      /\ \A i \in 1..n : u.alst[i + 1] = t.alst[i]
      /\ u.alst[1].key = k /\ u.alst[1].val = v
  BY <1>1, <1>2, <1>4, <1>6, <1>7
<1>9. PICK f : f = u
  OBVIOUS
<1>10. /\ f \in TableType /\ f.htbl = t.htbl
       /\ DOMAIN t.alst = 1..n /\ DOMAIN f.alst = 1..(n + 1)
       /\ \A i \in 1..n : f.alst[i + 1] = t.alst[i]
       /\ f.alst[1].key = k /\ f.alst[1].val = v
  BY <1>5, <1>6, <1>8, <1>9
<1>11. /\ Table!InEffect(f, f.alst[1].key) = Meant(f.alst[1].val)
       /\ \A j \in Key \ {f.alst[1].key} : Table!InEffect(f, j) = Table!InEffect(t, j)
  BY <1>7, <1>10, FirstCounts
<1> QED BY <1>5, <1>9, <1>10, <1>11

LEMMA EffectType ==
  ASSUME NEW t \in TableType, NEW k \in Key
  PROVE  Table!InEffect(t, k) \in Val \cup {Absent}
<1>1. DOMAIN t.alst \in SUBSET DOMAIN t.alst
  OBVIOUS
<1> QED BY <1>1, AppliedType, EffectApplied

(* No new binding is needed where it would change nothing; with NIL among  *)
(* the values this is not so.                                              *)
LEMMA SethashBinds ==
  ASSUME NilValue \notin Val,
         NEW t \in TableType, NEW k \in Key, NEW v \in Val \cup {KeyRemoved}
  PROVE  /\ Table!Sethash(t, k, v) \in TableType
         /\ Table!InEffect(Table!Sethash(t, k, v), k) = Meant(v)
         /\ \A j \in Key \ {k} :
              Table!InEffect(Table!Sethash(t, k, v), j) = Table!InEffect(t, j)
<1>1. CASE Table!Gethash(t, k, NilValue) = v
  <2>1. Table!Sethash(t, k, v) = t
    BY <1>1 DEF Table!Sethash
  <2>2. Table!InEffect(t, k) = Meant(v)
    BY <1>1, EffectType, PartsAssumption DEF Table!Gethash, Meant, Table!ValAssumption
  <2> QED BY <2>1, <2>2
<1>2. CASE Table!Gethash(t, k, NilValue) # v
  <2>1. Table!Sethash(t, k, v) = [t EXCEPT !.alst = <<[key |-> k, val |-> v]>> \o @]
    BY <1>2 DEF Table!Sethash
  <2>2. PICK u : u = Table!Sethash(t, k, v)
    OBVIOUS
  <2>3. u = [t EXCEPT !.alst = <<[key |-> k, val |-> v]>> \o @]
    BY <2>1, <2>2
  <2>4. /\ u \in TableType /\ Table!InEffect(u, k) = Meant(v)
        /\ \A j \in Key \ {k} : Table!InEffect(u, j) = Table!InEffect(t, j)
    BY <2>3, BindingInFront
  <2> QED BY <2>2, <2>4
<1> QED BY <1>1, <1>2

TableInv ==
  /\ tbl \in TableType /\ map \in [Key -> Val \cup {Absent}]
  /\ \A k \in Key : Table!InEffect(tbl, k) = map[k]

LEMMA TableBegins == Table!Init => TableInv
<1> SUFFICES ASSUME Table!Init PROVE TableInv
  OBVIOUS
<1>1. <<>> \in Seq([key : Key, val : Val \cup {KeyRemoved}])
  OBVIOUS
<1>2. tbl \in TableType /\ map \in [Key -> Val \cup {Absent}]
  BY <1>1 DEF Table!Init, TableType
<1>3. \A k \in Key : Table!Bound(tbl, k) = {}
  BY DEF Table!Init, Table!Bound
<1>4. \A k \in Key : Table!InEffect(tbl, k) = map[k]
  BY <1>3 DEF Table!Init, Table!InEffect
<1> QED BY <1>2, <1>4 DEF TableInv

(* A new binding, in the table and in the map.                             *)
LEMMA BindKeeps ==
  ASSUME NilValue \notin Val, TableInv,
         NEW k \in Key, NEW v \in Val \cup {KeyRemoved},
         tbl' = Table!Sethash(tbl, k, v), map' = [map EXCEPT ![k] = Meant(v)]
  PROVE  TableInv'
<1>1. Meant(v) \in Val \cup {Absent}
  BY DEF Meant
<1>2. tbl' \in TableType /\ map' \in [Key -> Val \cup {Absent}]
  BY <1>1, SethashBinds DEF TableInv
<1>3. ASSUME NEW j \in Key PROVE Table!InEffect(tbl', j) = map'[j]
  <2>1. CASE j = k
    BY <2>1, SethashBinds DEF TableInv
  <2>2. CASE j # k
    <3>1. Table!InEffect(tbl', j) = Table!InEffect(tbl, j)
      BY <2>2, SethashBinds DEF TableInv
    <3> QED BY <2>2, <3>1 DEF TableInv
  <2> QED BY <2>1, <2>2
<1>4. \A j \in Key : Table!InEffect(tbl, j)' = Table!InEffect(tbl', j)
  BY DEF Table!InEffect, Table!Bound, Table!Assoc
<1> QED BY <1>2, <1>3, <1>4 DEF TableInv

LEMMA TableSteps ==
  ASSUME NilValue \notin Val, TableInv, Table!Next
  PROVE  TableInv'
<1>0. KeyRemoved \notin Val
  BY PartsAssumption DEF Table!ValAssumption
<1>1. ASSUME NEW k \in Key, NEW v \in Val, Table!Add(k, v) PROVE TableInv'
  <2>1. Meant(v) = v
    BY <1>0 DEF Meant
  <2> QED BY <1>1, <2>1, BindKeeps DEF Table!Add
<1>2. ASSUME NEW k \in Key, NEW v \in Val, Table!FindOrAdd(k, v) PROVE TableInv'
  <2>1. CASE Table!InEffect(tbl, k) # Absent
    <3>1. tbl' = tbl /\ map' = map
      BY <1>2, <2>1 DEF Table!FindOrAdd, Table!GethashOrAdd, TableInv
    <3> QED BY <3>1 DEF TableInv
  <2>2. CASE Table!InEffect(tbl, k) = Absent
    <3>1. Meant(v) = v
      BY <1>0 DEF Meant
    <3>2. tbl' = Table!Sethash(tbl, k, v) /\ map' = [map EXCEPT ![k] = v]
      BY <1>2, <2>2 DEF Table!FindOrAdd, Table!GethashOrAdd, TableInv
    <3> QED BY <3>1, <3>2, BindKeeps
  <2> QED BY <2>1, <2>2
<1>3. ASSUME NEW k \in Key, Table!Drop(k) PROVE TableInv'
  <2>1. Meant(KeyRemoved) = Absent
    BY DEF Meant
  <2> QED BY <1>3, <2>1, BindKeeps DEF Table!Drop, Table!Remhash
<1>4. CASE Table!DoRebuild
  <2>1. PICK u : u = Table!Rebuild(tbl)
    OBVIOUS
  <2>2. tbl' = u /\ map' = map
    BY <1>4, <2>1 DEF Table!DoRebuild
  <2>3. u \in TableType /\ \A k \in Key : Table!InEffect(u, k) = map[k]
    BY <2>1, RebuildSame DEF TableInv
  <2>4. \A k \in Key : Table!InEffect(tbl, k)' = Table!InEffect(u, k)
    BY <2>2 DEF Table!InEffect, Table!Bound, Table!Assoc
  <2> QED BY <2>2, <2>3, <2>4 DEF TableInv
<1> QED BY <1>1, <1>2, <1>3, <1>4 DEF Table!Next

(* The table behaves as a map: a look-up yields the value last added, a    *)
(* removed key has none, and REBUILD changes nothing of it; with NIL not   *)
(* among the values, as an absent key's NIL is not added.                  *)
THEOREM TableIsMap ==
  ASSUME NilValue \notin Val
  PROVE  MCSpec => []StandsForMap
<1>1. MCInit => TableInv
  BY TableBegins DEF MCInit
<1>2. TableInv /\ [MCNext]_all => TableInv'
  <2> SUFFICES ASSUME TableInv, [MCNext]_all PROVE TableInv'
    OBVIOUS
  <2>1. Table!Next \/ UNCHANGED tableVars
    BY DEF MCNext, InSession, Serving, all
  <2>2. CASE UNCHANGED tableVars
    <3>1. tbl' = tbl /\ map' = map
      BY <2>2 DEF tableVars
    <3> QED BY <3>1 DEF TableInv, Table!InEffect, Table!Bound, Table!Assoc
  <2> QED BY <2>1, <2>2, TableSteps
<1>3. TableInv => StandsForMap
  <2> SUFFICES ASSUME TableInv PROVE StandsForMap
    OBVIOUS
  <2>1. \A k \in Key, default \in Val \cup {NilValue} :
          Table!Gethash(tbl, k, default) = IF map[k] = Absent THEN default ELSE map[k]
    BY DEF TableInv, Table!Gethash
  <2>2. \A k \in Key : Table!InEffect(Table!Rebuild(tbl), k) = Table!InEffect(tbl, k)
    BY RebuildSame DEF TableInv
  <2> QED BY <2>1, <2>2 DEF StandsForMap, Table!StandsForMap
<1> QED BY <1>1, <1>2, <1>3, PTL DEF MCSpec
=============================================================================
