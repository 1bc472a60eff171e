-------------------------- MODULE DispatcherProofs --------------------------
(***************************************************************************)
(* For every set of threads, Actors and messages: the dispatcher keeps     *)
(* each message in one place, and implements ActorModel.                   *)
(***************************************************************************)
EXTENDS Dispatcher, TLAPS

-----------------------------------------------------------------------------
(* Sequences and their elements.                                           *)

(* A chain is its first message and the rest.                              *)
LEMMA ChainSplit ==
  ASSUME NEW S, NEW c \in Seq(S), c # <<>>
  PROVE  /\ Head(c) \in S
         /\ Tail(c) \in Seq(S)
         /\ Elements(c) = {Head(c)} \cup Elements(Tail(c))
<1>1. Len(c) \in Nat \ {0} /\ DOMAIN c = 1..Len(c)
  OBVIOUS
<1>2. DOMAIN Tail(c) = 1..(Len(c) - 1)
      /\ \A i \in 1..(Len(c) - 1) : Tail(c)[i] = c[i + 1]
  BY <1>1
<1>3. Elements(c) \subseteq {Head(c)} \cup Elements(Tail(c))
  <2>1. SUFFICES ASSUME NEW i \in 1..Len(c), i # 1
                 PROVE  c[i] \in Elements(Tail(c))
    BY <1>1 DEF Elements
  <2>2. i - 1 \in 1..(Len(c) - 1) /\ c[i] = Tail(c)[i - 1]
    BY <2>1, <1>1, <1>2
  <2>3. QED BY <2>2, <1>2 DEF Elements
<1>4. {Head(c)} \cup Elements(Tail(c)) \subseteq Elements(c)
  BY <1>1, <1>2 DEF Elements
<1>5. QED BY <1>1, <1>3, <1>4

(* Cutting off the first message of a chain without repetition.            *)
LEMMA InjectiveSplit ==
  ASSUME NEW S, NEW c \in Seq(S), c # <<>>, IsInjectiveSeq(c)
  PROVE  IsInjectiveSeq(Tail(c)) /\ Head(c) \notin Elements(Tail(c))
<1>1. Len(c) \in Nat \ {0} /\ DOMAIN c = 1..Len(c) /\ Head(c) = c[1]
  OBVIOUS
<1>2. DOMAIN Tail(c) = 1..(Len(c) - 1)
      /\ \A i \in 1..(Len(c) - 1) : Tail(c)[i] = c[i + 1]
  BY <1>1
<1>3. IsInjectiveSeq(Tail(c))
  <2>1. SUFFICES ASSUME NEW i \in 1..(Len(c) - 1), NEW j \in 1..(Len(c) - 1),
                        Tail(c)[i] = Tail(c)[j]
                 PROVE  i = j
    BY <1>2 DEF IsInjectiveSeq
  <2>2. i + 1 \in 1..Len(c) /\ j + 1 \in 1..Len(c) /\ c[i + 1] = c[j + 1]
    BY <2>1, <1>1, <1>2
  <2>3. i + 1 = j + 1
    BY <2>2, <1>1 DEF IsInjectiveSeq
  <2>4. QED BY <2>3
<1>4. Head(c) \notin Elements(Tail(c))
  <2>1. SUFFICES ASSUME NEW i \in 1..(Len(c) - 1), Tail(c)[i] = c[1]
                 PROVE  FALSE
    BY <1>1, <1>2 DEF Elements
  <2>2. i + 1 \in 1..Len(c) /\ 1 \in 1..Len(c) /\ c[i + 1] = c[1] /\ i + 1 # 1
    BY <2>1, <1>1, <1>2
  <2>3. QED BY <2>2, <1>1 DEF IsInjectiveSeq
<1>5. QED BY <1>3, <1>4

(* A chain of one message, and the empty chain.                            *)
LEMMA SmallChains ==
  /\ \A m : Elements(<<m>>) = {m} /\ IsInjectiveSeq(<<m>>) /\ <<m>> # <<>>
  /\ Elements(<<>>) = {} /\ IsInjectiveSeq(<<>>)
BY DEF Elements, IsInjectiveSeq

(* Posting a chain none of whose messages is in the mailbox.               *)
LEMMA PostChain ==
  ASSUME NEW S, NEW q \in Seq(Seq(S)), NEW c \in Seq(S)
  PROVE  /\ Posted(Append(q, c)) = Posted(q) \cup Elements(c)
         /\ Unshared(q) /\ IsInjectiveSeq(c) /\ Elements(c) \cap Posted(q) = {}
            => Unshared(Append(q, c))
<1> SUFFICES ASSUME NEW r, r = Append(q, c), NEW n, n = Len(q)
             PROVE  /\ Posted(r) = Posted(q) \cup Elements(c)
                    /\ Unshared(q) /\ IsInjectiveSeq(c)
                       /\ Elements(c) \cap Posted(q) = {} => Unshared(r)
  OBVIOUS
<1>1. n \in Nat /\ DOMAIN q = 1..n /\ DOMAIN r = 1..(n + 1)
      /\ \A i \in 1..n : r[i] = q[i]
      /\ r[n + 1] = c
  OBVIOUS
<1>2. \A i \in 1..(n + 1) : i \in 1..n \/ i = n + 1
  BY <1>1
<1>3. \A i \in 1..n : i \in 1..(n + 1)
  BY <1>1
<1>4. n + 1 \in 1..(n + 1) /\ n + 1 \notin 1..n
  BY <1>1
<1>5. Posted(r) = Posted(q) \cup Elements(c)
  <2>1. Posted(r) = UNION { Elements(r[i]) : i \in 1..(n + 1) }
    BY <1>1 DEF Posted
  <2>2. Posted(q) = UNION { Elements(q[i]) : i \in 1..n }
    BY <1>1 DEF Posted
  <2>3. ASSUME NEW m \in Posted(r)
        PROVE  m \in Posted(q) \cup Elements(c)
    <3>1. PICK i \in 1..(n + 1) : m \in Elements(r[i])
      BY <2>1
    <3>2. CASE i \in 1..n
      BY <3>1, <3>2, <2>2, <1>1
    <3>3. CASE i = n + 1
      BY <3>1, <3>3, <1>1
    <3>4. QED BY <3>2, <3>3, <1>2
  <2>4. Posted(q) \subseteq Posted(r)
    BY <2>1, <2>2, <1>1, <1>3
  <2>5. Elements(c) \subseteq Posted(r)
    BY <2>1, <1>1, <1>4
  <2>6. QED BY <2>3, <2>4, <2>5
<1>6. ASSUME Unshared(q), IsInjectiveSeq(c), Elements(c) \cap Posted(q) = {}
      PROVE  Unshared(r)
  <2>1. ASSUME NEW i \in 1..n PROVE Disjoint(q[i], c) /\ Disjoint(c, q[i])
    <3>1. Elements(q[i]) \subseteq Posted(q)
      BY <1>1 DEF Posted
    <3>2. QED BY <3>1, <1>6 DEF Disjoint
  <2>2. ASSUME NEW i \in 1..(n + 1) PROVE IsInjectiveSeq(r[i])
    <3>1. CASE i \in 1..n
      BY <3>1, <1>1, <1>6 DEF Unshared
    <3>2. CASE i = n + 1
      BY <3>2, <1>1, <1>6
    <3>3. QED BY <3>1, <3>2, <1>2
  <2>3. ASSUME NEW i \in 1..(n + 1), NEW k \in 1..(n + 1), i # k
        PROVE  Disjoint(r[i], r[k])
    <3>1. CASE i \in 1..n /\ k \in 1..n
      BY <3>1, <2>3, <1>1, <1>6 DEF Unshared
    <3>2. CASE i \in 1..n /\ k = n + 1
      BY <3>2, <2>1, <1>1
    <3>3. CASE i = n + 1 /\ k \in 1..n
      BY <3>3, <2>1, <1>1
    <3>4. QED BY <3>1, <3>2, <3>3, <2>3, <1>2
  <2>4. QED BY <2>2, <2>3, <1>1 DEF Unshared
<1>7. QED BY <1>5, <1>6

(* Taking the first chain out of the mailbox.                              *)
LEMMA TakeChain ==
  ASSUME NEW S, NEW q \in Seq(Seq(S)), q # <<>>
  PROVE  /\ Head(q) \in Seq(S) /\ Tail(q) \in Seq(Seq(S))
         /\ Posted(q) = Elements(Head(q)) \cup Posted(Tail(q))
         /\ Unshared(q) => /\ Unshared(Tail(q))
                           /\ IsInjectiveSeq(Head(q))
                           /\ Elements(Head(q)) \cap Posted(Tail(q)) = {}
<1> SUFFICES ASSUME NEW r, r = Tail(q), NEW n, n = Len(q) - 1
             PROVE  /\ Head(q) \in Seq(S) /\ r \in Seq(Seq(S))
                    /\ Posted(q) = Elements(Head(q)) \cup Posted(r)
                    /\ Unshared(q) => /\ Unshared(r)
                                      /\ IsInjectiveSeq(Head(q))
                                      /\ Elements(Head(q)) \cap Posted(r) = {}
  OBVIOUS
<1>1. n \in Nat /\ DOMAIN q = 1..(n + 1) /\ DOMAIN r = 1..n /\ Head(q) = q[1]
      /\ \A i \in 1..n : r[i] = q[i + 1]
  OBVIOUS
<1>2. \A i \in 1..(n + 1) : i = 1 \/ (i - 1 \in 1..n /\ i = (i - 1) + 1)
  BY <1>1
<1>3. 1 \in 1..(n + 1) /\ \A i \in 1..n : i + 1 \in 1..(n + 1) /\ i + 1 # 1
  BY <1>1
<1>3a. \A i, k \in 1..n : i # k => i + 1 # k + 1
  BY <1>1
<1>4. Head(q) \in Seq(S) /\ r \in Seq(Seq(S))
  OBVIOUS
<1>5. Posted(q) = Elements(Head(q)) \cup Posted(r)
  <2>1. Posted(r) = UNION { Elements(r[i]) : i \in 1..n }
    BY <1>1 DEF Posted
  <2>2. Posted(q) = UNION { Elements(q[i]) : i \in 1..(n + 1) }
    BY <1>1 DEF Posted
  <2>3. ASSUME NEW m \in Posted(q)
        PROVE  m \in Elements(Head(q)) \cup Posted(r)
    <3>1. PICK i \in 1..(n + 1) : m \in Elements(q[i])
      BY <2>2
    <3>2. CASE i = 1
      BY <3>1, <3>2, <1>1
    <3>3. CASE i # 1
      <4>1. i - 1 \in 1..n /\ r[i - 1] = q[i]
        BY <3>3, <1>1, <1>2
      <4>2. QED BY <4>1, <3>1, <2>1
    <3>4. QED BY <3>2, <3>3
  <2>4. ASSUME NEW k \in 1..n
        PROVE  Elements(r[k]) \subseteq Posted(q)
    BY <2>2, <1>1, <1>3
  <2>5. Elements(Head(q)) \subseteq Posted(q)
    BY <2>2, <1>1, <1>3
  <2>6. Posted(r) \subseteq Posted(q)
    BY <2>1, <2>4
  <2>7. QED BY <2>3, <2>5, <2>6
<1>6. ASSUME Unshared(q)
      PROVE  /\ Unshared(r) /\ IsInjectiveSeq(Head(q))
             /\ Elements(Head(q)) \cap Posted(r) = {}
  <2>1. ASSUME NEW i \in 1..n
        PROVE  IsInjectiveSeq(r[i]) /\ Disjoint(q[1], r[i])
    BY <2>1, <1>1, <1>3, <1>6 DEF Unshared
  <2>2. ASSUME NEW i \in 1..n, NEW k \in 1..n, i # k
        PROVE  Disjoint(r[i], r[k])
    <3>1. i + 1 # k + 1
      BY <2>2, <1>3a
    <3>2. QED BY <2>2, <3>1, <1>1, <1>3, <1>6 DEF Unshared
  <2>3. Unshared(r)
    BY <2>1, <2>2, <1>1 DEF Unshared
  <2>4. IsInjectiveSeq(Head(q))
    BY <1>1, <1>3, <1>6 DEF Unshared
  <2>5. Elements(Head(q)) \cap Posted(r) = {}
    BY <2>1, <1>1 DEF Disjoint, Posted
  <2>6. QED BY <2>3, <2>4, <2>5
<1>7. QED BY <1>4, <1>5, <1>6

-----------------------------------------------------------------------------
(* Types, and the registers of each thread.                                *)

Shape == TypeOK /\ Registers

Threadwise(t) ==
  /\ pc[t] = "next" => evt[t] # <<>>
  /\ pc[t] \in {"retry", "apply", "commit"} =>
       evt[t] # <<>> /\ evt[t] = <<Message(t)>>
  /\ pc[t] \notin {"next", "retry", "apply", "commit"} => evt[t] = <<>>
  /\ pc[t] = "apply" => pend[t] = seen[t]
  /\ pc[t] = "commit" =>
       /\ sends[t] \in Chains[Message(t)]
       /\ pend[t] \in {seen[t], Append(seen[t], Message(t))}
  /\ pc[t] \in {"flush", "post"} => sends[t] # <<>>

(* The registers of a thread speak of that thread only.                    *)
LEMMA RegistersThreadwise == Registers <=> \A t \in Thread : Threadwise(t)
BY DEF Registers, Threadwise

(* The message a thread handles is a message, sent to an Actor.            *)
LEMMA HandledMessage ==
  ASSUME Shape, NEW t \in Thread, pc[t] \in {"next", "retry", "apply", "commit"}
  PROVE  Message(t) \in Msg /\ Self(t) \in Actor
<1>1. evt[t] \in Seq(Msg) /\ evt[t] # <<>>
  BY DEF Shape, TypeOK, Registers
<1>2. Message(t) \in Msg
  BY <1>1 DEF Message
<1>3. QED BY <1>2, MsgAssumption DEF Self

(* A thread whose registers a step leaves alone keeps their shape.         *)
LEMMA OtherThread ==
  ASSUME NEW u \in Thread, Threadwise(u), pc'[u] = pc[u], evt'[u] = evt[u],
         seen'[u] = seen[u], pend'[u] = pend[u], sends'[u] = sends[u]
  PROVE  Threadwise(u)'
BY DEF Threadwise, Message

(* The shape holds when RUN-ACTORS starts.                                 *)
LEMMA ShapeInit == Init => Shape
<1> SUFFICES ASSUME Init PROVE Shape
  OBVIOUS
<1>1. TypeOK
  BY DEF Init, TypeOK, Locations
<1>2. Registers
  BY DEF Init, Registers
<1>3. QED BY <1>1, <1>2 DEF Shape

(* Every step of RUN-ACTORS keeps the shape of the registers.              *)
LEMMA ShapeStep == Shape /\ [Next]_vars => Shape'
<1> SUFFICES ASSUME Shape, [Next]_vars PROVE Shape'
  OBVIOUS
<1>0. /\ TypeOK
      /\ \A t \in Thread : Threadwise(t)
  BY RegistersThreadwise DEF Shape
<1>1. SUFFICES TypeOK' /\ \A u \in Thread : Threadwise(u)'
  BY DEF Shape, Registers, Threadwise
<1>2. ASSUME NEW m \in Msg, ForeignSend(m)
      PROVE  TypeOK' /\ \A u \in Thread : Threadwise(u)'
  BY <1>0, <1>2, OtherThread DEF ForeignSend, TypeOK, Transaction, Root
<1>3. ASSUME NEW t \in Thread, ThreadStep(t)
      PROVE  TypeOK' /\ \A u \in Thread : Threadwise(u)'
  <2>1. CASE Ask(t)
    <3>1. TypeOK'
      BY <1>0, <2>1, RequestAssumption DEF Ask, Goto, TypeOK, Locations, Transaction, Root
    <3>2. Threadwise(t)'
      BY <1>0, <2>1, RequestAssumption DEF Ask, Goto, TypeOK, Locations, Threadwise, Transaction, Root
    <3>3. \A u \in Thread \ {t} : Threadwise(u)'
      BY <1>0, <2>1, OtherThread DEF Ask, Goto, TypeOK, Transaction, Root
    <3>4. QED BY <3>1, <3>2, <3>3
  <2>2. CASE Return(t)
    <3>1. TypeOK'
      BY <1>0, <2>2 DEF Return, Goto, TypeOK, Locations, Transaction
    <3>2. Threadwise(t)'
      BY <1>0, <2>2 DEF Return, Goto, TypeOK, Locations, Threadwise, Transaction
    <3>3. \A u \in Thread \ {t} : Threadwise(u)'
      BY <1>0, <2>2, OtherThread DEF Return, Goto, TypeOK, Transaction
    <3>4. QED BY <3>1, <3>2, <3>3
  <2>3. CASE StartRead(t)
    <3>1. TypeOK'
      BY <1>0, <2>3 DEF StartRead, Goto, TypeOK, Locations, Transaction
    <3>2. Threadwise(t)'
      BY <1>0, <2>3 DEF StartRead, Goto, TypeOK, Locations, Threadwise, Transaction
    <3>3. \A u \in Thread \ {t} : Threadwise(u)'
      BY <1>0, <2>3, OtherThread DEF StartRead, Goto, TypeOK, Transaction
    <3>4. QED BY <3>1, <3>2, <3>3
  <2>4. CASE Read(t)
    <3>1. TypeOK'
      <4>1. /\ Head(mailbox) \in Seq(Msg)
            /\ Tail(mailbox) \in Seq(Seq(Msg) \ {<<>>})
        BY <1>0, <2>4 DEF Read, TypeOK
      <4>2. evt' \in [Thread -> Seq(Msg)] /\ mailbox' \in Seq(Seq(Msg) \ {<<>>})
        BY <1>0, <2>4, <4>1 DEF Read, TypeOK
      <4>3. QED BY <1>0, <2>4, <4>2 DEF Read, Goto, TypeOK, Locations, Transaction
    <3>2. Threadwise(t)'
      BY <1>0, <2>4, TakeChain DEF Read, Goto, TypeOK, Locations, Threadwise, Transaction
    <3>3. \A u \in Thread \ {t} : Threadwise(u)'
      BY <1>0, <2>4, OtherThread DEF Read, Goto, TypeOK, Transaction
    <3>4. QED BY <3>1, <3>2, <3>3
  <2>5. CASE ReadTimeout(t)
    <3>1. TypeOK'
      BY <1>0, <2>5 DEF ReadTimeout, Goto, TypeOK, Locations, Transaction
    <3>2. Threadwise(t)'
      BY <1>0, <2>5 DEF ReadTimeout, Goto, TypeOK, Locations, Threadwise, Transaction
    <3>3. \A u \in Thread \ {t} : Threadwise(u)'
      BY <1>0, <2>5, OtherThread DEF ReadTimeout, Goto, TypeOK, Transaction
    <3>4. QED BY <3>1, <3>2, <3>3
  <2>6. CASE Spill(t)
    <3>1. TypeOK'
      <4>1. evt[t] \in Seq(Msg) /\ evt[t] # <<>>
        BY <1>0, <2>6 DEF Spill, Goto, TypeOK, Threadwise
      <4>2. Tail(evt[t]) \in Seq(Msg) /\ <<Head(evt[t])>> \in Seq(Msg)
        BY <4>1, ChainSplit
      <4>3. mailbox' \in Seq(Seq(Msg) \ {<<>>})
        <5>1. CASE Tail(evt[t]) = <<>>
          BY <1>0, <2>6, <5>1 DEF Spill, TypeOK
        <5>2. CASE Tail(evt[t]) # <<>>
          <6>1. mailbox' = Append(mailbox, Tail(evt[t]))
            BY <2>6, <5>2 DEF Spill
          <6>2. Tail(evt[t]) \in Seq(Msg) \ {<<>>}
            BY <4>2, <5>2
          <6>3. QED BY <1>0, <6>1, <6>2 DEF TypeOK
        <5>3. QED BY <5>1, <5>2
      <4>4. evt' \in [Thread -> Seq(Msg)]
        BY <1>0, <2>6, <4>2 DEF Spill, TypeOK
      <4>5. QED
        BY <1>0, <2>6, <4>3, <4>4 DEF Spill, Goto, TypeOK, Locations, Transaction
    <3>2. Threadwise(t)'
      BY <1>0, <2>6, ChainSplit, SmallChains DEF Spill, Goto, TypeOK, Locations, Threadwise, Transaction, Message
    <3>3. \A u \in Thread \ {t} : Threadwise(u)'
      BY <1>0, <2>6, OtherThread DEF Spill, Goto, TypeOK, Transaction, Message
    <3>4. QED BY <3>1, <3>2, <3>3
  <2>7. CASE Retry(t)
    <3>1. TypeOK'
      <4>1. beh[Self(t)] \in Seq(Msg) /\ <<>> \in Seq(Msg)
        BY <1>0, <2>7, HandledMessage DEF Retry, Goto, TypeOK
      <4>2. QED BY <1>0, <2>7, <4>1 DEF Retry, Goto, TypeOK, Locations
    <3>2. Threadwise(t)'
      BY <1>0, <2>7, HandledMessage DEF Retry, Goto, TypeOK, Locations, Threadwise, Message, Self
    <3>3. \A u \in Thread \ {t} : Threadwise(u)'
      BY <1>0, <2>7, OtherThread DEF Retry, Goto, TypeOK, Message, Self
    <3>4. QED BY <3>1, <3>2, <3>3
  <2>8. CASE Apply(t)
    <3>1. TypeOK'
      <4>1. Message(t) \in Msg
        BY <2>8, HandledMessage DEF Apply, Goto
      <4>2. sends' \in [Thread -> Seq(Msg)]
        BY <1>0, <2>8, <4>1, MsgAssumption DEF Apply, TypeOK
      <4>3. Append(seen[t], Message(t)) \in Seq(Msg)
        BY <1>0, <4>1 DEF TypeOK
      <4>4. pend' \in [Thread -> Seq(Msg)]
        BY <1>0, <2>8, <4>3 DEF Apply, TypeOK
      <4>5. done' \subseteq Asker
        BY <1>0, <2>8, <4>1, MsgAssumption DEF Apply, TypeOK
      <4>6. QED
        BY <1>0, <2>8, <4>2, <4>4, <4>5 DEF Apply, Goto, TypeOK, Locations
    <3>2. Threadwise(t)'
      BY <1>0, <2>8, HandledMessage, MsgAssumption DEF Apply, Goto, TypeOK, Locations, Threadwise, Message
    <3>3. \A u \in Thread \ {t} : Threadwise(u)'
      BY <1>0, <2>8, OtherThread DEF Apply, Goto, TypeOK, Message
    <3>4. QED BY <3>1, <3>2, <3>3
  <2>9. CASE Err(t)
    <3>1. TypeOK'
      <4>1. Message(t) \in Msg
        BY <2>9, HandledMessage DEF Err, Goto
      <4>2. mailbox' \in Seq(Seq(Msg) \ {<<>>})
        <5>1. CASE ErrReply[Message(t)] = NoMsg
          BY <1>0, <2>9, <5>1 DEF Err, TypeOK
        <5>2. CASE ErrReply[Message(t)] # NoMsg
          <6>1. <<ErrReply[Message(t)]>> \in Seq(Msg) \ {<<>>}
            BY <4>1, <5>2, MsgAssumption
          <6>2. mailbox' = Append(mailbox, <<ErrReply[Message(t)]>>)
            BY <2>9, <5>2 DEF Err
          <6>3. QED BY <1>0, <6>1, <6>2 DEF TypeOK
        <5>3. QED BY <5>1, <5>2
      <4>3. /\ evt' \in [Thread -> Seq(Msg)] /\ seen' \in [Thread -> Seq(Msg)]
            /\ pend' \in [Thread -> Seq(Msg)] /\ sends' \in [Thread -> Seq(Msg)]
        BY <1>0, <2>9 DEF Err, Forget, TypeOK
      <4>4. QED
        BY <1>0, <2>9, <4>1, <4>2, <4>3 DEF Err, Goto, TypeOK, Locations
    <3>2. Threadwise(t)'
      BY <1>0, <2>9, HandledMessage, MsgAssumption DEF Err, Goto, TypeOK, Locations, Threadwise, Forget
    <3>3. \A u \in Thread \ {t} : Threadwise(u)'
      BY <1>0, <2>9, OtherThread DEF Err, Goto, TypeOK, Forget
    <3>4. QED BY <3>1, <3>2, <3>3
  <2>10. CASE HandleNextEvent(t)
    <3>1. TypeOK'
      BY <1>0, <2>10 DEF HandleNextEvent, Goto, TypeOK, Locations, Transaction
    <3>2. Threadwise(t)'
      BY <1>0, <2>10 DEF HandleNextEvent, Goto, TypeOK, Locations, Threadwise, Transaction
    <3>3. \A u \in Thread \ {t} : Threadwise(u)'
      BY <1>0, <2>10, OtherThread DEF HandleNextEvent, Goto, TypeOK, Transaction
    <3>4. QED BY <3>1, <3>2, <3>3
  <2>11. CASE Terminate(t)
    <3>1. TypeOK'
      BY <1>0, <2>11 DEF Terminate, Goto, TypeOK, Locations, Transaction
    <3>2. Threadwise(t)'
      BY <1>0, <2>11 DEF Terminate, Goto, TypeOK, Locations, Threadwise, Transaction
    <3>3. \A u \in Thread \ {t} : Threadwise(u)'
      BY <1>0, <2>11, OtherThread DEF Terminate, Goto, TypeOK, Transaction
    <3>4. QED BY <3>1, <3>2, <3>3
  <2>12. CASE Commit(t)
    <3>1. TypeOK'
      <4>1. beh' \in [Actor -> Seq(Msg)]
        BY <1>0, <2>12 DEF Commit, TypeOK
      <4>2. finished' \subseteq Msg
        BY <1>0, <2>12, HandledMessage DEF Commit, Goto, TypeOK
      <4>3. /\ evt' \in [Thread -> Seq(Msg)] /\ seen' \in [Thread -> Seq(Msg)]
            /\ pend' \in [Thread -> Seq(Msg)]
        BY <1>0, <2>12 DEF Commit, Forget, TypeOK
      <4>4. QED
        BY <1>0, <2>12, <4>1, <4>2, <4>3 DEF Commit, Goto, TypeOK, Locations
    <3>2. Threadwise(t)'
      BY <1>0, <2>12, HandledMessage, MsgAssumption DEF Commit, Goto, TypeOK, Locations, Threadwise, Forget
    <3>3. \A u \in Thread \ {t} : Threadwise(u)'
      BY <1>0, <2>12, OtherThread DEF Commit, Goto, TypeOK, Forget
    <3>4. QED BY <3>1, <3>2, <3>3
  <2>13. CASE CommitFails(t)
    <3>1. TypeOK'
      BY <1>0, <2>13 DEF CommitFails, Goto, TypeOK, Locations, Transaction, Message
    <3>2. Threadwise(t)'
      BY <1>0, <2>13 DEF CommitFails, Goto, TypeOK, Locations, Threadwise, Transaction, Message
    <3>3. \A u \in Thread \ {t} : Threadwise(u)'
      BY <1>0, <2>13, OtherThread DEF CommitFails, Goto, TypeOK, Transaction, Message
    <3>4. QED BY <3>1, <3>2, <3>3
  <2>14. CASE FlushToMailbox(t)
    <3>1. TypeOK'
      BY <1>0, <2>14 DEF FlushToMailbox, Goto, TypeOK, Locations, Transaction
    <3>2. Threadwise(t)'
      BY <1>0, <2>14 DEF FlushToMailbox, Goto, TypeOK, Locations, Threadwise, Transaction
    <3>3. \A u \in Thread \ {t} : Threadwise(u)'
      BY <1>0, <2>14, OtherThread DEF FlushToMailbox, Goto, TypeOK, Transaction
    <3>4. QED BY <3>1, <3>2, <3>3
  <2>15. CASE GrabOwnSends(t)
    <3>1. TypeOK'
      BY <1>0, <2>15 DEF GrabOwnSends, Goto, TypeOK, Locations
    <3>2. Threadwise(t)'
      BY <1>0, <2>15 DEF GrabOwnSends, Goto, TypeOK, Locations, Threadwise
    <3>3. \A u \in Thread \ {t} : Threadwise(u)'
      BY <1>0, <2>15, OtherThread DEF GrabOwnSends, Goto, TypeOK
    <3>4. QED BY <3>1, <3>2, <3>3
  <2>16. CASE Post(t)
    <3>1. TypeOK'
      <4>1. sends[t] \in Seq(Msg) \ {<<>>}
        BY <1>0, <2>16 DEF Post, Goto, TypeOK, Threadwise
      <4>2. mailbox' \in Seq(Seq(Msg) \ {<<>>})
        BY <1>0, <2>16, <4>1 DEF Post, TypeOK
      <4>3. sends' \in [Thread -> Seq(Msg)]
        BY <1>0, <2>16 DEF Post, TypeOK
      <4>4. QED
        BY <1>0, <2>16, <4>2, <4>3 DEF Post, Goto, TypeOK, Locations
    <3>2. Threadwise(t)'
      BY <1>0, <2>16 DEF Post, Goto, TypeOK, Locations, Threadwise
    <3>3. \A u \in Thread \ {t} : Threadwise(u)'
      BY <1>0, <2>16, OtherThread DEF Post, Goto, TypeOK
    <3>4. QED BY <3>1, <3>2, <3>3
  <2>17. QED
    BY <1>3, <2>1, <2>2, <2>3, <2>4, <2>5, <2>6, <2>7, <2>8, <2>9, <2>10, <2>11, <2>12, <2>13, <2>14, <2>15, <2>16 DEF ThreadStep
<1>4. CASE Quiet
  BY <1>0, <1>4, OtherThread DEF Quiet, vars, TypeOK
<1>5. CASE UNCHANGED vars
  BY <1>0, <1>5, OtherThread DEF vars, TypeOK
<1>6. QED BY <1>2, <1>3, <1>4, <1>5 DEF Next

-----------------------------------------------------------------------------
(* Where messages are, as a function of a mailbox q and of the chains h    *)
(* that threads hold; f stands for the finished messages.                  *)

Present(q, h) == Posted(q) \cup UNION { Elements(h[u]) : u \in Thread }

Placed(q, h, f) ==
  /\ Unshared(q)
  /\ \A u \in Thread :
       /\ IsInjectiveSeq(h[u])
       /\ Elements(h[u]) \cap Posted(q) = {}
       /\ \A v \in Thread : u # v => Disjoint(h[u], h[v])
  /\ Present(q, h) \cap f = {}

(* The same, as thread t sees it.                                          *)
Others(h, t) == UNION { Elements(h[u]) : u \in Thread \ {t} }

OthersApart(h, t) ==
  \A u \in Thread \ {t} :
    /\ IsInjectiveSeq(h[u])
    /\ \A v \in Thread \ {t} : u # v => Disjoint(h[u], h[v])

(* What is present: in the mailbox, in the hand of t, or of the others.    *)
LEMMA PresentSplit ==
  ASSUME NEW q, NEW h, NEW t \in Thread
  PROVE  Present(q, h) = Posted(q) \cup Elements(h[t]) \cup Others(h, t)
<1>1. UNION { Elements(h[u]) : u \in Thread } = Elements(h[t]) \cup Others(h, t)
  BY DEF Others
<1>2. QED BY <1>1 DEF Present

PlacedFor(q, h, f, t) ==
  /\ Unshared(q) /\ IsInjectiveSeq(h[t]) /\ OthersApart(h, t)
  /\ Elements(h[t]) \cap Posted(q) = {}
  /\ Elements(h[t]) \cap Others(h, t) = {}
  /\ Posted(q) \cap Others(h, t) = {}
  /\ Present(q, h) \cap f = {}

(* Being in one place, seen from thread t.                                 *)
LEMMA PlacedSplit ==
  ASSUME NEW q, NEW h, NEW f, NEW t \in Thread
  PROVE  Placed(q, h, f) <=> PlacedFor(q, h, f, t)
<1> USE DEF PlacedFor
<1>1. ASSUME Placed(q, h, f)
      PROVE  /\ Unshared(q) /\ IsInjectiveSeq(h[t]) /\ OthersApart(h, t)
             /\ Elements(h[t]) \cap Posted(q) = {}
             /\ Elements(h[t]) \cap Others(h, t) = {}
             /\ Posted(q) \cap Others(h, t) = {}
             /\ Present(q, h) \cap f = {}
  <2>1. \A u \in Thread \ {t} : Elements(h[t]) \cap Elements(h[u]) = {}
    BY <1>1 DEF Placed, Disjoint
  <2>2. Elements(h[t]) \cap Others(h, t) = {}
    BY <2>1 DEF Others
  <2>3. Posted(q) \cap Others(h, t) = {}
    BY <1>1 DEF Placed, Others
  <2>4. OthersApart(h, t)
    BY <1>1 DEF Placed, OthersApart
  <2>5. QED BY <1>1, <2>2, <2>3, <2>4 DEF Placed
<1>2. ASSUME Unshared(q), IsInjectiveSeq(h[t]), OthersApart(h, t),
             Elements(h[t]) \cap Posted(q) = {},
             Elements(h[t]) \cap Others(h, t) = {},
             Posted(q) \cap Others(h, t) = {},
             Present(q, h) \cap f = {}
      PROVE  Placed(q, h, f)
  <2>1. ASSUME NEW u \in Thread
        PROVE  IsInjectiveSeq(h[u]) /\ Elements(h[u]) \cap Posted(q) = {}
    <3>1. CASE u = t
      BY <3>1, <1>2
    <3>2. CASE u # t
      BY <3>2, <1>2 DEF OthersApart, Others
    <3>3. QED BY <3>1, <3>2
  <2>2. ASSUME NEW u \in Thread, NEW v \in Thread, u # v
        PROVE  Disjoint(h[u], h[v])
    <3>1. CASE u = t
      BY <3>1, <2>2, <1>2 DEF Others, Disjoint
    <3>2. CASE v = t
      BY <3>2, <2>2, <1>2 DEF Others, Disjoint
    <3>3. CASE u # t /\ v # t
      BY <3>3, <2>2, <1>2 DEF OthersApart
    <3>4. QED BY <3>1, <3>2, <3>3
  <2>3. QED BY <2>1, <2>2, <1>2 DEF Placed
<1>3. QED BY <1>1, <1>2

(* Only t changes what it holds, from h[t] to c.                           *)
Changed(h, k, t, c) ==
  k[t] = c /\ \A u \in Thread \ {t} : k[u] = h[u]

(* Changing what t holds leaves the others alone.                          *)
LEMMA OthersUnchanged ==
  ASSUME NEW h, NEW t \in Thread, NEW c, NEW k, Changed(h, k, t, c)
  PROVE  /\ k[t] = c
         /\ Others(k, t) = Others(h, t)
         /\ OthersApart(k, t) <=> OthersApart(h, t)
<1>1. k[t] = c /\ \A u \in Thread \ {t} : k[u] = h[u]
  BY DEF Changed
<1>2. Others(k, t) = Others(h, t)
  BY <1>1 DEF Others
<1>3. OthersApart(k, t) <=> OthersApart(h, t)
  BY <1>1 DEF OthersApart
<1>4. QED BY <1>1, <1>2, <1>3

(* Thread t, whose hands are empty, takes the first chain (Read).          *)
LEMMA TakeMoves ==
  ASSUME NEW q \in Seq(Seq(Msg)), q # <<>>, NEW h, NEW f,
         NEW t \in Thread, h[t] = <<>>, Placed(q, h, f),
         NEW k, Changed(h, k, t, Head(q))
  PROVE  Placed(Tail(q), k, f) /\ Present(Tail(q), k) = Present(q, h)
<1>1. /\ k[t] = Head(q)
      /\ Others(k, t) = Others(h, t)
      /\ OthersApart(k, t) <=> OthersApart(h, t)
  BY OthersUnchanged
<1>2. Elements(h[t]) = {}
  BY SmallChains
<1>3. /\ Unshared(q) /\ OthersApart(h, t)
      /\ Posted(q) \cap Others(h, t) = {}
      /\ Present(q, h) \cap f = {}
  BY PlacedSplit DEF PlacedFor
<1>4. /\ Posted(q) = Elements(Head(q)) \cup Posted(Tail(q))
      /\ Unshared(Tail(q)) /\ IsInjectiveSeq(Head(q))
      /\ Elements(Head(q)) \cap Posted(Tail(q)) = {}
  BY <1>3, TakeChain
<1>5. Present(q, h) = Posted(q) \cup Others(h, t)
  <2>1. Present(q, h) = Posted(q) \cup Elements(h[t]) \cup Others(h, t)
    BY PresentSplit
  <2>2. QED BY <2>1, <1>2
<1>6. Present(Tail(q), k) = Posted(Tail(q)) \cup Elements(Head(q)) \cup Others(h, t)
  <2>1. Present(Tail(q), k) = Posted(Tail(q)) \cup Elements(k[t]) \cup Others(k, t)
    BY PresentSplit
  <2>2. QED BY <2>1, <1>1
<1>7. Present(Tail(q), k) = Present(q, h)
  BY <1>4, <1>5, <1>6
<1>8. Placed(Tail(q), k, f)
  <2>1. PlacedFor(Tail(q), k, f, t)
    BY <1>1, <1>3, <1>4, <1>7 DEF PlacedFor
  <2>2. QED BY <2>1, PlacedSplit
<1>9. QED BY <1>7, <1>8

(* Thread t keeps the first of the chain it holds and posts the rest.     *)
Spilled(q, h, r, k, t) ==
  /\ h[t] \in Seq(Msg) /\ h[t] # <<>>
  /\ r = Append(q, Tail(h[t])) /\ Changed(h, k, t, <<Head(h[t])>>)

(* Thread t posts the rest of its chain and keeps the first (Spill).       *)
LEMMA SpillMoves ==
  ASSUME NEW q \in Seq(Seq(Msg)), NEW h, NEW f, Placed(q, h, f),
         NEW t \in Thread, NEW r, NEW k, Spilled(q, h, r, k, t)
  PROVE  /\ Placed(r, k, f) /\ Present(r, k) = Present(q, h)
         /\ Tail(h[t]) = <<>> => Placed(q, k, f) /\ Present(q, k) = Present(q, h)
<1>0. /\ h[t] \in Seq(Msg) /\ h[t] # <<>> /\ r = Append(q, Tail(h[t]))
      /\ Changed(h, k, t, <<Head(h[t])>>)
  BY DEF Spilled
<1>1. /\ k[t] = <<Head(h[t])>>
      /\ Others(k, t) = Others(h, t)
      /\ OthersApart(k, t) <=> OthersApart(h, t)
  BY <1>0, OthersUnchanged
<1>2. /\ Unshared(q) /\ IsInjectiveSeq(h[t]) /\ OthersApart(h, t)
      /\ Elements(h[t]) \cap Posted(q) = {}
      /\ Elements(h[t]) \cap Others(h, t) = {}
      /\ Posted(q) \cap Others(h, t) = {}
      /\ Present(q, h) \cap f = {}
  BY PlacedSplit DEF PlacedFor
<1>3. h[t] \in Seq(Msg) /\ h[t] # <<>>
  BY <1>0
<1>4. /\ Tail(h[t]) \in Seq(Msg)
      /\ Elements(h[t]) = {Head(h[t])} \cup Elements(Tail(h[t]))
  BY <1>3, ChainSplit
<1>5. IsInjectiveSeq(Tail(h[t])) /\ Head(h[t]) \notin Elements(Tail(h[t]))
  BY <1>2, <1>3, InjectiveSplit
<1>6. Elements(k[t]) = {Head(h[t])} /\ IsInjectiveSeq(k[t])
  BY <1>1, SmallChains
<1>7. Posted(r) = Posted(q) \cup Elements(Tail(h[t]))
  BY <1>0, <1>4, PostChain
<1>8. Unshared(r)
  <2>1. Elements(Tail(h[t])) \cap Posted(q) = {}
    BY <1>2, <1>4
  <2> QED BY <1>0, <1>2, <1>4, <1>5, <2>1, PostChain
<1>9. Present(q, h) = Posted(q) \cup Elements(h[t]) \cup Others(h, t)
  BY PresentSplit
<1>10. /\ Present(r, k) = Posted(r) \cup {Head(h[t])} \cup Others(h, t)
       /\ Present(q, k) = Posted(q) \cup {Head(h[t])} \cup Others(h, t)
  <2>1. /\ Present(r, k) = Posted(r) \cup Elements(k[t]) \cup Others(k, t)
        /\ Present(q, k) = Posted(q) \cup Elements(k[t]) \cup Others(k, t)
    BY PresentSplit
  <2>2. QED BY <2>1, <1>1, <1>6
<1>11. Present(r, k) = Present(q, h)
  BY <1>4, <1>7, <1>9, <1>10
<1>12. Placed(r, k, f)
  <2>1. Elements(k[t]) \cap Posted(r) = {}
    BY <1>2, <1>4, <1>5, <1>6, <1>7
  <2>2. Posted(r) \cap Others(k, t) = {}
    BY <1>1, <1>2, <1>4, <1>7
  <2>3. Elements(k[t]) \cap Others(k, t) = {}
    BY <1>1, <1>2, <1>4, <1>6
  <2>4. PlacedFor(r, k, f, t)
    BY <2>1, <2>2, <2>3, <1>1, <1>2, <1>6, <1>8, <1>11 DEF PlacedFor
  <2>5. QED BY <2>4, PlacedSplit
<1>13. ASSUME Tail(h[t]) = <<>>
       PROVE  Placed(q, k, f) /\ Present(q, k) = Present(q, h)
  <2>1. Elements(h[t]) = {Head(h[t])}
    BY <1>4, <1>13, SmallChains
  <2>2. Present(q, k) = Present(q, h)
    BY <2>1, <1>9, <1>10
  <2>3. PlacedFor(q, k, f, t)
    BY <2>1, <2>2, <1>1, <1>2, <1>6 DEF PlacedFor
  <2>4. QED BY <2>2, <2>3, PlacedSplit
<1>14. QED BY <1>11, <1>12, <1>13

(* Thread t posts all it holds (Post).                                     *)
LEMMA PostMoves ==
  ASSUME NEW q \in Seq(Seq(Msg)), NEW h, NEW f,
         NEW t \in Thread, h[t] \in Seq(Msg), Placed(q, h, f),
         NEW k, Changed(h, k, t, <<>>)
  PROVE  /\ Placed(Append(q, h[t]), k, f)
         /\ Present(Append(q, h[t]), k) = Present(q, h)
<1> SUFFICES ASSUME NEW r, r = Append(q, h[t])
             PROVE  Placed(r, k, f) /\ Present(r, k) = Present(q, h)
  OBVIOUS
<1>1. /\ k[t] = <<>>
      /\ Others(k, t) = Others(h, t)
      /\ OthersApart(k, t) <=> OthersApart(h, t)
  BY OthersUnchanged
<1>2. /\ Unshared(q) /\ IsInjectiveSeq(h[t]) /\ OthersApart(h, t)
      /\ Elements(h[t]) \cap Posted(q) = {}
      /\ Elements(h[t]) \cap Others(h, t) = {}
      /\ Posted(q) \cap Others(h, t) = {}
      /\ Present(q, h) \cap f = {}
  BY PlacedSplit DEF PlacedFor
<1>3. Elements(k[t]) = {} /\ IsInjectiveSeq(k[t])
  BY <1>1, SmallChains
<1>4. Posted(r) = Posted(q) \cup Elements(h[t]) /\ Unshared(r)
  BY <1>2, PostChain
<1>5. Present(r, k) = Present(q, h)
  <2>1. /\ Present(r, k) = Posted(r) \cup Elements(k[t]) \cup Others(k, t)
        /\ Present(q, h) = Posted(q) \cup Elements(h[t]) \cup Others(h, t)
    BY PresentSplit
  <2>2. QED BY <2>1, <1>1, <1>3, <1>4
<1>6. Placed(r, k, f)
  <2>1. PlacedFor(r, k, f, t)
    BY <1>1, <1>2, <1>3, <1>4, <1>5 DEF PlacedFor
  <2>2. QED BY <2>1, PlacedSplit
<1>7. QED BY <1>5, <1>6

(* No message of c is here, or was.                                        *)
Fresh(c, q, h, f) == Elements(c) \cap (Present(q, h) \cup f) = {}

(* The message t handles is finished; the chain c comes in its place.      *)
LEMMA FinishMoves ==
  ASSUME NEW q, NEW h, NEW f,
         NEW t \in Thread, NEW m, h[t] = <<m>>, Placed(q, h, f),
         NEW c, IsInjectiveSeq(c), Fresh(c, q, h, f),
         NEW k, Changed(h, k, t, c)
  PROVE  /\ Placed(q, k, f \cup {m})
         /\ Present(q, k) = (Present(q, h) \ {m}) \cup Elements(c)
<1>1. /\ k[t] = c
      /\ Others(k, t) = Others(h, t)
      /\ OthersApart(k, t) <=> OthersApart(h, t)
  BY OthersUnchanged
<1>2. Elements(h[t]) = {m}
  BY SmallChains
<1>3. /\ Unshared(q) /\ OthersApart(h, t)
      /\ m \notin Posted(q) /\ m \notin Others(h, t)
      /\ Posted(q) \cap Others(h, t) = {}
      /\ Present(q, h) \cap f = {}
  BY <1>2, PlacedSplit DEF PlacedFor
<1>4. Present(q, h) = Posted(q) \cup {m} \cup Others(h, t)
  BY <1>2, PresentSplit
<1>5. Present(q, k) = Posted(q) \cup Elements(c) \cup Others(h, t)
  <2>1. Present(q, k) = Posted(q) \cup Elements(k[t]) \cup Others(k, t)
    BY PresentSplit
  <2>2. QED BY <2>1, <1>1
<1>6. Present(q, k) = (Present(q, h) \ {m}) \cup Elements(c)
  BY <1>3, <1>4, <1>5
<1>7. /\ Elements(c) \cap Posted(q) = {} /\ Elements(c) \cap Others(h, t) = {}
      /\ Present(q, k) \cap (f \cup {m}) = {}
  BY <1>3, <1>4, <1>6 DEF Fresh
<1>8. Placed(q, k, f \cup {m})
  <2>1. PlacedFor(q, k, f \cup {m}, t)
    BY <1>1, <1>3, <1>7 DEF PlacedFor
  <2>2. QED BY <2>1, PlacedSplit
<1>9. QED BY <1>6, <1>8

Absent(m, q, h, f) == m \notin Present(q, h) \cup f

(* Posting a message that is not in the mailbox, alone.                    *)
LEMMA PostOne ==
  ASSUME NEW S, NEW q \in Seq(Seq(S)), NEW m \in S
  PROVE  /\ Posted(Append(q, <<m>>)) = Posted(q) \cup {m}
         /\ Unshared(q) /\ m \notin Posted(q) => Unshared(Append(q, <<m>>))
<1> PICK c : c = <<m>>
  OBVIOUS
<1>1. c \in Seq(S)
  OBVIOUS
<1>2. Elements(c) = {m} /\ IsInjectiveSeq(c)
  BY SmallChains
<1>3. /\ Posted(Append(q, c)) = Posted(q) \cup Elements(c)
      /\ Unshared(q) /\ IsInjectiveSeq(c) /\ Elements(c) \cap Posted(q) = {}
            => Unshared(Append(q, c))
  BY <1>1, PostChain
<1>4. Elements(c) \cap Posted(q) = {} <=> m \notin Posted(q)
  BY <1>2
<1> QED BY <1>2, <1>3, <1>4

(* A message alone is posted.                                             *)
Added(q, m, r) == r = Append(q, <<m>>)

(* A new message is posted (ForeignSend, Ask, an error reply).             *)
LEMMA NewMoves ==
  ASSUME NEW q \in Seq(Seq(Msg)), NEW h, NEW f, Placed(q, h, f),
         NEW m \in Msg, Absent(m, q, h, f), NEW r, Added(q, m, r)
  PROVE  Placed(r, h, f) /\ Present(r, h) = Present(q, h) \cup {m}
<1>1. Elements(<<m>>) = {m} /\ IsInjectiveSeq(<<m>>) /\ <<m>> \in Seq(Msg)
  BY SmallChains
<1>2. /\ m \notin Present(q, h) /\ m \notin f /\ m \notin Posted(q)
      /\ \A u \in Thread : m \notin Elements(h[u])
  BY DEF Absent, Present
<1>3. Posted(r) = Posted(q) \cup {m} /\ Unshared(r)
  <2>1. Unshared(q)
    BY DEF Placed
  <2>2. /\ Posted(Append(q, <<m>>)) = Posted(q) \cup {m}
        /\ Unshared(Append(q, <<m>>))
    BY <1>2, <2>1, PostOne
  <2> QED BY <2>2 DEF Added
<1>4. Present(r, h) = Present(q, h) \cup {m}
  BY <1>3 DEF Present
<1>5. Placed(r, h, f)
  BY <1>2, <1>3, <1>4 DEF Placed
<1>6. QED BY <1>4, <1>5

-----------------------------------------------------------------------------
(* Every step is one of the moves above.                                   *)

hold == [u \in Thread |-> Holding(u)]

(* OnePlace and PENDING in terms of mailbox and hands.                     *)
LEMMA Placing ==
  ASSUME Shape
  PROVE  /\ hold \in [Thread -> Seq(Msg)]
         /\ OnePlace <=> Placed(mailbox, hold, finished)
         /\ pending = Present(mailbox, hold)
<1>1. \A u \in Thread : hold[u] = Holding(u)
  BY DEF hold
<1>2. hold \in [Thread -> Seq(Msg)]
  BY DEF hold, Holding, Shape, TypeOK
<1>3. pending = Present(mailbox, hold)
  BY <1>1 DEF pending, Present
<1>4. OnePlace <=> Placed(mailbox, hold, finished)
  BY <1>1, <1>3 DEF OnePlace, Placed
<1>5. QED BY <1>2, <1>3, <1>4

(* The same after a step.                                                  *)
LEMMA PlacingAfter ==
  /\ OnePlace' <=> Placed(mailbox', hold', finished')
  /\ pending' = Present(mailbox', hold')
<1>1. \A u \in Thread : hold'[u] = Holding(u)'
  BY DEF hold
<1>2. pending' = Present(mailbox', hold')
  BY <1>1 DEF pending, Present
<1>3. OnePlace' <=> Placed(mailbox', hold', finished')
  BY <1>1, <1>2 DEF OnePlace, Placed
<1>4. QED BY <1>2, <1>3

(* What a step does to the messages, in the terms of ActorModel.           *)
NoneAsks(m) == \A k \in Asker : pc[k] = "ask" => Request[k] # m

Outcome ==
  \/ UNCHANGED <<pending, finished, beh>>
  \/ \E m \in Msg : Abstract!Inject(m) /\ NoneAsks(m)'
  \/ \E m \in Msg : Abstract!Handle(m)
  \/ \E m \in Msg : Abstract!Fail(m)

(* A message that is sent now was nowhere before.                          *)
LEMMA Unborn ==
  ASSUME OnePlace, BornAfterParent, NEW m \in pending, NEW n, Parent[n] = m, m # NoMsg
  PROVE  n \notin pending \cup finished
BY DEF OnePlace, BornAfterParent

(* A step of RUN-ACTORS keeps every message in one place.                  *)
LEMMA ThreadStepOutcome ==
  ASSUME IInv, NEW t \in Thread, ThreadStep(t)
  PROVE  OnePlace' /\ Outcome
<1> DEFINE P == Placed(mailbox', hold', finished')
           Q == Present(mailbox', hold')
<1>a. /\ TypeOK /\ Registers /\ BornAfterParent /\ OnePlace /\ Shape
      /\ mailbox \in Seq(Seq(Msg)) /\ hold \in [Thread -> Seq(Msg)]
      /\ hold[t] = Holding(t) /\ hold[t] \in Seq(Msg)
  BY Placing DEF IInv, Shape, TypeOK, hold
<1>b. /\ Placed(mailbox, hold, finished) /\ pending = Present(mailbox, hold)
      /\ OnePlace' <=> P
      /\ pending' = Q
  BY <1>a, Placing, PlacingAfter
<1>c. ASSUME UNCHANGED <<mailbox, hold, finished, beh>>
      PROVE  OnePlace' /\ Outcome
  <2>1. P /\ Q = pending
    BY <1>b, <1>c
  <2>2. QED BY <2>1, <1>b, <1>c DEF Outcome
<1> HIDE DEF P, Q
<1>1. CASE Return(t) \/ StartRead(t) \/ ReadTimeout(t) \/ HandleNextEvent(t)
           \/ Terminate(t) \/ CommitFails(t) \/ FlushToMailbox(t)
  <2>1. UNCHANGED <<mailbox, hold, finished, beh>>
    BY <1>a, <1>1 DEF Return, StartRead, ReadTimeout, HandleNextEvent, Terminate,
       CommitFails, FlushToMailbox, Goto, Transaction, Changed, hold, Holding, TypeOK
  <2>2. QED BY <2>1, <1>c
<1>2. CASE Retry(t) \/ Apply(t)
  <2>1. UNCHANGED <<mailbox, hold, finished, beh>>
    BY <1>a, <1>2 DEF Retry, Apply, Goto, Changed, hold, Holding, TypeOK
  <2>2. QED BY <2>1, <1>c
<1>3. CASE GrabOwnSends(t)
  <2>1. UNCHANGED <<mailbox, hold, finished, beh>>
    BY <1>a, <1>3 DEF GrabOwnSends, Goto, Changed, hold, Holding, TypeOK
  <2>2. QED BY <2>1, <1>c
<1>4. CASE Read(t)
  <2>1. mailbox # <<>> /\ hold[t] = <<>>
    BY <1>a, <1>4 DEF Read, Goto, Registers, Holding
  <2>2. /\ Changed(hold, hold', t, Head(mailbox))
        /\ mailbox' = Tail(mailbox) /\ UNCHANGED <<finished, beh>>
    BY <1>a, <1>4 DEF Read, Goto, Transaction, Changed, hold, Holding, TypeOK
  <2>3. P /\ Q = pending
    BY <2>1, <2>2, <1>a, <1>b, TakeMoves DEF P, Q
  <2>4. QED BY <2>2, <2>3, <1>b DEF Outcome
<1>5. CASE Spill(t)
  <2>1. hold[t] = evt[t] /\ evt[t] # <<>>
    BY <1>a, <1>5 DEF Spill, Goto, Registers, Holding
  <2>2. /\ Changed(hold, hold', t, <<Head(hold[t])>>)
        /\ UNCHANGED <<finished, beh>>
    BY <1>a, <1>5, <2>1 DEF Spill, Goto, Transaction, Changed, hold, Holding, TypeOK
  <2>3. \/ Tail(hold[t]) = <<>> /\ mailbox' = mailbox
        \/ mailbox' = Append(mailbox, Tail(hold[t]))
    BY <1>5, <2>1 DEF Spill
  <2>4. P /\ Q = pending
    <3> PICK r : r = Append(mailbox, Tail(hold[t]))
      OBVIOUS
    <3>1. hold[t] \in Seq(Msg) /\ Spilled(mailbox, hold, r, hold', t)
      BY <1>a, <2>1, <2>2 DEF Spilled
    <3>2. mailbox \in Seq(Seq(Msg)) /\ Placed(mailbox, hold, finished)
      BY <1>a, <1>b
    <3>3. /\ Placed(r, hold', finished) /\ Present(r, hold') = Present(mailbox, hold)
          /\ Tail(hold[t]) = <<>> =>
               /\ Placed(mailbox, hold', finished)
               /\ Present(mailbox, hold') = Present(mailbox, hold)
      BY <3>1, <3>2, SpillMoves
    <3>4. mailbox' = r \/ (mailbox' = mailbox /\ Tail(hold[t]) = <<>>)
      BY <2>3
    <3>5. QED BY <3>3, <3>4, <1>b, <2>2 DEF P, Q
  <2>5. QED BY <2>2, <2>4, <1>b DEF Outcome
<1>6. CASE Post(t)
  <2>1. hold[t] = sends[t]
    BY <1>a, <1>6 DEF Post, Goto, Holding
  <2>2. /\ Changed(hold, hold', t, <<>>)
        /\ mailbox' = Append(mailbox, hold[t]) /\ UNCHANGED <<finished, beh>>
    BY <1>a, <1>6, <2>1 DEF Post, Goto, Transaction, Changed, hold, Holding, TypeOK, Registers
  <2>3. P /\ Q = pending
    <3>1. Placed(mailbox', hold', finished) /\ Present(mailbox', hold') = pending
      BY <1>a, <1>b, <2>2, PostMoves
    <3>2. QED BY <3>1, <2>2 DEF P, Q
  <2>4. QED BY <2>2, <2>3, <1>b DEF Outcome
<1>7. CASE Ask(t)
  <2>1. t \in Asker /\ pc[t] = "ask" /\ Request[t] \in Root /\ Request[t] \in Msg
    BY <1>7, RequestAssumption DEF Ask, Goto, Root
  <2>2. Request[t] \notin pending \cup finished
    BY <1>a, <2>1 DEF BornAfterParent
  <2>3. /\ hold' = hold /\ mailbox' = Append(mailbox, <<Request[t]>>)
        /\ UNCHANGED <<finished, beh>>
    BY <1>a, <1>7 DEF Ask, Goto, Transaction, Changed, hold, Holding, TypeOK
  <2>4. P /\ Q = pending \cup {Request[t]}
    <3>1. /\ Absent(Request[t], mailbox, hold, finished)
          /\ Added(mailbox, Request[t], mailbox')
      BY <2>2, <2>3, <1>b DEF Absent, Added
    <3>2. mailbox \in Seq(Seq(Msg)) /\ Placed(mailbox, hold, finished)
      BY <1>a, <1>b
    <3>3. /\ Placed(mailbox', hold, finished)
          /\ Present(mailbox', hold) = Present(mailbox, hold) \cup {Request[t]}
      BY <2>1, <3>1, <3>2, NewMoves
    <3>4. QED BY <3>3, <2>3, <1>b DEF P, Q
  <2>5. NoneAsks(Request[t])'
    BY <1>a, <1>7, <2>1, RequestAssumption, ThreadAssumption
       DEF NoneAsks, Ask, Goto, TypeOK
  <2>6. Abstract!Inject(Request[t])
    BY <2>1, <2>2, <2>3, <2>4, <1>b DEF Abstract!Inject
  <2>7. QED BY <2>1, <2>4, <2>5, <2>6, <1>b DEF Outcome
<1> DEFINE m == Message(t)
<1>8. ASSUME pc[t] \in {"apply", "commit"}
      PROVE  /\ m \in Msg /\ m # NoMsg /\ Self(t) \in Actor
             /\ hold[t] = <<m>> /\ m \in pending
  <2>1. m \in Msg /\ Self(t) \in Actor /\ m # NoMsg
    BY <1>8, <1>a, HandledMessage, MsgAssumption
  <2>2. hold[t] = <<m>>
    BY <1>8, <1>a DEF Registers, Holding
  <2>3. m \in Elements(hold[t])
    BY <2>2, SmallChains
  <2>4. QED BY <2>1, <2>2, <2>3, <1>b DEF Present
<1>9. CASE Err(t)
  <2>0. pc[t] = "apply"
    BY <1>9 DEF Err, Goto
  <2> HIDE DEF m
  <2>1. /\ m \in Msg /\ m # NoMsg /\ hold[t] = <<m>> /\ m \in pending
    BY <1>8, <2>0
  <2>3. /\ Changed(hold, hold', t, <<>>)
        /\ finished' = finished \cup {m} /\ beh' = beh
    BY <1>a, <1>9 DEF Err, Forget, Goto, Changed, hold, Holding, TypeOK, m
  <2>2. Placed(mailbox, hold', finished') /\ Present(mailbox, hold') = pending \ {m}
    <3>1. PICK c : /\ Elements(c) = {} /\ IsInjectiveSeq(c)
                   /\ Changed(hold, hold', t, c)
      BY <2>3, SmallChains
    <3>2. Fresh(c, mailbox, hold, finished)
      BY <3>1 DEF Fresh
    <3>3. /\ Placed(mailbox, hold', finished \cup {m})
          /\ Present(mailbox, hold')
               = (Present(mailbox, hold) \ {m}) \cup Elements(c)
      BY <3>1, <3>2, <1>b, <2>1, FinishMoves
    <3>4. QED BY <3>1, <3>3, <2>3, <1>b
  <2>4. CASE ErrReply[m] = NoMsg
    <3>1. mailbox' = mailbox
      BY <1>9, <2>4 DEF Err, m
    <3>2. P /\ Q = pending \ {m}
      BY <3>1, <2>2, <2>3 DEF P, Q
    <3>3. Abstract!Fail(m)
      BY <3>2, <2>1, <2>3, <1>b DEF Abstract!Fail
    <3>4. QED BY <3>2, <3>3, <2>1, <1>b DEF Outcome
  <2>5. CASE ErrReply[m] # NoMsg
    <3>1. mailbox' = Append(mailbox, <<ErrReply[m]>>)
      BY <1>9, <2>5 DEF Err, m
    <3>2. ErrReply[m] \in Msg /\ Parent[ErrReply[m]] = m
      BY <2>1, <2>5, MsgAssumption, FamilyAssumption
    <3>3. ErrReply[m] \notin pending \cup finished
      BY <3>2, <2>1, <1>a, Unborn
    <3>4. ErrReply[m] \notin (pending \ {m}) \cup finished'
      BY <3>3, <2>1, <2>3
    <3>5. mailbox \in Seq(Seq(Msg))
      BY <1>a
    <3>6. P /\ Q = (pending \ {m}) \cup {ErrReply[m]}
      <4>1. Absent(ErrReply[m], mailbox, hold', finished')
        BY <3>4, <2>2 DEF Absent
      <4>2. Added(mailbox, ErrReply[m], mailbox')
        BY <3>1 DEF Added
      <4>3. /\ Placed(mailbox', hold', finished')
            /\ Present(mailbox', hold') = Present(mailbox, hold') \cup {ErrReply[m]}
        BY <4>1, <4>2, <3>2, <3>5, <2>2, NewMoves
      <4>4. QED BY <4>3, <2>2 DEF P, Q
    <3>7. Abstract!Fail(m)
      BY <3>6, <2>1, <2>3, <2>5, <1>b DEF Abstract!Fail
    <3>8. QED BY <3>6, <3>7, <2>1, <1>b DEF Outcome
  <2>6. QED BY <2>4, <2>5
<1>10. CASE Commit(t)
  <2>0. pc[t] = "commit"
    BY <1>10 DEF Commit, Goto
  <2>0a. Registers /\ sends[t] \in Chains[m]
         /\ pend[t] \in {seen[t], Append(seen[t], m)}
    BY <1>a, <2>0 DEF Registers
  <2>0b. /\ m \in Msg /\ m # NoMsg /\ hold[t] = <<m>> /\ m \in pending
         /\ Self(t) = Target[m] /\ Target[m] \in Actor
    BY <1>8, <2>0 DEF Self
  <2> HIDE DEF m
  <2>1. /\ IsInjectiveSeq(sends[t]) /\ sends[t] \in Seq(Msg)
        /\ \A n \in Elements(sends[t]) : Parent[n] = m
    BY <2>0a, <2>0b, MsgAssumption, FamilyAssumption DEF Elements
  <2>2. Elements(sends[t]) \cap (pending \cup finished) = {}
    BY <2>0b, <2>1, <1>a, Unborn
  <2>3. /\ Changed(hold, hold', t, sends[t])
        /\ mailbox' = mailbox /\ finished' = finished \cup {m}
    BY <1>a, <1>10, <2>0 DEF Commit, Forget, Goto, Changed, hold, Holding, TypeOK, m
  <2>4. P /\ Q = (pending \ {m}) \cup Elements(sends[t])
    <3>1. /\ Placed(mailbox, hold', finished \cup {m})
          /\ Present(mailbox, hold')
               = (Present(mailbox, hold) \ {m}) \cup Elements(sends[t])
      <4>1. Fresh(sends[t], mailbox, hold, finished)
        BY <2>2, <1>b DEF Fresh
      <4>2. QED BY <4>1, <2>0b, <2>1, <2>3, <1>b, FinishMoves
    <3>2. QED BY <3>1, <2>3, <1>b DEF P, Q
  <2>5. beh' = beh \/ beh' = [beh EXCEPT ![Target[m]] = Append(@, m)]
    BY <1>10, <2>0a, <2>0b DEF Commit
  <2>6. Abstract!Handle(m)
    BY <2>0a, <2>0b, <2>3, <2>4, <2>5, <1>b
       DEF Abstract!Handle, Abstract!Elements, Elements
  <2>7. QED BY <2>0b, <2>4, <2>6, <1>b DEF Outcome
<1>11. QED
  BY <1>1, <1>2, <1>3, <1>4, <1>5, <1>6, <1>7, <1>9, <1>10 DEF ThreadStep

(* SEND-TO-POOL adds one message that was nowhere before.                  *)
LEMMA ForeignSendOutcome ==
  ASSUME IInv, NEW m \in Msg, ForeignSend(m)
  PROVE  OnePlace' /\ Outcome
<1>1. /\ TypeOK /\ OnePlace /\ Shape /\ mailbox \in Seq(Seq(Msg))
      /\ Placed(mailbox, hold, finished) /\ pending = Present(mailbox, hold)
      /\ OnePlace' <=> Placed(mailbox', hold', finished')
      /\ pending' = Present(mailbox', hold')
  BY Placing, PlacingAfter DEF IInv, Shape, TypeOK
<1>2. /\ m \in Root /\ m \notin pending \cup finished
      /\ mailbox' = Append(mailbox, <<m>>) /\ UNCHANGED <<finished, beh>>
      /\ NoneAsks(m)'
  BY DEF ForeignSend, NoneAsks
<1>3. hold' = hold
  BY DEF ForeignSend, Transaction, hold, Holding
<1>4. Absent(m, mailbox, hold, finished)
  BY <1>1, <1>2 DEF Absent
<1>5. /\ Placed(mailbox', hold', finished')
      /\ Present(mailbox', hold') = pending \cup {m}
  <2>1. Added(mailbox, m, mailbox')
    BY <1>2 DEF Added
  <2>2. /\ Placed(mailbox', hold, finished)
        /\ Present(mailbox', hold) = Present(mailbox, hold) \cup {m}
    BY <1>1, <1>4, <2>1, NewMoves
  <2> QED BY <1>1, <1>2, <1>3, <2>2
<1>6. Abstract!Inject(m)
  BY <1>1, <1>2, <1>5 DEF Abstract!Inject
<1>7. QED BY <1>1, <1>2, <1>5, <1>6 DEF Outcome

(* Every step keeps each message in one place and is a step of ActorModel. *)
LEMMA StepOutcome == IInv /\ [Next]_vars => OnePlace' /\ Outcome
<1> SUFFICES ASSUME IInv, [Next]_vars PROVE OnePlace' /\ Outcome
  OBVIOUS
<1>1. ASSUME NEW m \in Msg, ForeignSend(m) PROVE OnePlace' /\ Outcome
  BY <1>1, ForeignSendOutcome
<1>2. ASSUME NEW t \in Thread, ThreadStep(t) PROVE OnePlace' /\ Outcome
  BY <1>2, ThreadStepOutcome
<1>3. ASSUME UNCHANGED vars PROVE OnePlace' /\ Outcome
  <2>1. OnePlace
    BY DEF IInv
  <2>2. hold' = hold /\ UNCHANGED <<mailbox, finished, beh>>
    BY <1>3 DEF vars, hold, Holding
  <2>3. Shape
    BY DEF IInv, Shape
  <2>4. Placed(mailbox', hold', finished') /\ pending' = pending
    BY <2>1, <2>2, <2>3, Placing, PlacingAfter
  <2>5. QED BY <2>2, <2>4, PlacingAfter DEF Outcome
<1>4. QED BY <1>1, <1>2, <1>3 DEF Next, Quiet

(* No step enters ASK: a client thread is there before it starts.          *)
LEMMA AskOnce ==
  ASSUME TypeOK, [Next]_vars, NEW q \in Asker, pc'[q] = "ask"
  PROVE  pc[q] = "ask"
<1>0. pc \in [Thread -> Locations] /\ q \in Thread
  BY ThreadAssumption DEF TypeOK
<1>1. ASSUME NEW t \in Thread, ThreadStep(t) PROVE pc[q] = "ask"
  <2>1. ASSUME NEW from, NEW to, Goto(t, from, to), to # "ask"
        PROVE  pc[q] = "ask"
    BY <2>1, <1>0 DEF Goto
  <2>2. QED
    BY <1>1, <2>1 DEF ThreadStep, Ask, Return, StartRead, Read, ReadTimeout,
       Spill, Retry, Apply, Err, HandleNextEvent, Terminate, Commit, CommitFails,
       FlushToMailbox, GrabOwnSends, Post
<1>2. ASSUME NEW m \in Msg, ForeignSend(m) PROVE pc[q] = "ask"
  BY <1>2 DEF ForeignSend
<1>3. ASSUME UNCHANGED vars PROVE pc[q] = "ask"
  BY <1>3 DEF vars
<1>4. QED BY <1>1, <1>2, <1>3 DEF Next, Quiet

(* The messages that are new after a step descend from a finished one, or  *)
(* come from outside.                                                      *)
LEMMA BirthStep == IInv /\ [Next]_vars => BornAfterParent'
<1> SUFFICES ASSUME IInv, [Next]_vars PROVE BornAfterParent'
  OBVIOUS
<1>0. TypeOK /\ OnePlace /\ BornAfterParent /\ Outcome
  BY StepOutcome DEF IInv
<1> DEFINE Here == pending \cup finished
           WellBorn == \A m \in Here : Parent[m] = NoMsg \/ Parent[m] \in finished
           Unasked == \A q \in Asker : pc[q] = "ask" => Request[q] \notin Here
<1>1. WellBorn /\ Unasked
  BY <1>0 DEF BornAfterParent
<1>2. SUFFICES WellBorn' /\ Unasked'
  BY DEF BornAfterParent
<1>3. CASE UNCHANGED <<pending, finished, beh>>
  BY <1>0, <1>1, <1>3, AskOnce
<1>4. ASSUME NEW m \in Msg, Abstract!Inject(m), NoneAsks(m)'
      PROVE  WellBorn' /\ Unasked'
  <2>1. m \in Root /\ Here' = Here \cup {m} /\ finished' = finished
    BY <1>4 DEF Abstract!Inject
  <2>2. WellBorn'
    BY <1>1, <2>1 DEF Root
  <2>3. Unasked'
    BY <1>0, <1>1, <1>4, <2>1, AskOnce DEF NoneAsks
  <2>4. QED BY <2>2, <2>3
<1>5. ASSUME NEW m \in pending, NEW kids, m # NoMsg,
             \A n \in kids : Parent[n] = m,
             pending' = (pending \ {m}) \cup kids, finished' = finished \cup {m}
      PROVE  WellBorn' /\ Unasked'
  <2>1. \A n \in Here' : n \in Here \/ Parent[n] = m
    BY <1>5
  <2>2. WellBorn'
    BY <1>1, <1>5, <2>1
  <2>3. \A q \in Asker : Parent[Request[q]] = NoMsg
    BY RequestAssumption DEF Root
  <2>4. Unasked'
    BY <1>0, <1>1, <1>5, <2>1, <2>3, AskOnce
  <2>5. QED BY <2>2, <2>4
<1>6. ASSUME NEW m \in Msg, Abstract!Handle(m)
      PROVE  WellBorn' /\ Unasked'
  <2>1. PICK c \in Chains[m] : pending' = (pending \ {m}) \cup Elements(c)
    BY <1>6 DEF Abstract!Handle, Abstract!Elements, Elements
  <2>2. \A n \in Elements(c) : Parent[n] = m
    BY <2>1, FamilyAssumption DEF Elements
  <2>3. m \in pending /\ m # NoMsg /\ finished' = finished \cup {m}
    BY <1>6, MsgAssumption DEF Abstract!Handle
  <2>4. QED
    <3> HIDE DEF WellBorn, Unasked
    <3> QED BY <2>1, <2>2, <2>3, <1>5
<1>7. ASSUME NEW m \in Msg, Abstract!Fail(m)
      PROVE  WellBorn' /\ Unasked'
  <2>1. m \in pending /\ m # NoMsg /\ finished' = finished \cup {m}
    BY <1>7, MsgAssumption DEF Abstract!Fail
  <2> HIDE DEF WellBorn, Unasked
  <2>2. PICK kids : /\ \A n \in kids : Parent[n] = m
                    /\ pending' = (pending \ {m}) \cup kids
    <3>1. CASE pending' = pending \ {m}
      <4>1. pending' = (pending \ {m}) \cup {}
        BY <3>1
      <4>2. QED BY <4>1
    <3>2. CASE ErrReply[m] # NoMsg /\ pending' = (pending \ {m}) \cup {ErrReply[m]}
      <4>1. \A n \in {ErrReply[m]} : Parent[n] = m
        BY <3>2, FamilyAssumption
      <4>2. QED BY <3>2, <4>1
    <3>3. QED BY <1>7, <3>1, <3>2 DEF Abstract!Fail
  <2>3. QED BY <2>1, <2>2, <1>5
<1>8. QED
  <2> HIDE DEF WellBorn, Unasked
  <2> QED BY <1>0, <1>3, <1>4, <1>6, <1>7 DEF Outcome

-----------------------------------------------------------------------------
(* Nothing is in the mailbox at first.                                     *)
LEMMA EmptyMailbox == Posted(<<>>) = {} /\ Unshared(<<>>)
BY DEF Posted, Unshared

(* The inductive invariant holds when RUN-ACTORS starts.                   *)
LEMMA InvariantInit == Init => IInv
<1> SUFFICES ASSUME Init PROVE IInv
  OBVIOUS
<1>1. TypeOK /\ Registers
  BY ShapeInit DEF Shape
<1>2. \A t \in Thread : Holding(t) = <<>>
  BY DEF Init, Holding
<1>3. mailbox = <<>> /\ finished = {}
  BY DEF Init
<1>4. Posted(mailbox) = {} /\ Unshared(mailbox)
  BY <1>3, EmptyMailbox
<1>5. pending = {}
  BY <1>2, <1>4, SmallChains DEF pending
<1>6. OnePlace
  BY <1>2, <1>4, <1>5, SmallChains DEF OnePlace, Disjoint
<1>7. BornAfterParent
  BY <1>3, <1>5 DEF BornAfterParent
<1>8. QED BY <1>1, <1>6, <1>7 DEF IInv

(* Every step of RUN-ACTORS, and every SEND-TO-POOL, keeps it.             *)
LEMMA InvariantStep == IInv /\ [Next]_vars => IInv'
<1> SUFFICES ASSUME IInv, [Next]_vars PROVE IInv'
  OBVIOUS
<1>1. TypeOK' /\ Registers'
  BY ShapeStep DEF IInv, Shape
<1>2. OnePlace'
  BY StepOutcome
<1>3. BornAfterParent'
  BY BirthStep
<1>4. QED BY <1>1, <1>2, <1>3 DEF IInv

(* The inductive invariant holds in every state of the dispatcher, for     *)
(* every pool, every set of messages and every behaviour of the Actors.    *)
THEOREM Invariance == Spec => []IInv
<1>1. Init => IInv
  BY InvariantInit
<1>2. IInv /\ [Next]_vars => IInv'
  BY InvariantStep
<1>3. QED BY <1>1, <1>2, PTL DEF Spec

(* The registers of run-actors hold what their readers expect.             *)
THEOREM TypeCorrect == Spec => []TypeOK
<1>1. IInv => TypeOK
  BY DEF IInv
<1>2. QED BY <1>1, Invariance, PTL

(* No message is lost in two chains, in the hands of two threads, or       *)
(* handled again: retries, spills, grabs and posts (run-actors, lines      *)
(* 224-264) move chains and never copy them.                               *)
THEOREM MessagesInOnePlace == Spec => []OnePlace
<1>1. IInv => OnePlace
  BY DEF IInv
<1>2. QED BY <1>1, Invariance, PTL

(* The concurrent dispatcher implements the one that handles messages one  *)
(* at a time: SEND and BECOME take effect together, once, at the commit,   *)
(* and not at all after an error (run-actors, lines 235-264).              *)
THEOREM Implementation == Spec => HandledAtomically
<1>1. Init => Abstract!Init
  <2> SUFFICES ASSUME Init PROVE Abstract!Init
    OBVIOUS
  <2>1. mailbox = <<>> /\ \A t \in Thread : Holding(t) = <<>>
    BY DEF Init, Holding
  <2>2. Posted(mailbox) = {}
    BY <2>1, EmptyMailbox
  <2>3. pending = {}
    BY <2>1, <2>2, SmallChains DEF pending
  <2>4. QED BY <2>3 DEF Init, Abstract!Init
<1>2. IInv /\ [Next]_vars => [Abstract!Next]_(Abstract!absVars)
  BY StepOutcome DEF Outcome, Abstract!Next, Abstract!absVars
<1>3. QED
  BY <1>1, <1>2, Invariance, PTL DEF Spec, HandledAtomically, Abstract!Spec
=============================================================================
