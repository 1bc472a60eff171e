--------------------------- MODULE SyncChanProofs ---------------------------
(***************************************************************************)
(* Proofs about module SyncChan, for any channels, offers and time limits. *)
(***************************************************************************)
EXTENDS SyncChan, TLAPS, FiniteSetTheorems

(* Where the messages about an offer, or a SYNC, are.                      *)
Sent(o)      == ToEvent(o) \in net
AtCtrl(o)    == ToCtrl(o) \in net
Ported(o, a) == ToPort(o, a) \in net
AtKill(x, a) == ToKill(x, a) \in net
AtRcvr(o, a) == ToRcvr(o, a) \in net
AtCust(s, a) == ToCust(s, a) \in net
Resetting(o) == EventReset(o) \in net

(* Whether the SYNC of an offer has begun; where an offer is in its channel*)
Begun(o)  == rcvr[Owner[o]] # Unborn
Line(o)   == line[ChanOf[o]][SideOf(o)]
InFront(o) == Line(o) # <<>> /\ Head(Line(o)) = o
Held(o)   == ctrl[ChanOf[o]] = o
Met(o)    == \E m \in met : m[1] = o \/ m[2] = o

Types ==
  /\ line \in [Chan -> [Side -> Seq(Offer)]]
  /\ ctrl \in [Chan -> Offer \cup {NoOffer}]
  /\ timer \subseteq Timed
  /\ kill \in [Timed -> {"none", "open", "shut"}]
  /\ rcvr \in [Sync -> Nat \cup {Unborn}]
  /\ told \in [Sync -> Seq(Answer)]
  /\ met \subseteq Puts \X (Offer \ Puts)

(* Ports hold offers of theirs, each once; so does a channel.              *)
In(p, seq)    == \E i \in DOMAIN seq : seq[i] = p
Distinct(seq) == \A i, j \in DOMAIN seq : seq[i] = seq[j] => i = j
LineUp ==
  /\ \A c \in Chan, d \in Side :
       /\ \A p \in Offer : In(p, line[c][d]) => ChanOf[p] = c /\ SideOf(p) = d
       /\ Distinct(line[c][d])
  /\ \A c \in Chan : ctrl[c] # NoOffer => ChanOf[ctrl[c]] = c

(* An offer is on its way to its port, in line there, and, when it is the  *)
(* first of the line, on its way to the channel, waiting in it, or answered*)
(* by it.  Until it is answered it has met nobody.                         *)
Place(o) ==
  /\ Sent(o) => Begun(o) /\ ~Waiting(o)
  /\ Waiting(o) => Begun(o)
  /\ AtCtrl(o) \/ Held(o) \/ (\E a \in Answer : Ported(o, a)) => InFront(o)
  /\ ~(AtCtrl(o) /\ Held(o))
  /\ \A a \in Answer : Ported(o, a) => /\ ~AtCtrl(o) /\ ~Held(o)
                                       /\ \A b \in Answer : Ported(o, b) => a = b
  /\ Met(o) => /\ Begun(o) /\ ~Sent(o)
               /\ Waiting(o) => \E a \in Answer : Ported(o, a)

(* A KILL gate exists before anything comes to it.                         *)
Gates ==
  /\ \A o \in Timed \cap Offer : /\ ~Begun(o) \/ Sent(o) => kill[o] = "none"
                                 /\ Waiting(o) => kill[o] # "none"
  /\ \A s \in Timed \cap Sync : rcvr[s] # Unborn => kill[s] # "none"
  /\ \A x \in Timed : x \in timer \/ (\E a \in Answer : AtKill(x, a)) => kill[x] # "none"
  /\ \A o \in Offer : Resetting(o) => o \in Timed

(* What an offer, or a SYNC, may be told.                                  *)
Answers(o, a) == \E m \in met : \/ m[1] = o /\ a = Ok
                                \/ m[2] = o /\ a = m[1]
Limited == { s \in Sync : s \in Timed \/ OffersOf(s) \subseteq Timed }
OfferTold(o, a) == (o \in Timed /\ a = Fail) \/ Answers(o, a)
SyncTold(s, a) == (s \in Limited /\ a = Fail) \/ \E o \in OffersOf(s) : Answers(o, a)

Truth ==
  /\ \A o \in Offer, a \in Answer : /\ Ported(o, a) => Answers(o, a)
                                    /\ AtKill(o, a) => OfferTold(o, a)
                                    /\ AtRcvr(o, a) => OfferTold(o, a)
  /\ \A s \in Sync, a \in Answer : AtKill(s, a) \/ AtCust(s, a) => SyncTold(s, a)

(* The RCVR of a choice has counted the failures of those of its offers    *)
(* that it will not hear of again.                                         *)
Gone(o) ==
  IF o \in Timed THEN kill[o] = "shut" ELSE Begun(o) /\ ~Sent(o) /\ ~Waiting(o)
StillDue(o) == ~Gone(o) \/ \E a \in Answer : AtRcvr(o, a)
Due(s) == { o \in OffersOf(s) : StillDue(o) }

Heard(o) ==
  \A a \in Answer : AtRcvr(o, a) =>
    /\ Gone(o) /\ Begun(o)
    /\ \A b \in Answer : AtRcvr(o, b) => a = b

Count(s) ==
  rcvr[s] # Unborn /\ rcvr[s] # 0 =>
    rcvr[s] = Cardinality(Due(s)) /\ OffersOf(s) \ Due(s) \subseteq Timed

IInv ==
  /\ Types /\ LineUp /\ Gates /\ Truth
  /\ \A o \in Offer : Place(o) /\ Heard(o)
  /\ \A s \in Sync : Count(s)

-----------------------------------------------------------------------------
(* Facts about messages.                                                   *)

LEMMA Kinds ==
  ASSUME NEW x, NEW a
  PROVE  /\ ToEvent(x).kind = "sync" /\ ToEvent(x).to = x
         /\ ToCtrl(x).kind = "ctrl" /\ ToCtrl(x).to = x
         /\ EventReset(x).kind = "reset" /\ EventReset(x).to = x
         /\ CtrlReset(x).kind = "ctrl-reset" /\ CtrlReset(x).to = x
         /\ ToPort(x, a).kind = "port" /\ ToPort(x, a).to = x /\ ToPort(x, a).answer = a
         /\ ToKill(x, a).kind = "kill" /\ ToKill(x, a).to = x /\ ToKill(x, a).answer = a
         /\ ToRcvr(x, a).kind = "rcvr" /\ ToRcvr(x, a).to = x /\ ToRcvr(x, a).answer = a
         /\ ToCust(x, a).kind = "cust" /\ ToCust(x, a).to = x /\ ToCust(x, a).answer = a
BY DEF ToEvent, ToCtrl, EventReset, CtrlReset, ToPort, ToKill, ToRcvr, ToCust, Msg, Reply

(* What does not change.                                                   *)
SameSent  == \A o : Sent(o)' <=> Sent(o)
SameCtrl  == \A o : AtCtrl(o)' <=> AtCtrl(o)
SamePort  == \A o, a : Ported(o, a)' <=> Ported(o, a)
SameKill  == \A x, a : AtKill(x, a)' <=> AtKill(x, a)
SameRcvr  == \A o, a : AtRcvr(o, a)' <=> AtRcvr(o, a)
SameCust  == \A s, a : AtCust(s, a)' <=> AtCust(s, a)
SameReset == \A o : Resetting(o)' <=> Resetting(o)

(* The messages of an action are those it takes and those it sends.        *)
LEMMA StartSends ==
  ASSUME NEW s \in Sync, Start(s)
  PROVE  /\ \A o \in Offer : Sent(o)' <=> Sent(o) \/ Owner[o] = s
         /\ SameCtrl /\ SamePort /\ SameKill /\ SameRcvr /\ SameCust /\ SameReset
<1>1. net' = net \cup { ToEvent(o) : o \in OffersOf(s) }
  BY DEF Start
<1>2. ASSUME NEW o \in Offer PROVE Sent(o)' <=> Sent(o) \/ Owner[o] = s
  <2>1. ToEvent(o) \in { ToEvent(p) : p \in OffersOf(s) } <=> Owner[o] = s
    BY Kinds DEF OffersOf
  <2> QED BY <1>1, <2>1 DEF Sent
<1>3. \A m \in net' : m.kind # "sync" => m \in net
  BY <1>1, Kinds
<1> QED
  BY <1>1, <1>2, <1>3, Kinds
     DEF SameCtrl, SamePort, SameKill, SameRcvr, SameCust, SameReset,
         AtCtrl, Ported, AtKill, AtRcvr, AtCust, Resetting

LEMMA Sync1Sends ==
  ASSUME NEW o \in Offer, Sync1(o)
  PROVE  /\ Sent(o)
         /\ \A p : Sent(p)' <=> Sent(p) /\ p # o
         /\ \A p : AtCtrl(p)' <=> AtCtrl(p) \/ (p = o /\ Line(o) = <<>>)
         /\ SamePort /\ SameKill /\ SameRcvr /\ SameCust /\ SameReset
<1>1. /\ ToEvent(o) \in net
      /\ net' = (net \ {ToEvent(o)}) \cup (IF Line(o) = <<>> THEN {ToCtrl(o)} ELSE {})
  BY DEF Sync1, Replace, Line
<1>2. \A p : Sent(p)' <=> Sent(p) /\ p # o
  BY <1>1, Kinds DEF Sent
<1>3. \A p : AtCtrl(p)' <=> AtCtrl(p) \/ (p = o /\ Line(o) = <<>>)
  BY <1>1, Kinds DEF AtCtrl
<1>4. \A m : m.kind \notin {"sync", "ctrl"} => (m \in net' <=> m \in net)
  BY <1>1, Kinds
<1> QED
  BY <1>1, <1>2, <1>3, <1>4, Kinds
     DEF SamePort, SameKill, SameRcvr, SameCust, SameReset, Sent,
         Ported, AtKill, AtRcvr, AtCust, Resetting

LEMMA WaitSends ==
  ASSUME NEW o \in Offer, Wait(o)
  PROVE  /\ AtCtrl(o)
         /\ \A p : AtCtrl(p)' <=> AtCtrl(p) /\ p # o
         /\ SameSent /\ SamePort /\ SameKill /\ SameRcvr /\ SameCust /\ SameReset
<1>1. ToCtrl(o) \in net /\ net' = net \ {ToCtrl(o)}
  BY DEF Wait, Replace
<1>2. \A p : AtCtrl(p)' <=> AtCtrl(p) /\ p # o
  BY <1>1, Kinds DEF AtCtrl
<1>3. \A m : m.kind # "ctrl" => (m \in net' <=> m \in net)
  BY <1>1, Kinds
<1> QED
  BY <1>1, <1>2, <1>3, Kinds
     DEF SameSent, SamePort, SameKill, SameRcvr, SameCust, SameReset, AtCtrl,
         Sent, Ported, AtKill, AtRcvr, AtCust, Resetting

LEMMA MeetSends ==
  ASSUME NEW o \in Offer, Meet(o), NEW p, NEW g, PairOf(o, ctrl[ChanOf[o]]) = <<p, g>>
  PROVE  /\ AtCtrl(o)
         /\ \A q : AtCtrl(q)' <=> AtCtrl(q) /\ q # o
         /\ \A q, a : Ported(q, a)' <=> \/ Ported(q, a)
                                        \/ q = p /\ a = Ok
                                        \/ q = g /\ a = p
         /\ SameSent /\ SameKill /\ SameRcvr /\ SameCust /\ SameReset
<1>1. ToCtrl(o) \in net /\ net' = (net \ {ToCtrl(o)}) \cup {ToPort(p, Ok), ToPort(g, p)}
  BY DEF Meet, Replace
<1>2. \A q : AtCtrl(q)' <=> AtCtrl(q) /\ q # o
  BY <1>1, Kinds DEF AtCtrl
<1>3. \A q, a : Ported(q, a)' <=> \/ Ported(q, a)
                                  \/ q = p /\ a = Ok
                                  \/ q = g /\ a = p
  BY <1>1, Kinds DEF Ported
<1>4. \A m : m.kind \notin {"ctrl", "port"} => (m \in net' <=> m \in net)
  BY <1>1, Kinds
<1> QED
  BY <1>1, <1>2, <1>3, <1>4, Kinds
     DEF SameSent, SameKill, SameRcvr, SameCust, SameReset, AtCtrl,
         Sent, AtKill, AtRcvr, AtCust, Resetting

(* The offer that follows o in its line.                                   *)
IsNext(p, o) == Tail(Line(o)) # <<>> /\ p = Head(Tail(Line(o)))

LEMMA PortSends ==
  ASSUME NEW o \in Offer, NEW a \in Answer, Port(o, a)
  PROVE  /\ Ported(o, a)
         /\ \A p, b : Ported(p, b)' <=> Ported(p, b) /\ ~(p = o /\ b = a)
         /\ \A p : AtCtrl(p)' <=> AtCtrl(p) \/ IsNext(p, o)
         /\ \A x, b : AtKill(x, b)' <=> AtKill(x, b) \/ (o \in Timed /\ x = o /\ b = a)
         /\ \A p, b : AtRcvr(p, b)' <=> AtRcvr(p, b) \/ (o \notin Timed /\ p = o /\ b = a)
         /\ SameSent /\ SameCust /\ SameReset
<1> DEFINE rest  == Tail(Line(o))
           after == IF rest = <<>> THEN {} ELSE {ToCtrl(Head(rest))}
<1>1. ToPort(o, a) \in net /\ net' = (net \ {ToPort(o, a)}) \cup ({FromPort(o, a)} \cup after)
  BY DEF Port, Replace, Line
<1>2. \A m \in after : m.kind = "ctrl"
  BY Kinds
<1>3. \A p : ToCtrl(p) \in after <=> IsNext(p, o)
  <2>1. \A p, q : ToCtrl(p) = ToCtrl(q) <=> p = q
    BY Kinds
  <2>2. \A p : IsNext(p, o) <=> rest # <<>> /\ p = Head(rest)
    BY DEF IsNext
  <2> HIDE DEF rest
  <2> QED BY <2>1, <2>2
<1>4. /\ FromPort(o, a).kind \in {"kill", "rcvr"}
      /\ \A x, b : ToKill(x, b) = FromPort(o, a) <=> o \in Timed /\ x = o /\ b = a
      /\ \A x, b : ToRcvr(x, b) = FromPort(o, a) <=> o \notin Timed /\ x = o /\ b = a
  BY Kinds DEF FromPort
<1> HIDE DEF after
<1>5. \A p, b : Ported(p, b)' <=> Ported(p, b) /\ ~(p = o /\ b = a)
  BY <1>1, <1>2, <1>4, Kinds DEF Ported
<1>6. \A p : AtCtrl(p)' <=> AtCtrl(p) \/ IsNext(p, o)
  <2>1. ASSUME NEW p PROVE ToCtrl(p) # ToPort(o, a) /\ ToCtrl(p) # FromPort(o, a)
    <3>1. ToCtrl(p).kind = "ctrl" /\ ToPort(o, a).kind = "port"
      BY Kinds
    <3> QED BY <1>4, <3>1
  <2> QED BY <1>1, <1>3, <2>1 DEF AtCtrl
<1>7. \A x, b : AtKill(x, b)' <=> AtKill(x, b) \/ (o \in Timed /\ x = o /\ b = a)
  BY <1>1, <1>2, <1>4, Kinds DEF AtKill
<1>8. \A p, b : AtRcvr(p, b)' <=> AtRcvr(p, b) \/ (o \notin Timed /\ p = o /\ b = a)
  BY <1>1, <1>2, <1>4, Kinds DEF AtRcvr
<1>9. \A m : m.kind \in {"sync", "cust", "reset"} => (m \in net' <=> m \in net)
  BY <1>1, <1>2, <1>4, Kinds
<1>10. SameSent /\ SameCust /\ SameReset
  BY <1>9, Kinds DEF SameSent, SameCust, SameReset, Sent, AtCust, Resetting
<1>11. Ported(o, a)
  BY <1>1 DEF Ported
<1> QED BY <1>5, <1>6, <1>7, <1>8, <1>10, <1>11

(* A KILL gate that is open; one that is shut.                             *)
LEMMA KillSends ==
  ASSUME NEW x \in Timed, NEW a \in Answer, Kill(x, a), kill[x] = "open"
  PROVE  /\ AtKill(x, a)
         /\ \A y, b : AtKill(y, b)' <=> AtKill(y, b) /\ ~(y = x /\ b = a)
         /\ \A p, b : AtRcvr(p, b)' <=> AtRcvr(p, b) \/ (x \in Offer /\ p = x /\ b = a)
         /\ \A s, b : AtCust(s, b)' <=> AtCust(s, b) \/ (x \notin Offer /\ s = x /\ b = a)
         /\ \A p \in Offer : Resetting(p)' => Resetting(p) \/ p \in Timed
         /\ SameSent /\ SameCtrl /\ SamePort
<1>1. /\ ToKill(x, a) \in net
      /\ net' = (net \ {ToKill(x, a)}) \cup Killed(x, a)
  BY DEF Kill, Replace
<1>2. ASSUME NEW m \in Killed(x, a)
      PROVE  \/ x \in Offer /\ (m = CtrlReset(x) \/ m = ToRcvr(x, a))
             \/ x \notin Offer /\ m = ToCust(x, a)
             \/ \E p \in Offer : p \in Timed /\ m = EventReset(p)
             \/ \E p \in Offer : p \notin Timed /\ m = CtrlReset(p)
  BY <1>2 DEF Killed, Reset, OffersOf
<1>3. x \in Offer => ToRcvr(x, a) \in Killed(x, a)
  BY DEF Killed
<1>4. x \notin Offer => ToCust(x, a) \in Killed(x, a)
  BY DEF Killed
<1>5. /\ \A m \in Killed(x, a) : /\ m.kind \in {"ctrl-reset", "rcvr", "cust", "reset"}
                                 /\ m.kind = "rcvr" => x \in Offer /\ m = ToRcvr(x, a)
                                 /\ m.kind = "cust" => x \notin Offer /\ m = ToCust(x, a)
                                 /\ m.kind = "reset" => m.to \in Timed
  BY <1>2, Kinds
<1>6. \A y, b : AtKill(y, b)' <=> AtKill(y, b) /\ ~(y = x /\ b = a)
  BY <1>1, <1>5, Kinds DEF AtKill
<1>7. \A p, b : AtRcvr(p, b)' <=> AtRcvr(p, b) \/ (x \in Offer /\ p = x /\ b = a)
  BY <1>1, <1>3, <1>5, Kinds DEF AtRcvr
<1>8. \A s, b : AtCust(s, b)' <=> AtCust(s, b) \/ (x \notin Offer /\ s = x /\ b = a)
  BY <1>1, <1>4, <1>5, Kinds DEF AtCust
<1>9. \A p \in Offer : Resetting(p)' => Resetting(p) \/ p \in Timed
  BY <1>1, <1>5, Kinds DEF Resetting
<1>10. \A m : m.kind \in {"sync", "ctrl", "port"} => (m \in net' <=> m \in net)
  BY <1>1, <1>5, Kinds
<1>11. SameSent /\ SameCtrl /\ SamePort
  BY <1>10, Kinds DEF SameSent, SameCtrl, SamePort, Sent, AtCtrl, Ported
<1>12. AtKill(x, a)
  BY <1>1 DEF AtKill
<1> QED BY <1>6, <1>7, <1>8, <1>9, <1>11, <1>12

LEMMA ShutKillSends ==
  ASSUME NEW x \in Timed, NEW a \in Answer, Kill(x, a), kill[x] # "open"
  PROVE  /\ AtKill(x, a)
         /\ \A y, b : AtKill(y, b)' => AtKill(y, b)
         /\ SameSent /\ SameCtrl /\ SamePort /\ SameRcvr /\ SameCust /\ SameReset
<1>1. ToKill(x, a) \in net /\ net' = net \ {ToKill(x, a)}
  BY DEF Kill, Replace
<1>2. \A m : m.kind # "kill" => (m \in net' <=> m \in net)
  BY <1>1, Kinds
<1> QED
  BY <1>1, <1>2, Kinds
     DEF SameSent, SameCtrl, SamePort, SameRcvr, SameCust, SameReset, AtKill,
         Sent, AtCtrl, Ported, AtRcvr, AtCust, Resetting

LEMMA TimerSends ==
  ASSUME NEW x, TimerFires(x)
  PROVE  /\ \A y, b : AtKill(y, b)' <=> AtKill(y, b) \/ (y = x /\ b = Fail)
         /\ SameSent /\ SameCtrl /\ SamePort /\ SameRcvr /\ SameCust /\ SameReset
<1>1. net' = net \cup {ToKill(x, Fail)}
  BY DEF TimerFires
<1>2. \A y, b : AtKill(y, b)' <=> AtKill(y, b) \/ (y = x /\ b = Fail)
  BY <1>1, Kinds DEF AtKill
<1>3. \A m : m.kind # "kill" => (m \in net' <=> m \in net)
  BY <1>1, Kinds
<1>4. SameSent /\ SameCtrl /\ SamePort /\ SameRcvr /\ SameCust /\ SameReset
  BY <1>3, Kinds
     DEF SameSent, SameCtrl, SamePort, SameRcvr, SameCust, SameReset,
         Sent, AtCtrl, Ported, AtRcvr, AtCust, Resetting
<1> QED BY <1>2, <1>4

(* The RCVR drops an answer, or passes it on and may reset the events.     *)
RcvrTakes(o, a) ==
  /\ AtRcvr(o, a)
  /\ \A p, b : AtRcvr(p, b)' <=> AtRcvr(p, b) /\ ~(p = o /\ b = a)
  /\ \A p \in Offer : Resetting(p)' => Resetting(p) \/ p \in Timed
  /\ SameSent /\ SameCtrl /\ SamePort

LEMMA RcvrSends ==
  ASSUME NEW o \in Offer, NEW s, NEW a, NEW sent,
         ToRcvr(o, a) \in net, Replace(ToRcvr(o, a), sent),
         sent \subseteq { Reset(p) : p \in OffersOf(s) } \cup {FromRcvr(s, a)}
  PROVE  /\ RcvrTakes(o, a)
         /\ \A y, b : AtKill(y, b)' => AtKill(y, b) \/ (s \in Timed /\ y = s /\ b = a)
         /\ \A y, b : AtCust(y, b)' => AtCust(y, b) \/ (y = s /\ b = a)
         /\ FromRcvr(s, a) \notin sent =>
              (\A y, b : AtKill(y, b)' => AtKill(y, b)) /\ (\A y, b : AtCust(y, b)' => AtCust(y, b))
<1>1. net' = (net \ {ToRcvr(o, a)}) \cup sent
  BY DEF Replace
<1>2. \A p \in OffersOf(s) : Reset(p) = CtrlReset(p) \/ (p \in Timed /\ Reset(p) = EventReset(p))
  BY DEF Reset
<1>3. FromRcvr(s, a) = ToCust(s, a) \/ (s \in Timed /\ FromRcvr(s, a) = ToKill(s, a))
  BY DEF FromRcvr
<1>4. \A m \in sent : /\ m.kind \in {"ctrl-reset", "reset", "kill", "cust"}
                      /\ m.kind = "reset" => m.to \in Timed
                      /\ m.kind \in {"kill", "cust"} => m = FromRcvr(s, a)
  <2> TAKE m \in sent
  <2>1. m \in { Reset(p) : p \in OffersOf(s) } \/ m = FromRcvr(s, a)
    OBVIOUS
  <2>2. CASE m = FromRcvr(s, a)
    BY <1>3, <2>2, Kinds
  <2>3. CASE \E p \in OffersOf(s) : m = Reset(p)
    <3>1. PICK p \in OffersOf(s) : m = Reset(p)
      BY <2>3
    <3>2. m = CtrlReset(p) \/ (p \in Timed /\ m = EventReset(p))
      BY <1>2, <3>1
    <3> QED BY <3>2, Kinds
  <2> QED BY <2>1, <2>2, <2>3
<1>5. \A p, b : AtRcvr(p, b)' <=> AtRcvr(p, b) /\ ~(p = o /\ b = a)
  BY <1>1, <1>4, Kinds DEF AtRcvr
<1>6. \A p \in Offer : Resetting(p)' => Resetting(p) \/ p \in Timed
  BY <1>1, <1>4, Kinds DEF Resetting
<1>7. \A m : m.kind \in {"sync", "ctrl", "port"} => (m \in net' <=> m \in net)
  BY <1>1, <1>4, Kinds
<1>8. SameSent /\ SameCtrl /\ SamePort
  BY <1>7, Kinds DEF SameSent, SameCtrl, SamePort, Sent, AtCtrl, Ported
<1>9. RcvrTakes(o, a)
  BY <1>5, <1>6, <1>8 DEF RcvrTakes, AtRcvr
<1>10. ASSUME NEW y, NEW b, AtKill(y, b)', ~AtKill(y, b)
       PROVE  s \in Timed /\ y = s /\ b = a /\ FromRcvr(s, a) \in sent
  <2>1. ToKill(y, b) \in sent /\ ToKill(y, b) = FromRcvr(s, a)
    BY <1>1, <1>4, <1>10, Kinds DEF AtKill
  <2> QED BY <1>3, <2>1, Kinds
<1>11. ASSUME NEW y, NEW b, AtCust(y, b)', ~AtCust(y, b)
       PROVE  y = s /\ b = a /\ FromRcvr(s, a) \in sent
  <2>1. ToCust(y, b) \in sent /\ ToCust(y, b) = FromRcvr(s, a)
    BY <1>1, <1>4, <1>11, Kinds DEF AtCust
  <2> QED BY <1>3, <2>1, Kinds
<1> QED BY <1>9, <1>10, <1>11

LEMMA ResetEventSends ==
  ASSUME NEW o \in Offer, ResetEvent(o)
  PROVE  /\ Resetting(o)
         /\ \A p : Resetting(p)' => Resetting(p)
         /\ \A y, b : AtKill(y, b)' => AtKill(y, b) \/ (kill[o] # "none" /\ y = o /\ b = Fail)
         /\ SameSent /\ SameCtrl /\ SamePort /\ SameRcvr /\ SameCust
<1> DEFINE sent == IF kill[o] = "none" THEN {} ELSE {ToKill(o, Fail)}
<1>1. EventReset(o) \in net /\ net' = (net \ {EventReset(o)}) \cup sent
  BY DEF ResetEvent, Replace
<1>2. \A m \in sent : m.kind = "kill" /\ m = ToKill(o, Fail) /\ kill[o] # "none"
  BY Kinds
<1> HIDE DEF sent
<1>3. \A p : Resetting(p)' => Resetting(p)
  BY <1>1, <1>2, Kinds DEF Resetting
<1>4. \A y, b : AtKill(y, b)' => AtKill(y, b) \/ (kill[o] # "none" /\ y = o /\ b = Fail)
  BY <1>1, <1>2, Kinds DEF AtKill
<1>5. \A m : m.kind \notin {"kill", "reset"} => (m \in net' <=> m \in net)
  BY <1>1, <1>2, Kinds
<1>6. SameSent /\ SameCtrl /\ SamePort /\ SameRcvr /\ SameCust
  BY <1>5, Kinds DEF SameSent, SameCtrl, SamePort, SameRcvr, SameCust,
                     Sent, AtCtrl, Ported, AtRcvr, AtCust
<1>7. Resetting(o)
  BY <1>1 DEF Resetting
<1> QED BY <1>3, <1>4, <1>6, <1>7

LEMMA ResetChanSends ==
  ASSUME NEW o \in Offer, ResetChan(o)
  PROVE  SameSent /\ SameCtrl /\ SamePort /\ SameKill /\ SameRcvr /\ SameCust /\ SameReset
<1>1. \A m : m.kind # "ctrl-reset" => (m \in net' <=> m \in net)
  BY Kinds DEF ResetChan, Replace
<1> QED
  BY <1>1, Kinds DEF SameSent, SameCtrl, SamePort, SameKill, SameRcvr, SameCust, SameReset,
                     Sent, AtCtrl, Ported, AtKill, AtRcvr, AtCust, Resetting

LEMMA TellSends ==
  ASSUME NEW s \in Sync, NEW a \in Answer, Tell(s, a)
  PROVE  /\ AtCust(s, a)
         /\ \A y, b : AtCust(y, b)' => AtCust(y, b)
         /\ SameSent /\ SameCtrl /\ SamePort /\ SameKill /\ SameRcvr /\ SameReset
<1>1. ToCust(s, a) \in net /\ net' = net \ {ToCust(s, a)}
  BY DEF Tell, Replace
<1>2. \A m : m.kind # "cust" => (m \in net' <=> m \in net)
  BY <1>1, Kinds
<1> QED
  BY <1>1, <1>2, Kinds
     DEF SameSent, SameCtrl, SamePort, SameKill, SameRcvr, SameReset, AtCust,
         Sent, AtCtrl, Ported, AtKill, AtRcvr, Resetting

-----------------------------------------------------------------------------
(* The lines at the ports.                                                 *)

LEMMA Longer ==
  ASSUME NEW seq \in Seq(Offer), NEW o \in Offer
  PROVE  /\ Append(seq, o) \in Seq(Offer) /\ Append(seq, o) # <<>>
         /\ \A p : In(p, Append(seq, o)) <=> In(p, seq) \/ p = o
         /\ Distinct(seq) /\ ~In(o, seq) => Distinct(Append(seq, o))
         /\ Head(Append(seq, o)) = IF seq = <<>> THEN o ELSE Head(seq)
<1> DEFINE more == Append(seq, o)
<1>1. PICK n \in Nat : n = Len(seq)
  OBVIOUS
<1>2. /\ DOMAIN seq = 1..n /\ DOMAIN more = 1..(n + 1) /\ more[n + 1] = o
      /\ \A i \in 1..n : more[i] = seq[i]
      /\ more \in Seq(Offer) /\ more # <<>> /\ Head(more) = more[1]
  <2>1. DOMAIN seq = 1..n /\ more \in Seq(Offer) /\ Len(more) = n + 1
    BY <1>1
  <2>2. more[n + 1] = o /\ \A i \in 1..n : more[i] = seq[i]
    BY <1>1
  <2>3. DOMAIN more = 1..(n + 1)
    BY <2>1
  <2> HIDE DEF more
  <2>4. more # <<>> /\ Head(more) = more[1]
    BY <2>1
  <2> QED BY <2>1, <2>2, <2>3, <2>4
<1>3. seq # <<>> => n >= 1 /\ Head(seq) = seq[1]
  BY <1>1
<1>4. seq = <<>> => n = 0
  BY <1>1
<1> HIDE DEF more
<1>5. \A i : i \in 1..(n + 1) <=> i \in 1..n \/ i = n + 1
  OBVIOUS
<1>6. \A p : In(p, more) <=> In(p, seq) \/ p = o
  BY <1>2, <1>5 DEF In
<1>7. Distinct(seq) /\ ~In(o, seq) => Distinct(more)
  BY <1>2, <1>5 DEF In, Distinct
<1>8. Head(more) = IF seq = <<>> THEN o ELSE Head(seq)
  <2>1. CASE seq = <<>>
    BY <1>2, <1>4, <2>1
  <2>2. CASE seq # <<>>
    <3>1. 1 \in 1..n
      BY <1>3, <2>2
    <3> QED BY <1>2, <1>3, <2>2, <3>1
  <2> QED BY <2>1, <2>2
<1> QED BY <1>2, <1>6, <1>7, <1>8 DEF more

LEMMA Shorter ==
  ASSUME NEW seq \in Seq(Offer), seq # <<>>, Distinct(seq)
  PROVE  /\ Tail(seq) \in Seq(Offer) /\ Distinct(Tail(seq)) /\ In(Head(seq), seq)
         /\ \A p : In(p, Tail(seq)) <=> In(p, seq) /\ p # Head(seq)
         /\ Tail(seq) # <<>> => Head(Tail(seq)) \in Offer /\ In(Head(Tail(seq)), Tail(seq))
<1> DEFINE less == Tail(seq)
<1>1. PICK n \in Nat : n = Len(seq) /\ n >= 1
  OBVIOUS
<1>2. /\ DOMAIN seq = 1..n /\ DOMAIN less = 1..(n - 1)
      /\ \A i \in 1..(n - 1) : less[i] = seq[i + 1]
      /\ less \in Seq(Offer) /\ Head(seq) = seq[1]
  BY <1>1
<1>3. less # <<>> => 1 \in 1..(n - 1) /\ Head(less) = less[1] /\ Head(less) \in Offer
  BY <1>1
<1> HIDE DEF less
<1>4. In(Head(seq), seq)
  BY <1>1, <1>2 DEF In
<1>5. less # <<>> => In(Head(less), less)
  BY <1>2, <1>3 DEF In
<1>6. \A i, j \in 1..n : seq[i] = seq[j] => i = j
  BY <1>2 DEF Distinct
<1>7. Distinct(less)
  <2> SUFFICES ASSUME NEW i \in 1..(n - 1), NEW j \in 1..(n - 1), less[i] = less[j]
               PROVE  i = j
    BY <1>2 DEF Distinct
  <2>1. i + 1 \in 1..n /\ j + 1 \in 1..n /\ seq[i + 1] = seq[j + 1]
    BY <1>2
  <2>2. i + 1 = j + 1
    BY <1>6, <2>1
  <2> QED BY <2>2
<1>8. ASSUME NEW p PROVE In(p, less) <=> In(p, seq) /\ p # Head(seq)
  <2>1. ASSUME In(p, less) PROVE In(p, seq) /\ p # Head(seq)
    <3>1. PICK i \in 1..(n - 1) : less[i] = p
      BY <1>2, <2>1 DEF In
    <3>2. i + 1 \in 1..n /\ 1 \in 1..n /\ i + 1 # 1 /\ seq[i + 1] = p
      BY <1>1, <1>2, <3>1
    <3>3. seq[i + 1] # seq[1]
      BY <1>6, <3>2
    <3> QED BY <1>2, <3>2, <3>3 DEF In
  <2>2. ASSUME In(p, seq), p # Head(seq) PROVE In(p, less)
    <3>1. PICK i \in 1..n : seq[i] = p
      BY <1>2, <2>2 DEF In
    <3>2. i # 1
      BY <1>2, <2>2, <3>1
    <3>3. i - 1 \in 1..(n - 1) /\ (i - 1) + 1 = i
      BY <3>2
    <3>4. less[i - 1] = p
      BY <1>2, <3>1, <3>3
    <3> QED BY <1>2, <3>3, <3>4 DEF In
  <2> QED BY <2>1, <2>2
<1> QED BY <1>2, <1>3, <1>4, <1>5, <1>7, <1>8 DEF less

(* Where the offers are.                                                   *)
LEMMA Ports ==
  ASSUME NEW o \in Offer
  PROVE  ChanOf[o] \in Chan /\ SideOf(o) \in Side /\ o # NoOffer /\ Owner[o] \in Sync
BY OfferAssumption DEF SideOf, Side

LEMMA Lines ==
  ASSUME Types, LineUp, NEW o \in Offer
  PROVE  /\ Line(o) \in Seq(Offer) /\ Distinct(Line(o))
         /\ Waiting(o) <=> In(o, Line(o))
         /\ InFront(o) => Waiting(o)
<1>1. Line(o) \in Seq(Offer) /\ Distinct(Line(o))
  BY Ports DEF Types, LineUp, Line
<1>2. Waiting(o) <=> In(o, Line(o))
  BY DEF Waiting, In, Line
<1>3. InFront(o) => In(o, Line(o))
  BY <1>1, Shorter DEF InFront
<1> QED BY <1>1, <1>2, <1>3

(* Offers at one port are in one line.                                     *)
SamePlace(p, o) == ChanOf[p] = ChanOf[o] /\ SideOf(p) = SideOf(o)

LEMMA OneLine ==
  ASSUME Types, NEW o \in Offer, NEW seq,
         line' = [line EXCEPT ![ChanOf[o]][SideOf(o)] = seq]
  PROVE  \A p \in Offer : Line(p)' = IF SamePlace(p, o) THEN seq ELSE Line(p)
<1> TAKE p \in Offer
<1>1. /\ ChanOf[o] \in Chan /\ SideOf(o) \in Side /\ ChanOf[p] \in Chan /\ SideOf(p) \in Side
      /\ line \in [Chan -> [Side -> Seq(Offer)]]
  BY Ports DEF Types
<1>2. Line(p)' = line'[ChanOf[p]][SideOf(p)]
  BY DEF Line
<1> QED BY <1>1, <1>2 DEF Line, SamePlace

LEMMA JoinsLine ==
  ASSUME Types, LineUp, NEW o \in Offer, ~Waiting(o), Sync1(o)
  PROVE  /\ line' \in [Chan -> [Side -> Seq(Offer)]]
         /\ \A p \in Offer : Waiting(p)' <=> Waiting(p) \/ p = o
         /\ \A p \in Offer : InFront(p)' <=> InFront(p) \/ (p = o /\ Line(o) = <<>>)
         /\ LineUp'
<1> DEFINE seq == Append(Line(o), o)
<1>1. /\ line' = [line EXCEPT ![ChanOf[o]][SideOf(o)] = seq]
      /\ ctrl' = ctrl
  BY DEF Sync1, Line
<1>2. /\ seq \in Seq(Offer) /\ seq # <<>> /\ Distinct(seq)
      /\ \A p : In(p, seq) <=> In(p, Line(o)) \/ p = o
      /\ Head(seq) = IF Line(o) = <<>> THEN o ELSE Head(Line(o))
  BY Lines, Longer
<1> HIDE DEF seq
<1>3. \A p \in Offer : Line(p)' = IF SamePlace(p, o) THEN seq ELSE Line(p)
  BY <1>1, OneLine
<1>4. \A p \in Offer : SamePlace(p, o) => Line(p) = Line(o)
  BY DEF SamePlace, Line
<1>5. line' \in [Chan -> [Side -> Seq(Offer)]]
  BY <1>1, <1>2, Ports DEF Types
<1>6. ASSUME NEW p \in Offer PROVE Waiting(p)' <=> Waiting(p) \/ p = o
  <2>1. Waiting(p)' <=> In(p, Line(p)')
    BY DEF Waiting, In, Line
  <2>2. Waiting(p) <=> In(p, Line(p))
    BY Lines
  <2>3. SamePlace(o, o)
    BY DEF SamePlace
  <2> QED BY <1>2, <1>3, <1>4, <2>1, <2>2, <2>3
<1>7. ASSUME NEW p \in Offer
      PROVE  InFront(p)' <=> InFront(p) \/ (p = o /\ Line(o) = <<>>)
  <2>1. InFront(p)' <=> Line(p)' # <<>> /\ Head(Line(p)') = p
    BY DEF InFront
  <2>2. SamePlace(o, o)
    BY DEF SamePlace
  <2> QED BY <1>2, <1>3, <1>4, <2>1, <2>2 DEF InFront
<1>8. LineUp'
  <2>1. ASSUME NEW c \in Chan, NEW d \in Side
        PROVE  /\ \A p \in Offer : In(p, line'[c][d]) => ChanOf[p] = c /\ SideOf(p) = d
               /\ Distinct(line'[c][d])
    <3>1. line'[c][d] = IF c = ChanOf[o] /\ d = SideOf(o) THEN seq ELSE line[c][d]
      BY <1>1, Ports DEF Types
    <3>2. Line(o) = line[ChanOf[o]][SideOf(o)]
      BY DEF Line
    <3> QED BY <1>2, <3>1, <3>2, Ports DEF LineUp
  <2>2. \A c \in Chan : ctrl'[c] # NoOffer => ChanOf[ctrl'[c]] = c
    BY <1>1 DEF LineUp
  <2> QED BY <2>1, <2>2 DEF LineUp, In, Distinct
<1> QED BY <1>5, <1>6, <1>7, <1>8

LEMMA LeavesLine ==
  ASSUME Types, LineUp, NEW o \in Offer, InFront(o), NEW a, Port(o, a)
  PROVE  /\ line' \in [Chan -> [Side -> Seq(Offer)]]
         /\ \A p \in Offer : Waiting(p)' <=> Waiting(p) /\ p # o
         /\ \A p \in Offer : InFront(p)' <=> (InFront(p) /\ p # o) \/ IsNext(p, o)
         /\ \A p \in Offer : IsNext(p, o) => Waiting(p) /\ p # o /\ ~InFront(p)
         /\ LineUp'
<1> DEFINE seq == Tail(Line(o))
<1>1. /\ line' = [line EXCEPT ![ChanOf[o]][SideOf(o)] = seq]
      /\ ctrl' = ctrl
  BY DEF Port, Line
<1>2. Line(o) # <<>> /\ Head(Line(o)) = o
  BY DEF InFront
<1>3. /\ seq \in Seq(Offer) /\ Distinct(seq)
      /\ \A p : In(p, seq) <=> In(p, Line(o)) /\ p # o
      /\ seq # <<>> => Head(seq) \in Offer /\ In(Head(seq), seq)
      /\ \A p : IsNext(p, o) <=> seq # <<>> /\ p = Head(seq)
  BY <1>2, Lines, Shorter DEF IsNext
<1> HIDE DEF seq
<1>4. \A p \in Offer : Line(p)' = IF SamePlace(p, o) THEN seq ELSE Line(p)
  BY <1>1, OneLine
<1>5. \A p \in Offer : /\ SamePlace(p, o) => Line(p) = Line(o)
                       /\ In(p, Line(o)) => SamePlace(p, o)
  BY Ports DEF SamePlace, Line, LineUp
<1>6. line' \in [Chan -> [Side -> Seq(Offer)]]
  BY <1>1, <1>3, Ports DEF Types
<1>7. ASSUME NEW p \in Offer PROVE Waiting(p)' <=> Waiting(p) /\ p # o
  <2>1. Waiting(p)' <=> In(p, Line(p)')
    BY DEF Waiting, In, Line
  <2>2. Waiting(p) <=> In(p, Line(p))
    BY Lines
  <2>3. SamePlace(o, o)
    BY DEF SamePlace
  <2> QED BY <1>3, <1>4, <1>5, <2>1, <2>2, <2>3
<1>8. ASSUME NEW p \in Offer, IsNext(p, o)
      PROVE  Waiting(p) /\ p # o /\ ~InFront(p) /\ SamePlace(p, o)
  <2>1. In(p, Line(o)) /\ p # o
    BY <1>3, <1>8
  <2>2. Line(p) = Line(o) /\ SamePlace(p, o)
    BY <1>5, <2>1
  <2> QED BY <1>2, <2>1, <2>2, Lines DEF InFront
<1>9. ASSUME NEW p \in Offer
      PROVE  InFront(p)' <=> (InFront(p) /\ p # o) \/ IsNext(p, o)
  <2>1. InFront(p)' <=> Line(p)' # <<>> /\ Head(Line(p)') = p
    BY DEF InFront
  <2>2. CASE SamePlace(p, o)
    <3>1. Line(p)' = seq /\ Line(p) = Line(o)
      BY <1>4, <1>5, <2>2
    <3> QED BY <1>2, <1>3, <2>1, <3>1 DEF InFront
  <2>3. CASE ~SamePlace(p, o)
    <3>1. Line(p)' = Line(p) /\ ~IsNext(p, o) /\ p # o
      BY <1>4, <1>8, <2>3 DEF SamePlace
    <3> QED BY <2>1, <3>1 DEF InFront
  <2> QED BY <2>2, <2>3
<1>10. LineUp'
  <2>1. ASSUME NEW c \in Chan, NEW d \in Side
        PROVE  /\ \A p \in Offer : In(p, line'[c][d]) => ChanOf[p] = c /\ SideOf(p) = d
               /\ Distinct(line'[c][d])
    <3>1. line'[c][d] = IF c = ChanOf[o] /\ d = SideOf(o) THEN seq ELSE line[c][d]
      BY <1>1, Ports DEF Types
    <3>2. Line(o) = line[ChanOf[o]][SideOf(o)]
      BY DEF Line
    <3> QED BY <1>3, <3>1, <3>2, Ports DEF LineUp
  <2>2. \A c \in Chan : ctrl'[c] # NoOffer => ChanOf[ctrl'[c]] = c
    BY <1>1 DEF LineUp
  <2> QED BY <2>1, <2>2 DEF LineUp, In, Distinct
<1> QED BY <1>6, <1>7, <1>8, <1>9, <1>10

-----------------------------------------------------------------------------
(* The invariant, one part at a time.                                      *)

(* What a step leaves alone of the ways of the offers.                     *)
SameWays ==
  /\ SameSent /\ SameCtrl /\ SamePort /\ UNCHANGED <<line, ctrl, met>>
  /\ \A o \in Offer : Begun(o)' <=> Begun(o)

LEMMA SameLines ==
  ASSUME UNCHANGED line
  PROVE  \A o : (Waiting(o)' <=> Waiting(o)) /\ (InFront(o)' <=> InFront(o))
BY DEF Waiting, InFront, Line

LEMMA SameOffers ==
  ASSUME SameWays
  PROVE  /\ \A o \in Offer : /\ Sent(o)' <=> Sent(o)
                             /\ Begun(o)' <=> Begun(o)
                             /\ Waiting(o)' <=> Waiting(o)
                             /\ Place(o) => Place(o)'
         /\ LineUp => LineUp'
<1>1. \A o : /\ Sent(o)' <=> Sent(o)
             /\ AtCtrl(o)' <=> AtCtrl(o)
             /\ Held(o)' <=> Held(o)
             /\ Met(o)' <=> Met(o)
             /\ \A a : Ported(o, a)' <=> Ported(o, a)
  BY DEF SameWays, SameSent, SameCtrl, SamePort, Held, Met
<1>2. \A o : (Waiting(o)' <=> Waiting(o)) /\ (InFront(o)' <=> InFront(o))
  BY SameLines DEF SameWays
<1>3. \A o \in Offer : Begun(o)' <=> Begun(o)
  BY DEF SameWays
<1>4. \A o \in Offer : Place(o) => Place(o)'
  BY <1>1, <1>2, <1>3 DEF Place
<1>5. LineUp => LineUp'
  BY DEF SameWays, LineUp
<1> QED BY <1>1, <1>2, <1>3, <1>4, <1>5

(* The answers about offers do not change when no offers meet.             *)
LEMMA SameAnswers ==
  ASSUME UNCHANGED met
  PROVE  \A x, a : /\ OfferTold(x, a)' <=> OfferTold(x, a)
                   /\ SyncTold(x, a)' <=> SyncTold(x, a)
                   /\ Answers(x, a)' <=> Answers(x, a)
BY DEF OfferTold, SyncTold, Answers, Limited, OffersOf

(* What is counted depends on the offers of a call of SYNC only.           *)
LEMMA SameCount ==
  ASSUME NEW s \in Sync, Count(s), rcvr'[s] = rcvr[s],
         \A o \in Offer : Owner[o] = s => (StillDue(o)' <=> StillDue(o))
  PROVE  Count(s)'
<1>1. Due(s)' = Due(s)
  BY DEF Due, OffersOf
<1> QED BY <1>1 DEF Count, OffersOf

LEMMA SameHeard ==
  ASSUME NEW o \in Offer, Heard(o), Gone(o) => Gone(o)', Begun(o) => Begun(o)',
         \A a \in Answer : AtRcvr(o, a)' => AtRcvr(o, a)
  PROVE  Heard(o)'
BY DEF Heard

(* An offer is gone from a port, or its KILL gate is shut.                 *)
LEMMA SameGone ==
  ASSUME NEW o \in Offer, o \in Timed => kill'[o] = kill[o],
         Sent(o)' <=> Sent(o), Begun(o)' <=> Begun(o), Waiting(o)' <=> Waiting(o)
  PROVE  Gone(o)' <=> Gone(o)
BY DEF Gone

(* A gate that exists goes on existing.                                    *)
LEMMA GateExists ==
  ASSUME IInv, NEW x \in Timed, kill[x] # "none" => kill'[x] # "none",
         x \in timer' => x \in timer \/ kill'[x] # "none",
         \A a \in Answer : AtKill(x, a)' => AtKill(x, a) \/ kill'[x] # "none"
  PROVE  x \in timer' \/ (\E a \in Answer : AtKill(x, a)') => kill'[x] # "none"
<1>1. x \in timer => kill[x] # "none"
  BY DEF IInv, Gates
<1>2. \A a \in Answer : AtKill(x, a) => kill[x] # "none"
  BY DEF IInv, Gates
<1> QED BY <1>1, <1>2

(* A step that moves no offer, no gate, and no answer but out of a gate.   *)
LEMMA SameAnswering ==
  ASSUME IInv, UNCHANGED <<kill, rcvr>>, timer' \subseteq timer, SameRcvr,
         \A x \in Timed, a \in Answer : AtKill(x, a)' => AtKill(x, a) \/ kill[x] # "none",
         \A o \in Offer : /\ Sent(o)' <=> Sent(o)
                          /\ Waiting(o)' <=> Waiting(o)
                          /\ Resetting(o)' => Resetting(o)
  PROVE  /\ Gates'
         /\ \A o \in Offer : Heard(o)'
         /\ \A s \in Sync : Count(s)'
<1>1. \A o : /\ Begun(o)' <=> Begun(o)
             /\ \A a : AtRcvr(o, a)' <=> AtRcvr(o, a)
  BY DEF SameRcvr, Begun
<1>2. ASSUME NEW o \in Offer PROVE Gone(o)' <=> Gone(o)
  BY <1>1, SameGone
<1>3. ASSUME NEW o \in Offer PROVE Heard(o)'
  BY <1>1, <1>2, SameHeard DEF IInv
<1>4. ASSUME NEW s \in Sync PROVE Count(s)'
  <2>1. \A o \in Offer : StillDue(o)' <=> StillDue(o)
    BY <1>1, <1>2 DEF StillDue
  <2> QED BY <2>1, SameCount DEF IInv
<1>5. Gates'
  <2>1. ASSUME NEW o \in Timed \cap Offer
        PROVE  /\ ~Begun(o)' \/ Sent(o)' => kill'[o] = "none"
               /\ Waiting(o)' => kill'[o] # "none"
    BY <1>1 DEF IInv, Gates
  <2>2. \A s \in Timed \cap Sync : rcvr'[s] # Unborn => kill'[s] # "none"
    BY DEF IInv, Gates
  <2>3. ASSUME NEW x \in Timed
        PROVE  x \in timer' \/ (\E a \in Answer : AtKill(x, a)') => kill'[x] # "none"
    <3>1. \A a \in Answer : AtKill(x, a)' => AtKill(x, a) \/ kill'[x] # "none"
      OBVIOUS
    <3>2. x \in timer' => x \in timer
      OBVIOUS
    <3> QED BY <3>1, <3>2, GateExists
  <2>4. \A o \in Offer : Resetting(o)' => o \in Timed
    BY DEF IInv, Gates
  <2> QED BY <2>1, <2>2, <2>3, <2>4 DEF Gates
<1> QED BY <1>3, <1>4, <1>5

(* A step that passes on what may be told.                                 *)
LEMMA SameTruth ==
  ASSUME IInv, UNCHANGED met, SamePort,
         \A o \in Offer, a \in Answer :
            /\ AtKill(o, a)' => AtKill(o, a) \/ OfferTold(o, a)
            /\ AtRcvr(o, a)' => AtRcvr(o, a) \/ OfferTold(o, a),
         \A s \in Sync, a \in Answer :
            /\ AtKill(s, a)' => AtKill(s, a) \/ SyncTold(s, a)
            /\ AtCust(s, a)' => AtCust(s, a) \/ SyncTold(s, a)
  PROVE  Truth'
<1>1. \A x, a : /\ OfferTold(x, a)' <=> OfferTold(x, a)
                /\ SyncTold(x, a)' <=> SyncTold(x, a)
                /\ Answers(x, a)' <=> Answers(x, a)
  BY SameAnswers
<1>2. \A o, a : Ported(o, a)' <=> Ported(o, a)
  BY DEF SamePort
<1>3. \A o \in Offer, a \in Answer :
        /\ Ported(o, a) => Answers(o, a)
        /\ AtKill(o, a) => OfferTold(o, a)
        /\ AtRcvr(o, a) => OfferTold(o, a)
  BY DEF IInv, Truth
<1>4. \A s \in Sync, a \in Answer : AtKill(s, a) \/ AtCust(s, a) => SyncTold(s, a)
  BY DEF IInv, Truth
<1> QED BY <1>1, <1>2, <1>3, <1>4 DEF Truth

LEMMA NoAnswerIsFailure ==
  ASSUME Types, NEW o, Answers(o, Fail)
  PROVE  FALSE
BY OfferAssumption DEF Types, Answers

LEMMA InitInvariant == Init => IInv
<1> SUFFICES ASSUME Init PROVE IInv
  OBVIOUS
<1>1. /\ \A o, a : /\ ~Sent(o) /\ ~AtCtrl(o) /\ ~Ported(o, a) /\ ~AtKill(o, a)
                   /\ ~AtRcvr(o, a) /\ ~AtCust(o, a) /\ ~Resetting(o)
  BY DEF Init, Sent, AtCtrl, Ported, AtKill, AtRcvr, AtCust, Resetting
<1>2. \A o \in Offer : ~Begun(o) /\ ~Waiting(o) /\ ~Held(o) /\ ~Met(o)
  BY Ports DEF Init, Begun, Waiting, Held, Met
<1>3. Types
  <2>1. /\ line \in [Chan -> [Side -> Seq(Offer)]] /\ ctrl \in [Chan -> Offer \cup {NoOffer}]
        /\ timer \subseteq Timed /\ met \subseteq Puts \X (Offer \ Puts)
    BY DEF Init
  <2>2. /\ kill \in [Timed -> {"none", "open", "shut"}]
        /\ rcvr \in [Sync -> Nat \cup {Unborn}]
        /\ told \in [Sync -> Seq(Answer)]
    BY DEF Init
  <2> QED BY <2>1, <2>2 DEF Types
<1>4. LineUp
  BY DEF Init, LineUp, In, Distinct
<1>5. \A o \in Offer : Place(o) /\ Heard(o)
  BY <1>1, <1>2 DEF Place, Heard
<1>6. Gates
  BY <1>1, <1>2 DEF Init, Gates
<1>7. Truth
  BY <1>1 DEF Truth
<1>8. \A s \in Sync : Count(s)
  BY DEF Init, Count
<1> QED BY <1>3, <1>4, <1>5, <1>6, <1>7, <1>8 DEF IInv

-----------------------------------------------------------------------------
(* Every action preserves the invariant.                                   *)

LEMMA StartKeeps ==
  ASSUME IInv, NEW s \in Sync, Start(s)
  PROVE  IInv'
<1>1. /\ rcvr[s] = Unborn /\ rcvr' = [rcvr EXCEPT ![s] = Cardinality(OffersOf(s))]
      /\ UNCHANGED <<line, ctrl, told, met>>
      /\ kill' = IF s \in Timed THEN [kill EXCEPT ![s] = "open"] ELSE kill
      /\ timer' = IF s \in Timed THEN timer \cup {s} ELSE timer
  BY DEF Start
<1>2. Cardinality(OffersOf(s)) \in Nat
  BY OfferAssumption, FS_Subset, FS_CardinalityType DEF OffersOf
<1>3. /\ rcvr'[s] = Cardinality(OffersOf(s)) /\ rcvr'[s] # Unborn
      /\ \A r \in Sync : r # s => rcvr'[r] = rcvr[r]
      /\ \A x \in Timed : kill'[x] = IF x = s THEN "open" ELSE kill[x]
  BY <1>1, <1>2 DEF IInv, Types, Unborn
<1>4. /\ \A o \in Offer : Sent(o)' <=> Sent(o) \/ Owner[o] = s
      /\ SameCtrl /\ SamePort /\ SameKill /\ SameRcvr /\ SameCust /\ SameReset
  BY StartSends
<1>5. ASSUME NEW o \in Offer
      PROVE  /\ Begun(o)' <=> Begun(o) \/ Owner[o] = s
             /\ Owner[o] = s => ~Begun(o)
             /\ o # s /\ Owner[o] \in Sync /\ Place(o) /\ Heard(o)
             /\ InFront(o) => Waiting(o)
  BY <1>1, <1>3, Ports, Lines, OfferAssumption DEF Begun, IInv
<1>6. ASSUME NEW o \in Offer, Owner[o] = s
      PROVE  /\ ~Begun(o) /\ Begun(o)' /\ ~Waiting(o) /\ ~Met(o) /\ ~InFront(o)
             /\ ~AtCtrl(o) /\ ~Held(o)
             /\ \A a \in Answer : ~Ported(o, a) /\ ~AtRcvr(o, a)
             /\ o \in Timed => kill[o] = "none"
  BY <1>5, <1>6 DEF Place, Heard, IInv, Gates
<1>7. \A o : /\ AtCtrl(o)' <=> AtCtrl(o)
             /\ Held(o)' <=> Held(o)
             /\ Met(o)' <=> Met(o)
             /\ Waiting(o)' <=> Waiting(o)
             /\ InFront(o)' <=> InFront(o)
             /\ Resetting(o)' <=> Resetting(o)
             /\ \A a : /\ Ported(o, a)' <=> Ported(o, a)
                       /\ AtKill(o, a)' <=> AtKill(o, a)
                       /\ AtRcvr(o, a)' <=> AtRcvr(o, a)
                       /\ AtCust(o, a)' <=> AtCust(o, a)
  BY <1>1, <1>4, SameLines
     DEF SameCtrl, SamePort, SameKill, SameRcvr, SameCust, SameReset, Held, Met
<1>8. Types'
  BY <1>1, <1>2 DEF IInv, Types
<1>9. LineUp'
  BY <1>1 DEF IInv, LineUp
<1>10. ASSUME NEW o \in Offer PROVE Place(o)'
  <2>1. CASE Owner[o] = s
    BY <1>6, <1>7, <2>1 DEF Place
  <2>2. CASE Owner[o] # s
    BY <1>4, <1>5, <1>7, <2>2 DEF Place
  <2> QED BY <2>1, <2>2
<1>11. ASSUME NEW o \in Offer, Owner[o] # s PROVE Gone(o)' <=> Gone(o)
  BY <1>3, <1>4, <1>5, <1>7, <1>11, SameGone
<1>12. ASSUME NEW o \in Offer, Owner[o] = s PROVE ~Gone(o)'
  <2>1. Sent(o)' /\ o # s
    BY <1>4, <1>5, <1>12
  <2>2. o \in Timed => kill'[o] = "none"
    BY <1>3, <1>6, <1>12, <2>1
  <2> QED BY <2>1, <2>2 DEF Gone
<1>13. ASSUME NEW o \in Offer PROVE Heard(o)'
  <2>1. CASE Owner[o] = s
    BY <1>6, <1>7, <2>1 DEF Heard
  <2>2. CASE Owner[o] # s
    BY <1>5, <1>7, <1>11, <2>2, SameHeard
  <2> QED BY <2>1, <2>2
<1>14. ASSUME NEW r \in Sync PROVE Count(r)'
  <2>1. CASE r = s
    <3>1. Due(r)' = OffersOf(r)
      BY <1>12, <2>1 DEF Due, StillDue, OffersOf
    <3> QED BY <1>3, <2>1, <3>1 DEF Count, OffersOf
  <2>2. CASE r # s
    <3>1. \A o \in Offer : Owner[o] = r => (StillDue(o)' <=> StillDue(o))
      BY <1>7, <1>11, <2>2 DEF StillDue
    <3> QED BY <1>3, <2>2, <3>1, SameCount DEF IInv
  <2> QED BY <2>1, <2>2
<1>15. Gates'
  <2>1. ASSUME NEW o \in Timed \cap Offer
        PROVE  /\ ~Begun(o)' \/ Sent(o)' => kill'[o] = "none"
               /\ Waiting(o)' => kill'[o] # "none"
    BY <1>3, <1>4, <1>5, <1>6, <1>7 DEF IInv, Gates
  <2>2. \A r \in Timed \cap Sync : rcvr'[r] # Unborn => kill'[r] # "none"
    BY <1>3 DEF IInv, Gates
  <2>3. ASSUME NEW x \in Timed
        PROVE  x \in timer' \/ (\E a \in Answer : AtKill(x, a)') => kill'[x] # "none"
    <3>1. kill[x] # "none" => kill'[x] # "none"
      BY <1>3
    <3>2. x \in timer' => x \in timer \/ kill'[x] # "none"
      BY <1>1, <1>3
    <3>3. \A a \in Answer : AtKill(x, a)' => AtKill(x, a)
      BY <1>7
    <3> QED BY <3>1, <3>2, <3>3, GateExists
  <2>4. \A o \in Offer : Resetting(o)' => o \in Timed
    BY <1>7 DEF IInv, Gates
  <2> QED BY <2>1, <2>2, <2>3, <2>4 DEF Gates
<1>16. Truth'
  BY <1>1, <1>7, SameAnswers DEF IInv, Truth
<1> QED BY <1>8, <1>9, <1>10, <1>13, <1>14, <1>15, <1>16 DEF IInv

LEMMA Sync1Keeps ==
  ASSUME IInv, NEW o \in Offer, Sync1(o)
  PROVE  IInv'
<1>1. /\ UNCHANGED <<ctrl, rcvr, told, met>>
      /\ kill' = IF o \in Timed THEN [kill EXCEPT ![o] = "open"] ELSE kill
      /\ timer' = IF o \in Timed THEN timer \cup {o} ELSE timer
  BY DEF Sync1
<1>2. /\ Sent(o)
      /\ \A p : Sent(p)' <=> Sent(p) /\ p # o
      /\ \A p : AtCtrl(p)' <=> AtCtrl(p) \/ (p = o /\ Line(o) = <<>>)
      /\ SamePort /\ SameKill /\ SameRcvr /\ SameCust /\ SameReset
  BY Sync1Sends
<1>3. \A p \in Offer : Place(p) /\ Heard(p) /\ (InFront(p) => Waiting(p))
  BY Lines DEF IInv
<1>4. /\ Begun(o) /\ ~Waiting(o) /\ ~Met(o) /\ ~InFront(o) /\ ~AtCtrl(o) /\ ~Held(o)
      /\ \A a \in Answer : ~Ported(o, a)
      /\ o \in Timed => kill[o] = "none"
  BY <1>2, <1>3 DEF Place, IInv, Gates
<1>5. /\ line' \in [Chan -> [Side -> Seq(Offer)]]
      /\ \A p \in Offer : Waiting(p)' <=> Waiting(p) \/ p = o
      /\ \A p \in Offer : InFront(p)' <=> InFront(p) \/ (p = o /\ Line(o) = <<>>)
      /\ LineUp'
  BY <1>4, JoinsLine DEF IInv
<1>6. \A x \in Timed : kill'[x] = IF x = o THEN "open" ELSE kill[x]
  BY <1>1 DEF IInv, Types
<1>7. \A p : /\ Begun(p)' <=> Begun(p)
             /\ Held(p)' <=> Held(p)
             /\ Met(p)' <=> Met(p)
             /\ Resetting(p)' <=> Resetting(p)
             /\ \A a : /\ Ported(p, a)' <=> Ported(p, a)
                       /\ AtKill(p, a)' <=> AtKill(p, a)
                       /\ AtRcvr(p, a)' <=> AtRcvr(p, a)
                       /\ AtCust(p, a)' <=> AtCust(p, a)
  BY <1>1, <1>2 DEF SamePort, SameKill, SameRcvr, SameCust, SameReset, Begun, Held, Met
<1>8. Types'
  BY <1>1, <1>5 DEF IInv, Types
<1>9. ASSUME NEW p \in Offer PROVE Place(p)'
  <2>1. CASE p = o
    BY <1>2, <1>4, <1>5, <1>7, <2>1 DEF Place
  <2>2. CASE p # o
    BY <1>2, <1>3, <1>5, <1>7, <2>2 DEF Place
  <2> QED BY <2>1, <2>2
<1>10. ~Gone(o) /\ ~Gone(o)'
  BY <1>2, <1>4, <1>5, <1>6 DEF Gone
<1>11. ASSUME NEW p \in Offer PROVE Gone(p)' <=> Gone(p)
  <2>1. CASE p # o
    BY <1>2, <1>5, <1>6, <1>7, <2>1, SameGone
  <2> QED BY <1>10, <2>1
<1>12. ASSUME NEW p \in Offer PROVE Heard(p)'
  BY <1>3, <1>7, <1>11, SameHeard
<1>13. ASSUME NEW r \in Sync PROVE Count(r)'
  <2>1. \A p \in Offer : StillDue(p)' <=> StillDue(p)
    BY <1>7, <1>11 DEF StillDue
  <2> QED BY <1>1, <2>1, SameCount DEF IInv
<1>14. Gates'
  <2>1. ASSUME NEW p \in Timed \cap Offer
        PROVE  /\ ~Begun(p)' \/ Sent(p)' => kill'[p] = "none"
               /\ Waiting(p)' => kill'[p] # "none"
    BY <1>2, <1>4, <1>5, <1>6, <1>7 DEF IInv, Gates
  <2>2. \A r \in Timed \cap Sync : rcvr'[r] # Unborn => kill'[r] # "none"
    BY <1>1, <1>6 DEF IInv, Gates
  <2>3. ASSUME NEW x \in Timed
        PROVE  x \in timer' \/ (\E a \in Answer : AtKill(x, a)') => kill'[x] # "none"
    <3>1. kill[x] # "none" => kill'[x] # "none"
      BY <1>6
    <3>2. x \in timer' => x \in timer \/ kill'[x] # "none"
      BY <1>1, <1>6
    <3>3. \A a \in Answer : AtKill(x, a)' => AtKill(x, a)
      BY <1>7
    <3> QED BY <3>1, <3>2, <3>3, GateExists
  <2>4. \A p \in Offer : Resetting(p)' => p \in Timed
    BY <1>7 DEF IInv, Gates
  <2> QED BY <2>1, <2>2, <2>3, <2>4 DEF Gates
<1>15. Truth'
  BY <1>1, <1>7, SameAnswers DEF IInv, Truth
<1> QED BY <1>5, <1>8, <1>9, <1>12, <1>13, <1>14, <1>15 DEF IInv

LEMMA WaitKeeps ==
  ASSUME IInv, NEW o \in Offer, Wait(o)
  PROVE  IInv'
<1>1. /\ UNCHANGED <<line, timer, kill, rcvr, told, met>>
      /\ ctrl[ChanOf[o]] = NoOffer /\ ctrl' = [ctrl EXCEPT ![ChanOf[o]] = o]
  BY DEF Wait
<1>2. /\ AtCtrl(o)
      /\ \A p : AtCtrl(p)' <=> AtCtrl(p) /\ p # o
      /\ SameSent /\ SamePort /\ SameKill /\ SameRcvr /\ SameCust /\ SameReset
  BY WaitSends
<1>3. ASSUME NEW p \in Offer PROVE Held(p)' <=> Held(p) \/ p = o
  <2>1. ctrl'[ChanOf[p]] = IF ChanOf[p] = ChanOf[o] THEN o ELSE ctrl[ChanOf[p]]
    BY <1>1, Ports DEF IInv, Types
  <2> QED BY <1>1, <2>1, Ports DEF Held
<1>4. \A p : /\ Sent(p)' <=> Sent(p)
             /\ Begun(p)' <=> Begun(p)
             /\ Met(p)' <=> Met(p)
             /\ Waiting(p)' <=> Waiting(p)
             /\ InFront(p)' <=> InFront(p)
             /\ \A a : Ported(p, a)' <=> Ported(p, a)
  BY <1>1, <1>2, SameLines DEF SameSent, SamePort, Begun, Met
<1>5. Types'
  <2>1. ctrl' \in [Chan -> Offer \cup {NoOffer}]
    BY <1>1 DEF IInv, Types
  <2> QED BY <1>1, <2>1 DEF IInv, Types
<1>6. LineUp'
  <2>1. \A c \in Chan : ctrl'[c] # NoOffer => ChanOf[ctrl'[c]] = c
    BY <1>1 DEF IInv, Types, LineUp
  <2> QED BY <1>1, <2>1 DEF IInv, LineUp, In, Distinct
<1>7. ASSUME NEW p \in Offer PROVE Place(p)'
  <2>1. CASE p = o
    BY <1>2, <1>3, <1>4, <2>1 DEF IInv, Place
  <2>2. CASE p # o
    BY <1>2, <1>3, <1>4, <2>2 DEF IInv, Place
  <2> QED BY <2>1, <2>2
<1>8. Gates' /\ (\A p \in Offer : Heard(p)') /\ (\A s \in Sync : Count(s)')
  <2>1. /\ \A x, a : AtKill(x, a)' => AtKill(x, a)
        /\ \A p : Resetting(p)' => Resetting(p)
    BY <1>2 DEF SameKill, SameReset
  <2> QED BY <1>1, <1>2, <1>4, <2>1, SameAnswering
<1>9. Truth'
  <2>1. \A x, a : /\ AtKill(x, a)' => AtKill(x, a)
                  /\ AtRcvr(x, a)' => AtRcvr(x, a)
                  /\ AtCust(x, a)' => AtCust(x, a)
    BY <1>2 DEF SameKill, SameRcvr, SameCust
  <2> QED BY <1>1, <1>2, <2>1, SameTruth
<1> QED BY <1>5, <1>6, <1>7, <1>8, <1>9 DEF IInv

(* The two that meet are at one channel, the one there and the other held. *)
LEMMA MeetPair ==
  ASSUME IInv, NEW o \in Offer, Meet(o)
  PROVE  \E p \in Puts, g \in Offer \ Puts :
            /\ PairOf(o, ctrl[ChanOf[o]]) = <<p, g>>
            /\ ChanOf[p] = ChanOf[g] /\ p # g
            /\ \A q \in {p, g} : q \in Offer /\ IF q = o THEN AtCtrl(q) ELSE Held(q)
            /\ \A q \in Offer : Held(q)' <=> Held(q) /\ q # p /\ q # g
            /\ o \in {p, g}
            /\ met' = met \cup {<<p, g>>}
<1> DEFINE w == ctrl[ChanOf[o]]
<1>1. /\ AtCtrl(o) /\ w # NoOffer /\ SideOf(w) # SideOf(o)
      /\ ctrl' = [ctrl EXCEPT ![ChanOf[o]] = NoOffer]
      /\ met' = met \cup {PairOf(o, w)}
  BY DEF Meet, AtCtrl
<1>2. w \in Offer /\ ChanOf[w] = ChanOf[o] /\ Held(w) /\ w # o
  BY <1>1, Ports DEF IInv, Types, LineUp, Held
<1>3. ASSUME NEW q \in Offer PROVE Held(q)' <=> Held(q) /\ q # w /\ q # o
  <2>1. ctrl'[ChanOf[q]] = IF ChanOf[q] = ChanOf[o] THEN NoOffer ELSE ctrl[ChanOf[q]]
    BY <1>1, Ports DEF IInv, Types
  <2> QED BY <1>1, <1>2, <2>1, Ports DEF Held
<1>4. CASE o \in Puts
  <2>1. w \notin Puts /\ PairOf(o, w) = <<o, w>>
    BY <1>1, <1>4 DEF SideOf, PairOf
  <2> HIDE DEF w
  <2>2. /\ o \in Puts /\ w \in Offer \ Puts /\ ChanOf[o] = ChanOf[w] /\ o # w
        /\ \A q \in {o, w} : q \in Offer /\ IF q = o THEN AtCtrl(q) ELSE Held(q)
        /\ met' = met \cup {<<o, w>>}
    BY <1>1, <1>2, <1>4, <2>1
  <2> QED BY <1>3, <2>1, <2>2 DEF w
<1>5. CASE o \notin Puts
  <2>1. w \in Puts /\ PairOf(o, w) = <<w, o>>
    BY <1>1, <1>5 DEF SideOf, PairOf
  <2> HIDE DEF w
  <2>2. /\ w \in Puts /\ o \in Offer \ Puts /\ ChanOf[w] = ChanOf[o] /\ o # w
        /\ \A q \in {o, w} : q \in Offer /\ IF q = o THEN AtCtrl(q) ELSE Held(q)
        /\ met' = met \cup {<<w, o>>}
    BY <1>1, <1>2, <1>5, <2>1
  <2> QED BY <1>3, <2>1, <2>2 DEF w
<1> QED BY <1>4, <1>5

LEMMA MeetKeeps ==
  ASSUME IInv, NEW o \in Offer, Meet(o)
  PROVE  IInv'
<1>1. PICK p \in Puts, g \in Offer \ Puts :
        /\ PairOf(o, ctrl[ChanOf[o]]) = <<p, g>> /\ p # g /\ o \in {p, g}
        /\ \A q \in {p, g} : q \in Offer /\ IF q = o THEN AtCtrl(q) ELSE Held(q)
        /\ \A q \in Offer : Held(q)' <=> Held(q) /\ q # p /\ q # g
        /\ met' = met \cup {<<p, g>>}
  BY MeetPair
<1>2. /\ UNCHANGED <<line, timer, kill, rcvr, told>>
      /\ ctrl' = [ctrl EXCEPT ![ChanOf[o]] = NoOffer]
  BY DEF Meet
<1>3. /\ AtCtrl(o)
      /\ \A q : AtCtrl(q)' <=> AtCtrl(q) /\ q # o
      /\ \A q, a : Ported(q, a)' <=> \/ Ported(q, a)
                                     \/ q = p /\ a = Ok
                                     \/ q = g /\ a = p
      /\ SameSent /\ SameKill /\ SameRcvr /\ SameCust /\ SameReset
  BY <1>1, MeetSends
<1>4. \A q : /\ Sent(q)' <=> Sent(q)
             /\ Begun(q)' <=> Begun(q)
             /\ Waiting(q)' <=> Waiting(q)
             /\ InFront(q)' <=> InFront(q)
             /\ Met(q)' <=> Met(q) \/ q = p \/ q = g
  <2>1. \A q : Met(q)' <=> Met(q) \/ q = p \/ q = g
    BY <1>1 DEF Met
  <2> QED BY <1>2, <1>3, <2>1, SameLines DEF SameSent, Begun
<1>5. Types'
  <2>1. ctrl' \in [Chan -> Offer \cup {NoOffer}]
    BY <1>2 DEF IInv, Types
  <2>2. met' \subseteq Puts \X (Offer \ Puts)
    BY <1>1 DEF IInv, Types
  <2> QED BY <1>2, <2>1, <2>2 DEF IInv, Types
<1>6. LineUp'
  <2>1. \A c \in Chan : ctrl'[c] # NoOffer => ChanOf[ctrl'[c]] = c
    BY <1>2 DEF IInv, Types, LineUp
  <2> QED BY <1>2, <2>1 DEF IInv, LineUp, In, Distinct
<1>7. ASSUME NEW q \in Offer PROVE Place(q)'
  <2>1. Place(q) /\ (InFront(q) => Waiting(q))
    BY Lines DEF IInv
  <2>2. CASE q \in {p, g}
    <3>1. PICK b \in Answer : b = IF q = p THEN Ok ELSE p
      BY DEF Answer
    <3>2. AtCtrl(q) \/ Held(q)
      BY <1>1, <2>2
    <3>3. InFront(q) /\ ~(AtCtrl(q) /\ Held(q)) /\ \A a \in Answer : ~Ported(q, a)
      BY <2>1, <3>2 DEF Place
    <3>4. Waiting(q) /\ Begun(q) /\ ~Sent(q)
      BY <2>1, <3>3 DEF Place
    <3>5. \A a \in Answer : Ported(q, a)' <=> a = b
      BY <1>1, <1>3, <2>2, <3>1, <3>3
    <3>6. ~Held(q)'
      BY <1>1, <2>2
    <3>7. ~AtCtrl(q)'
      BY <1>1, <1>3, <2>2, <3>3
    <3> QED BY <1>4, <3>3, <3>4, <3>5, <3>6, <3>7 DEF Place
  <2>3. CASE q \notin {p, g}
    BY <1>1, <1>3, <1>4, <2>1, <2>3 DEF Place
  <2> QED BY <2>2, <2>3
<1>8. Gates' /\ (\A q \in Offer : Heard(q)') /\ (\A s \in Sync : Count(s)')
  <2>1. /\ \A x, a : AtKill(x, a)' => AtKill(x, a)
        /\ \A q : Resetting(q)' => Resetting(q)
    BY <1>3 DEF SameKill, SameReset
  <2> QED BY <1>2, <1>3, <1>4, <2>1, SameAnswering
<1>9. Truth'
  <2>1. \A q, a : Answers(q, a)' <=> \/ Answers(q, a)
                                     \/ q = p /\ a = Ok
                                     \/ q = g /\ a = p
    BY <1>1 DEF Answers
  <2>2. \A x, a : /\ OfferTold(x, a) => OfferTold(x, a)'
                  /\ SyncTold(x, a) => SyncTold(x, a)'
    BY <2>1 DEF OfferTold, SyncTold, Limited, OffersOf
  <2>3. \A x, a : /\ AtKill(x, a)' <=> AtKill(x, a)
                  /\ AtRcvr(x, a)' <=> AtRcvr(x, a)
                  /\ AtCust(x, a)' <=> AtCust(x, a)
    BY <1>3 DEF SameKill, SameRcvr, SameCust
  <2> QED BY <1>3, <2>1, <2>2, <2>3 DEF IInv, Truth
<1> QED BY <1>5, <1>6, <1>7, <1>8, <1>9 DEF IInv

LEMMA PortKeeps ==
  ASSUME IInv, NEW o \in Offer, NEW a \in Answer, Port(o, a)
  PROVE  IInv'
<1>1. UNCHANGED <<ctrl, timer, kill, rcvr, told, met>>
  BY DEF Port
<1>2. /\ Ported(o, a)
      /\ \A p, b : Ported(p, b)' <=> Ported(p, b) /\ ~(p = o /\ b = a)
      /\ \A p : AtCtrl(p)' <=> AtCtrl(p) \/ IsNext(p, o)
      /\ \A x, b : AtKill(x, b)' <=> AtKill(x, b) \/ (o \in Timed /\ x = o /\ b = a)
      /\ \A p, b : AtRcvr(p, b)' <=> AtRcvr(p, b) \/ (o \notin Timed /\ p = o /\ b = a)
      /\ SameSent /\ SameCust /\ SameReset
  BY PortSends
<1>3. \A p \in Offer : Place(p) /\ Heard(p) /\ (InFront(p) => Waiting(p))
  BY Lines DEF IInv
<1>4. /\ InFront(o) /\ Waiting(o) /\ Begun(o) /\ ~Sent(o) /\ ~AtCtrl(o) /\ ~Held(o)
      /\ \A b \in Answer : Ported(o, b) => b = a
      /\ Answers(o, a)
  BY <1>2, <1>3 DEF Place, IInv, Truth
<1>5. /\ line' \in [Chan -> [Side -> Seq(Offer)]]
      /\ \A p \in Offer : Waiting(p)' <=> Waiting(p) /\ p # o
      /\ \A p \in Offer : InFront(p)' <=> (InFront(p) /\ p # o) \/ IsNext(p, o)
      /\ \A p \in Offer : IsNext(p, o) => Waiting(p) /\ p # o /\ ~InFront(p)
      /\ LineUp'
  BY <1>4, LeavesLine DEF IInv
<1>6. \A p : /\ Sent(p)' <=> Sent(p)
             /\ Begun(p)' <=> Begun(p)
             /\ Held(p)' <=> Held(p)
             /\ Met(p)' <=> Met(p)
             /\ Resetting(p)' <=> Resetting(p)
             /\ \A b : AtCust(p, b)' <=> AtCust(p, b)
  BY <1>1, <1>2 DEF SameSent, SameCust, SameReset, Begun, Held, Met
<1>7. Types'
  BY <1>1, <1>5 DEF IInv, Types
<1>8. ASSUME NEW p \in Offer PROVE Place(p)'
  <2>1. CASE p = o
    BY <1>2, <1>3, <1>4, <1>5, <1>6, <2>1 DEF Place
  <2>2. CASE IsNext(p, o)
    <3>1. Waiting(p) /\ p # o /\ ~InFront(p)
      BY <1>5, <2>2
    <3>2. /\ ~AtCtrl(p) /\ ~Held(p) /\ Begun(p) /\ ~Sent(p) /\ ~Met(p)
          /\ \A b \in Answer : ~Ported(p, b)
      BY <1>3, <3>1 DEF Place
    <3> QED BY <1>2, <1>5, <1>6, <2>2, <3>1, <3>2 DEF Place
  <2>3. CASE p # o /\ ~IsNext(p, o)
    BY <1>2, <1>3, <1>5, <1>6, <2>3 DEF Place
  <2> QED BY <2>1, <2>2, <2>3
<1>9. o \notin Timed => ~Gone(o) /\ Gone(o)'
  BY <1>4, <1>5, <1>6 DEF Gone
<1>10. ASSUME NEW p \in Offer, p # o \/ o \in Timed PROVE Gone(p)' <=> Gone(p)
  BY <1>1, <1>5, <1>6, <1>10, SameGone DEF Gone
<1>11. ASSUME NEW p \in Offer PROVE Heard(p)'
  <2>1. CASE p # o \/ o \in Timed
    BY <1>2, <1>3, <1>6, <1>10, <2>1, SameHeard
  <2>2. CASE p = o /\ o \notin Timed
    <3>1. \A b \in Answer : AtRcvr(o, b)' <=> b = a
      BY <1>2, <1>3, <1>9, <2>2 DEF Heard
    <3> QED BY <1>4, <1>6, <1>9, <2>2, <3>1 DEF Heard
  <2> QED BY <2>1, <2>2
<1>12. ASSUME NEW s \in Sync PROVE Count(s)'
  <2>1. ASSUME NEW p \in Offer PROVE StillDue(p)' <=> StillDue(p)
    <3>1. CASE p # o \/ o \in Timed
      BY <1>2, <1>10, <3>1 DEF StillDue
    <3>2. CASE p = o /\ o \notin Timed
      BY <1>2, <1>9, <3>2 DEF StillDue
    <3> QED BY <3>1, <3>2
  <2> QED BY <1>1, <2>1, SameCount DEF IInv
<1>13. Gates'
  <2>1. ASSUME NEW p \in Timed \cap Offer
        PROVE  /\ ~Begun(p)' \/ Sent(p)' => kill'[p] = "none"
               /\ Waiting(p)' => kill'[p] # "none"
    BY <1>1, <1>5, <1>6 DEF IInv, Gates
  <2>2. \A r \in Timed \cap Sync : rcvr'[r] # Unborn => kill'[r] # "none"
    BY <1>1 DEF IInv, Gates
  <2>3. ASSUME NEW x \in Timed
        PROVE  x \in timer' \/ (\E b \in Answer : AtKill(x, b)') => kill'[x] # "none"
    <3>1. o \in Timed => kill'[o] # "none"
      BY <1>1, <1>4 DEF IInv, Gates
    <3>2. \A b \in Answer : AtKill(x, b)' => AtKill(x, b) \/ kill'[x] # "none"
      BY <1>2, <3>1
    <3> QED BY <1>1, <3>2, GateExists
  <2>4. \A p \in Offer : Resetting(p)' => p \in Timed
    BY <1>6 DEF IInv, Gates
  <2> QED BY <2>1, <2>2, <2>3, <2>4 DEF Gates
<1>14. Truth'
  <2>1. OfferTold(o, a)'
    BY <1>1, <1>4, SameAnswers DEF OfferTold
  <2>2. ASSUME NEW p \in Offer, NEW b \in Answer
        PROVE  /\ Ported(p, b)' => Answers(p, b)'
               /\ AtKill(p, b)' => OfferTold(p, b)'
               /\ AtRcvr(p, b)' => OfferTold(p, b)'
    BY <1>1, <1>2, <2>1, SameAnswers DEF IInv, Truth
  <2>3. ASSUME NEW s \in Sync, NEW b \in Answer
        PROVE  AtKill(s, b)' \/ AtCust(s, b)' => SyncTold(s, b)'
    BY <1>1, <1>2, <1>6, SameAnswers, OfferAssumption DEF IInv, Truth
  <2> QED BY <2>2, <2>3 DEF Truth
<1> QED BY <1>5, <1>7, <1>8, <1>11, <1>12, <1>13, <1>14 DEF IInv

(* A step that only passes answers on.                                     *)
LEMMA OnlyAnswers ==
  ASSUME IInv, SameSent, SameCtrl, SamePort, UNCHANGED <<line, ctrl, rcvr, met>>
  PROVE  /\ LineUp' /\ \A o \in Offer : Place(o)'
         /\ \A o \in Offer : /\ Sent(o)' <=> Sent(o)
                             /\ Begun(o)' <=> Begun(o)
                             /\ Waiting(o)' <=> Waiting(o)
<1>1. SameWays
  BY DEF SameWays, Begun
<1> QED BY <1>1, SameOffers DEF IInv

LEMMA ShutKillKeeps ==
  ASSUME IInv, NEW x \in Timed, NEW a \in Answer, Kill(x, a), kill[x] # "open"
  PROVE  IInv'
<1>1. /\ kill' = [kill EXCEPT ![x] = "shut"]
      /\ UNCHANGED <<line, ctrl, timer, rcvr, told, met>>
  BY DEF Kill
<1>2. /\ AtKill(x, a)
      /\ \A y, b : AtKill(y, b)' => AtKill(y, b)
      /\ SameSent /\ SameCtrl /\ SamePort /\ SameRcvr /\ SameCust /\ SameReset
  BY ShutKillSends
<1>3. kill' = kill
  <2>1. kill[x] # "none" /\ kill \in [Timed -> {"none", "open", "shut"}]
    BY <1>2 DEF IInv, Gates, Types
  <2>2. kill[x] = "shut"
    BY <2>1
  <2> QED BY <1>1, <2>1, <2>2
<1>4. /\ LineUp' /\ \A o \in Offer : Place(o)'
      /\ \A o \in Offer : (Sent(o)' <=> Sent(o)) /\ (Waiting(o)' <=> Waiting(o))
  BY <1>1, <1>2, OnlyAnswers
<1>5. Types'
  BY <1>1, <1>3 DEF IInv, Types
<1>6. Gates' /\ (\A o \in Offer : Heard(o)') /\ (\A s \in Sync : Count(s)')
  <2>1. \A o : Resetting(o)' => Resetting(o)
    BY <1>2 DEF SameReset
  <2> QED BY <1>1, <1>2, <1>3, <1>4, <2>1, SameAnswering
<1>7. Truth'
  <2>1. \A y, b : (AtRcvr(y, b)' => AtRcvr(y, b)) /\ (AtCust(y, b)' => AtCust(y, b))
    BY <1>2 DEF SameRcvr, SameCust
  <2> QED BY <1>1, <1>2, <2>1, SameTruth
<1> QED BY <1>4, <1>5, <1>6, <1>7 DEF IInv

LEMMA OpenKillKeeps ==
  ASSUME IInv, NEW x \in Timed, NEW a \in Answer, Kill(x, a), kill[x] = "open"
  PROVE  IInv'
<1>1. /\ kill' = [kill EXCEPT ![x] = "shut"]
      /\ UNCHANGED <<line, ctrl, timer, rcvr, told, met>>
  BY DEF Kill
<1>2. /\ AtKill(x, a)
      /\ \A y, b : AtKill(y, b)' <=> AtKill(y, b) /\ ~(y = x /\ b = a)
      /\ \A p, b : AtRcvr(p, b)' <=> AtRcvr(p, b) \/ (x \in Offer /\ p = x /\ b = a)
      /\ \A s, b : AtCust(s, b)' <=> AtCust(s, b) \/ (x \notin Offer /\ s = x /\ b = a)
      /\ \A p \in Offer : Resetting(p)' => Resetting(p) \/ p \in Timed
      /\ SameSent /\ SameCtrl /\ SamePort
  BY KillSends
<1>3. /\ LineUp' /\ \A o \in Offer : Place(o)'
      /\ \A o \in Offer : /\ Sent(o)' <=> Sent(o)
                          /\ Begun(o)' <=> Begun(o)
                          /\ Waiting(o)' <=> Waiting(o)
  BY <1>1, <1>2, OnlyAnswers
<1>4. \A y \in Timed : kill'[y] = IF y = x THEN "shut" ELSE kill[y]
  BY <1>1 DEF IInv, Types
<1>5. Types'
  BY <1>1 DEF IInv, Types
<1>6. x \in Offer => /\ Begun(x) /\ ~Sent(x) /\ ~Gone(x) /\ Gone(x)'
                     /\ \A b \in Answer : ~AtRcvr(x, b)
  <2>1. x \in Offer => Begun(x) /\ ~Sent(x)
    BY DEF IInv, Gates
  <2>2. x \in Offer => ~Gone(x) /\ Gone(x)'
    BY <1>4 DEF Gone
  <2> QED BY <2>1, <2>2 DEF IInv, Heard
<1>7. ASSUME NEW p \in Offer, p # x PROVE Gone(p)' <=> Gone(p)
  BY <1>3, <1>4, <1>7, SameGone
<1>8. ASSUME NEW p \in Offer PROVE Heard(p)'
  <2>1. CASE p = x
    <3>1. \A b \in Answer : AtRcvr(x, b)' <=> b = a
      BY <1>2, <1>6, <2>1
    <3> QED BY <1>3, <1>6, <2>1, <3>1 DEF Heard
  <2>2. CASE p # x
    BY <1>2, <1>3, <1>7, <2>2, SameHeard DEF IInv
  <2> QED BY <2>1, <2>2
<1>9. ASSUME NEW s \in Sync PROVE Count(s)'
  <2>1. ASSUME NEW p \in Offer PROVE StillDue(p)' <=> StillDue(p)
    <3>1. CASE p = x
      BY <1>2, <1>6, <3>1 DEF StillDue
    <3>2. CASE p # x
      BY <1>2, <1>7, <3>2 DEF StillDue
    <3> QED BY <3>1, <3>2
  <2> QED BY <1>1, <2>1, SameCount DEF IInv
<1>10. Gates'
  <2>1. ASSUME NEW p \in Timed \cap Offer
        PROVE  /\ ~Begun(p)' \/ Sent(p)' => kill'[p] = "none"
               /\ Waiting(p)' => kill'[p] # "none"
    <3>1. CASE p = x
      BY <1>3, <1>4, <1>6, <3>1
    <3>2. CASE p # x
      BY <1>3, <1>4, <3>2 DEF IInv, Gates
    <3> QED BY <3>1, <3>2
  <2>2. \A r \in Timed \cap Sync : rcvr'[r] # Unborn => kill'[r] # "none"
    BY <1>1, <1>4 DEF IInv, Gates
  <2>3. ASSUME NEW y \in Timed
        PROVE  y \in timer' \/ (\E b \in Answer : AtKill(y, b)') => kill'[y] # "none"
    BY <1>1, <1>2, <1>4, GateExists
  <2>4. \A p \in Offer : Resetting(p)' => p \in Timed
    BY <1>2 DEF IInv, Gates
  <2> QED BY <2>1, <2>2, <2>3, <2>4 DEF Gates
<1>11. Truth'
  <2>1. x \in Offer => OfferTold(x, a)
    BY <1>2 DEF IInv, Truth
  <2>2. x \notin Offer => x \in Sync /\ SyncTold(x, a)
    BY <1>2, OfferAssumption DEF IInv, Truth
  <2> QED BY <1>1, <1>2, <2>1, <2>2, SameTruth
<1> QED BY <1>3, <1>5, <1>8, <1>9, <1>10, <1>11 DEF IInv

LEMMA TimerKeeps ==
  ASSUME IInv, NEW x \in Offer \cup Sync, TimerFires(x)
  PROVE  IInv'
<1>1. x \in timer /\ timer' = timer \ {x} /\ UNCHANGED <<line, ctrl, kill, rcvr, told, met>>
  BY DEF TimerFires
<1>2. /\ \A y, b : AtKill(y, b)' <=> AtKill(y, b) \/ (y = x /\ b = Fail)
      /\ SameSent /\ SameCtrl /\ SamePort /\ SameRcvr /\ SameCust /\ SameReset
  BY TimerSends
<1>3. x \in Timed /\ kill[x] # "none"
  BY <1>1 DEF IInv, Types, Gates
<1>4. /\ LineUp' /\ \A o \in Offer : Place(o)'
      /\ \A o \in Offer : (Sent(o)' <=> Sent(o)) /\ (Waiting(o)' <=> Waiting(o))
  BY <1>1, <1>2, OnlyAnswers
<1>5. Types'
  BY <1>1 DEF IInv, Types
<1>6. Gates' /\ (\A o \in Offer : Heard(o)') /\ (\A s \in Sync : Count(s)')
  <2>1. \A o : Resetting(o)' => Resetting(o)
    BY <1>2 DEF SameReset
  <2>2. \A y \in Timed, b \in Answer : AtKill(y, b)' => AtKill(y, b) \/ kill[y] # "none"
    BY <1>2, <1>3
  <2> QED BY <1>1, <1>2, <1>4, <2>1, <2>2, SameAnswering
<1>7. Truth'
  <2>1. \A y, b : (AtRcvr(y, b)' => AtRcvr(y, b)) /\ (AtCust(y, b)' => AtCust(y, b))
    BY <1>2 DEF SameRcvr, SameCust
  <2>2. x \in Offer => OfferTold(x, Fail)
    BY <1>3 DEF OfferTold
  <2>3. x \in Sync => SyncTold(x, Fail)
    BY <1>3 DEF SyncTold, Limited
  <2> QED BY <1>1, <1>2, <2>1, <2>2, <2>3, SameTruth
<1> QED BY <1>4, <1>5, <1>6, <1>7 DEF IInv

LEMMA ResetEventKeeps ==
  ASSUME IInv, NEW o \in Offer, ResetEvent(o)
  PROVE  IInv'
<1>1. UNCHANGED <<line, ctrl, timer, kill, rcvr, told, met>>
  BY DEF ResetEvent
<1>2. /\ Resetting(o)
      /\ \A p : Resetting(p)' => Resetting(p)
      /\ \A y, b : AtKill(y, b)' => AtKill(y, b) \/ (kill[o] # "none" /\ y = o /\ b = Fail)
      /\ SameSent /\ SameCtrl /\ SamePort /\ SameRcvr /\ SameCust
  BY ResetEventSends
<1>3. /\ LineUp' /\ \A p \in Offer : Place(p)'
      /\ \A p \in Offer : (Sent(p)' <=> Sent(p)) /\ (Waiting(p)' <=> Waiting(p))
  BY <1>1, <1>2, OnlyAnswers
<1>4. Types'
  BY <1>1 DEF IInv, Types
<1>5. Gates' /\ (\A p \in Offer : Heard(p)') /\ (\A s \in Sync : Count(s)')
  BY <1>1, <1>2, <1>3, SameAnswering
<1>6. Truth'
  <2>1. \A y, b : (AtRcvr(y, b)' => AtRcvr(y, b)) /\ (AtCust(y, b)' => AtCust(y, b))
    BY <1>2 DEF SameRcvr, SameCust
  <2>2. OfferTold(o, Fail) /\ o \notin Sync
    BY <1>2, OfferAssumption DEF IInv, Gates, OfferTold
  <2> QED BY <1>1, <1>2, <2>1, <2>2, SameTruth
<1> QED BY <1>3, <1>4, <1>5, <1>6 DEF IInv

(* A step that neither sends answers nor changes a gate or a port.         *)
LEMMA NothingKeeps ==
  ASSUME IInv, UNCHANGED <<line, ctrl, timer, kill, rcvr, met>>, Types',
         SameSent, SameCtrl, SamePort, SameKill, SameRcvr, SameReset,
         \A y, b : AtCust(y, b)' => AtCust(y, b)
  PROVE  IInv'
<1>1. /\ LineUp' /\ \A p \in Offer : Place(p)'
      /\ \A p \in Offer : (Sent(p)' <=> Sent(p)) /\ (Waiting(p)' <=> Waiting(p))
  BY OnlyAnswers
<1>2. /\ \A y, b : AtKill(y, b)' => AtKill(y, b)
      /\ \A y, b : AtRcvr(y, b)' => AtRcvr(y, b)
      /\ \A p : Resetting(p)' => Resetting(p)
  BY DEF SameKill, SameRcvr, SameReset
<1>3. Gates' /\ (\A p \in Offer : Heard(p)') /\ (\A s \in Sync : Count(s)')
  BY <1>1, <1>2, SameAnswering
<1>4. Truth'
  BY <1>2, SameTruth
<1> QED BY <1>1, <1>3, <1>4 DEF IInv

LEMMA ResetChanKeeps ==
  ASSUME IInv, NEW o \in Offer, ResetChan(o)
  PROVE  IInv'
<1>1. UNCHANGED <<line, ctrl, timer, kill, rcvr, told, met>>
  BY DEF ResetChan
<1>2. Types'
  BY <1>1 DEF IInv, Types
<1> QED BY <1>1, <1>2, ResetChanSends, NothingKeeps DEF SameCust

LEMMA TellKeeps ==
  ASSUME IInv, NEW s \in Sync, NEW a \in Answer, Tell(s, a)
  PROVE  IInv'
<1>1. /\ told' = [told EXCEPT ![s] = IF told[s] = <<>> THEN <<a>> ELSE told[s]]
      /\ UNCHANGED <<line, ctrl, timer, kill, rcvr, met>>
  BY DEF Tell
<1>2. Types'
  <2>1. told \in [Sync -> Seq(Answer)] /\ <<a>> \in Seq(Answer)
    BY DEF IInv, Types
  <2>2. told' \in [Sync -> Seq(Answer)]
    BY <1>1, <2>1
  <2> QED BY <1>1, <2>2 DEF IInv, Types
<1> QED BY <1>1, <1>2, TellSends, NothingKeeps

LEMMA StutterKeeps ==
  ASSUME IInv, UNCHANGED vars
  PROVE  IInv'
<1>1. UNCHANGED <<net, line, ctrl, timer, kill, rcvr, told, met>>
  BY DEF vars
<1>2. Types'
  BY <1>1 DEF IInv, Types
<1>3. /\ SameSent /\ SameCtrl /\ SamePort /\ SameKill /\ SameRcvr /\ SameReset
      /\ \A y, b : AtCust(y, b)' => AtCust(y, b)
  BY <1>1 DEF SameSent, SameCtrl, SamePort, SameKill, SameRcvr, SameReset,
              Sent, AtCtrl, Ported, AtKill, AtRcvr, Resetting, AtCust
<1> QED BY <1>1, <1>2, <1>3, NothingKeeps

(* The RCVR may tell of a success, and of a failure when it is the last of *)
(* offers that all have a time limit.                                      *)
LEMMA MayTell ==
  ASSUME IInv, NEW o \in Offer, NEW a \in Answer, AtRcvr(o, a),
         rcvr[Owner[o]] > 0, a = Fail => rcvr[Owner[o]] = 1
  PROVE  SyncTold(Owner[o], a)
<1> DEFINE s == Owner[o]
<1>1. OfferTold(o, a) /\ s \in Sync /\ Count(s) /\ rcvr[s] \in Nat \cup {Unborn}
  BY Ports DEF IInv, Truth, Types
<1>2. CASE a # Fail
  <2>1. Answers(o, a)
    BY <1>1, <1>2 DEF OfferTold
  <2> QED BY <2>1 DEF SyncTold, OffersOf
<1>3. CASE a = Fail
  <2>1. o \in Timed
    BY <1>1, <1>3, NoAnswerIsFailure DEF OfferTold, IInv
  <2>2. o \in Due(s)
    BY DEF Due, StillDue, OffersOf
  <2>3. Cardinality(Due(s)) = 1 /\ OffersOf(s) \ Due(s) \subseteq Timed
    BY <1>1, <1>3 DEF Count, Unborn
  <2>4. IsFiniteSet(Due(s))
    BY OfferAssumption, FS_Subset DEF Due, OffersOf
  <2>5. PICK p : Due(s) = {p}
    BY <2>3, <2>4, FS_Singleton
  <2>6. Due(s) = {o}
    BY <2>2, <2>5
  <2>7. OffersOf(s) \subseteq Timed
    BY <2>1, <2>3, <2>6
  <2> QED BY <1>1, <1>3, <2>7 DEF SyncTold, Limited
<1> QED BY <1>2, <1>3

(* What the RCVR of a choice does with an answer.                          *)
RcvrPasses(s, a) ==
  /\ \A y, b : AtKill(y, b)' => AtKill(y, b) \/ (s \in Timed /\ y = s /\ b = a)
  /\ \A y, b : AtCust(y, b)' => AtCust(y, b) \/ (y = s /\ b = a)
RcvrKeepsQuiet ==
  /\ \A y, b : AtKill(y, b)' => AtKill(y, b)
  /\ \A y, b : AtCust(y, b)' => AtCust(y, b)

LEMMA RcvrCases ==
  ASSUME IInv, NEW o \in Offer, Rcvr(o)
  PROVE  \E a \in Answer :
           /\ UNCHANGED <<line, ctrl, timer, kill, told, met>> /\ RcvrTakes(o, a)
           /\ RcvrKeepsQuiet \/ (RcvrPasses(Owner[o], a) /\ SyncTold(Owner[o], a))
           /\ \/ rcvr[Owner[o]] = 0 /\ rcvr' = rcvr
              \/ rcvr[Owner[o]] > 0 /\ rcvr' = [rcvr EXCEPT ![Owner[o]] = 0]
              \/ /\ rcvr[Owner[o]] > 0 /\ a = Fail
                 /\ rcvr' = [rcvr EXCEPT ![Owner[o]] = rcvr[Owner[o]] - 1]
<1> DEFINE s == Owner[o]
<1>1. PICK a \in Answer :
        /\ ToRcvr(o, a) \in net
        /\ \/ rcvr[s] = 0 /\ Replace(ToRcvr(o, a), {}) /\ UNCHANGED rcvr
           \/ /\ rcvr[s] > 0 /\ a # Fail
              /\ rcvr' = [rcvr EXCEPT ![s] = 0]
              /\ Replace(ToRcvr(o, a), { Reset(p) : p \in OffersOf(s) } \cup {FromRcvr(s, a)})
           \/ /\ rcvr[s] > 0 /\ a = Fail
              /\ rcvr' = [rcvr EXCEPT ![s] = rcvr[s] - 1]
              /\ Replace(ToRcvr(o, a), IF rcvr[s] = 1 THEN {FromRcvr(s, Fail)} ELSE {})
        /\ UNCHANGED <<line, ctrl, timer, kill, told, met>>
  BY DEF Rcvr
<1>2. AtRcvr(o, a)
  BY <1>1 DEF AtRcvr
<1>3. ASSUME NEW sent, Replace(ToRcvr(o, a), sent),
             sent \subseteq { Reset(p) : p \in OffersOf(s) } \cup {FromRcvr(s, a)}
      PROVE  /\ RcvrTakes(o, a) /\ RcvrPasses(s, a)
             /\ FromRcvr(s, a) \notin sent => RcvrKeepsQuiet
  BY <1>1, <1>3, RcvrSends DEF RcvrPasses, RcvrKeepsQuiet
<1>4. CASE rcvr[s] = 0 /\ Replace(ToRcvr(o, a), {}) /\ UNCHANGED rcvr
  <2>1. RcvrTakes(o, a) /\ RcvrKeepsQuiet
    BY <1>3, <1>4
  <2> QED BY <1>1, <1>4, <2>1
<1>5. CASE /\ rcvr[s] > 0 /\ a # Fail
           /\ rcvr' = [rcvr EXCEPT ![s] = 0]
           /\ Replace(ToRcvr(o, a), { Reset(p) : p \in OffersOf(s) } \cup {FromRcvr(s, a)})
  <2>1. RcvrTakes(o, a) /\ RcvrPasses(s, a)
    BY <1>3, <1>5
  <2>2. SyncTold(s, a)
    BY <1>2, <1>5, MayTell
  <2> QED BY <1>1, <1>5, <2>1, <2>2
<1>6. CASE /\ rcvr[s] > 0 /\ a = Fail
           /\ rcvr' = [rcvr EXCEPT ![s] = rcvr[s] - 1]
           /\ Replace(ToRcvr(o, a), IF rcvr[s] = 1 THEN {FromRcvr(s, Fail)} ELSE {})
  <2>1. CASE rcvr[s] = 1
    <3>1. RcvrTakes(o, a) /\ RcvrPasses(s, a)
      BY <1>3, <1>6, <2>1
    <3>2. SyncTold(s, a)
      BY <1>2, <1>6, <2>1, MayTell
    <3> QED BY <1>1, <1>6, <3>1, <3>2
  <2>2. CASE rcvr[s] # 1
    <3>1. RcvrTakes(o, a) /\ RcvrKeepsQuiet
      BY <1>3, <1>6, <2>2
    <3> QED BY <1>1, <1>6, <3>1
  <2> QED BY <2>1, <2>2
<1> QED BY <1>1, <1>4, <1>5, <1>6

LEMMA RcvrKeeps ==
  ASSUME IInv, NEW o \in Offer, Rcvr(o)
  PROVE  IInv'
<1> DEFINE s == Owner[o]
<1>1. PICK a \in Answer :
        /\ UNCHANGED <<line, ctrl, timer, kill, told, met>> /\ RcvrTakes(o, a)
        /\ RcvrKeepsQuiet \/ (RcvrPasses(s, a) /\ SyncTold(s, a))
        /\ \/ rcvr[s] = 0 /\ rcvr' = rcvr
           \/ rcvr[s] > 0 /\ rcvr' = [rcvr EXCEPT ![s] = 0]
           \/ rcvr[s] > 0 /\ a = Fail /\ rcvr' = [rcvr EXCEPT ![s] = rcvr[s] - 1]
  BY RcvrCases
<1>2. /\ AtRcvr(o, a)
      /\ \A p, b : AtRcvr(p, b)' <=> AtRcvr(p, b) /\ ~(p = o /\ b = a)
      /\ \A p \in Offer : Resetting(p)' => Resetting(p) \/ p \in Timed
      /\ SameSent /\ SameCtrl /\ SamePort
  BY <1>1 DEF RcvrTakes
<1>3. /\ s \in Sync /\ s \notin Offer /\ rcvr \in [Sync -> Nat \cup {Unborn}]
      /\ rcvr[s] \in Nat
  <2>1. s \in Sync /\ s \notin Offer /\ rcvr \in [Sync -> Nat \cup {Unborn}]
    BY Ports, OfferAssumption DEF IInv, Types
  <2> QED BY <1>1, <2>1 DEF Unborn
<1>4. /\ rcvr' \in [Sync -> Nat \cup {Unborn}] /\ rcvr'[s] \in Nat
      /\ \A r \in Sync : r # s => rcvr'[r] = rcvr[r]
  BY <1>1, <1>3
<1>5. \A p \in Offer : Begun(p)' <=> Begun(p)
  BY <1>3, <1>4, Ports DEF Begun, Unborn
<1>6. SameWays
  BY <1>1, <1>2, <1>5 DEF SameWays
<1>7. /\ LineUp' /\ \A p \in Offer : Place(p)'
      /\ \A p \in Offer : (Sent(p)' <=> Sent(p)) /\ (Waiting(p)' <=> Waiting(p))
  BY <1>6, SameOffers DEF IInv
<1>8. Types'
  BY <1>1, <1>4 DEF IInv, Types
<1>9. ASSUME NEW p \in Offer PROVE Gone(p)' <=> Gone(p)
  BY <1>1, <1>5, <1>7, SameGone
<1>10. ASSUME NEW p \in Offer PROVE Heard(p)'
  BY <1>2, <1>5, <1>9, SameHeard DEF IInv
<1>11. Gone(o) /\ \A b \in Answer : ~AtRcvr(o, b)'
  BY <1>2 DEF IInv, Heard
<1>12. ASSUME NEW r \in Sync PROVE Count(r)'
  <2>1. CASE r # s
    <3>1. \A p \in Offer : Owner[p] = r => (StillDue(p)' <=> StillDue(p))
      BY <1>2, <1>9, <2>1 DEF StillDue
    <3> QED BY <1>4, <2>1, <3>1, SameCount DEF IInv
  <2>2. CASE r = s /\ rcvr'[s] = 0
    BY <2>2 DEF Count
  <2>3. CASE r = s /\ rcvr'[s] # 0
    <3>1. rcvr[s] > 0 /\ a = Fail /\ rcvr'[s] = rcvr[s] - 1
      BY <1>1, <1>3, <2>3
    <3>2. rcvr[s] = Cardinality(Due(s)) /\ OffersOf(s) \ Due(s) \subseteq Timed
      BY <1>3, <3>1 DEF IInv, Count, Unborn
    <3>3. o \in Due(s)
      BY <1>2 DEF Due, StillDue, OffersOf
    <3>4. Due(s)' = Due(s) \ {o}
      <4>1. ASSUME NEW p \in Offer, p # o PROVE StillDue(p)' <=> StillDue(p)
        BY <1>2, <1>9, <4>1 DEF StillDue
      <4>2. ~StillDue(o)'
        BY <1>9, <1>11 DEF StillDue
      <4> QED BY <4>1, <4>2 DEF Due, OffersOf
    <3>5. IsFiniteSet(Due(s))
      BY OfferAssumption, FS_Subset DEF Due, OffersOf
    <3>6. Cardinality(Due(s) \ {o}) = Cardinality(Due(s)) - 1
      BY <3>3, <3>5, FS_RemoveElement
    <3>7. o \in Timed
      BY <1>2, <3>1, NoAnswerIsFailure DEF IInv, Truth, OfferTold
    <3>8. OffersOf(s)' \ Due(s)' \subseteq Timed
      BY <3>2, <3>4, <3>7 DEF OffersOf
    <3> QED BY <2>3, <3>1, <3>2, <3>4, <3>6, <3>8 DEF Count
  <2> QED BY <2>1, <2>2, <2>3
<1>13. Gates'
  <2>1. ASSUME NEW p \in Timed \cap Offer
        PROVE  /\ ~Begun(p)' \/ Sent(p)' => kill'[p] = "none"
               /\ Waiting(p)' => kill'[p] # "none"
    BY <1>1, <1>5, <1>7 DEF IInv, Gates
  <2>2. ASSUME NEW r \in Timed \cap Sync, rcvr'[r] # Unborn PROVE kill'[r] # "none"
    <3>1. rcvr[r] # Unborn
      BY <1>3, <1>4, <2>2 DEF Unborn
    <3> QED BY <1>1, <3>1 DEF IInv, Gates
  <2>3. ASSUME NEW y \in Timed
        PROVE  y \in timer' \/ (\E b \in Answer : AtKill(y, b)') => kill'[y] # "none"
    <3>1. s \in Timed => kill[s] # "none"
      BY <1>3 DEF IInv, Gates, Unborn
    <3>2. \A b \in Answer : AtKill(y, b)' => AtKill(y, b) \/ kill'[y] # "none"
      BY <1>1, <3>1 DEF RcvrPasses, RcvrKeepsQuiet
    <3> QED BY <1>1, <3>2, GateExists
  <2>4. \A p \in Offer : Resetting(p)' => p \in Timed
    BY <1>2 DEF IInv, Gates
  <2> QED BY <2>1, <2>2, <2>3, <2>4 DEF Gates
<1>14. Truth'
  <2>1. \A p \in Offer, b \in Answer : AtKill(p, b)' => AtKill(p, b)
    BY <1>1, <1>3 DEF RcvrPasses, RcvrKeepsQuiet
  <2>2. \A r \in Sync, b \in Answer : /\ AtKill(r, b)' => AtKill(r, b) \/ SyncTold(r, b)
                                      /\ AtCust(r, b)' => AtCust(r, b) \/ SyncTold(r, b)
    BY <1>1 DEF RcvrPasses, RcvrKeepsQuiet
  <2> QED BY <1>1, <1>2, <2>1, <2>2, SameTruth
<1> QED BY <1>7, <1>8, <1>10, <1>12, <1>13, <1>14 DEF IInv

LEMMA StepKeeps ==
  ASSUME IInv, [Next]_vars
  PROVE  IInv'
<1>1. ASSUME NEW s \in Sync, Start(s) PROVE IInv'
  BY <1>1, StartKeeps
<1>2. ASSUME NEW x \in Offer \cup Sync, TimerFires(x) PROVE IInv'
  BY <1>2, TimerKeeps
<1>3. ASSUME NEW x \in Offer \cup Sync, Handle(x) PROVE IInv'
  <2>1. ASSUME x \in Offer, Sync1(x) \/ Wait(x) \/ Meet(x) PROVE IInv'
    BY <2>1, Sync1Keeps, WaitKeeps, MeetKeeps
  <2>2. ASSUME x \in Offer, Rcvr(x) \/ ResetEvent(x) \/ ResetChan(x) PROVE IInv'
    BY <2>2, RcvrKeeps, ResetEventKeeps, ResetChanKeeps
  <2>3. ASSUME x \in Offer, NEW a \in Answer, Port(x, a) PROVE IInv'
    BY <2>3, PortKeeps
  <2>4. ASSUME x \in Timed, NEW a \in Answer, Kill(x, a) PROVE IInv'
    BY <2>4, OpenKillKeeps, ShutKillKeeps
  <2>5. ASSUME x \in Sync, NEW a \in Answer, Tell(x, a) PROVE IInv'
    BY <2>5, TellKeeps
  <2> QED BY <1>3, <2>1, <2>2, <2>3, <2>4, <2>5 DEF Handle
<1>4. ASSUME Quiet \/ UNCHANGED vars PROVE IInv'
  BY <1>4, StutterKeeps DEF Quiet
<1> QED BY <1>1, <1>2, <1>3, <1>4 DEF Next

(* The invariant holds in every state, for any channels, offers, choices   *)
(* and time limits.                                                        *)
THEOREM Invariance == Spec => []IInv
BY InitInvariant, StepKeeps, PTL DEF Spec

-----------------------------------------------------------------------------
(* What a channel promises.                                                *)

(* Of the offers at one port the first alone has gone through to the       *)
(* channel, so that the channel, which has no clause for a second reader   *)
(* or a second writer, never gets one.                                     *)
LEMMA FirstThrough ==
  ASSUME IInv, NEW c \in Chan, NEW d \in Side
  PROVE  Cardinality(Through(c, d)) <= 1
<1>1. ASSUME NEW o \in Through(c, d), NEW p \in Through(c, d) PROVE o = p
  <2>1. /\ o \in Offer /\ ChanOf[o] = c /\ SideOf(o) = d /\ (AtCtrl(o) \/ Held(o))
        /\ p \in Offer /\ ChanOf[p] = c /\ SideOf(p) = d /\ (AtCtrl(p) \/ Held(p))
    BY DEF Through, AtCtrl, Held
  <2>2. InFront(o) /\ InFront(p)
    BY <2>1 DEF IInv, Place
  <2>3. Line(o) = Line(p)
    BY <2>1 DEF Line
  <2> QED BY <2>2, <2>3 DEF InFront
<1>2. CASE Through(c, d) = {}
  BY <1>2, FS_EmptySet
<1>3. CASE Through(c, d) # {}
  <2>1. PICK o : o \in Through(c, d)
    BY <1>3
  <2>2. Through(c, d) = {o}
    BY <1>1, <2>1
  <2>3. Cardinality({o}) = 1
    BY FS_Singleton
  <2> QED BY <2>2, <2>3
<1> QED BY <1>2, <1>3

THEOREM OnlyFirstThrough == Spec => []OnePerSide
<1>1. IInv => OnePerSide
  BY FirstThrough DEF OnePerSide
<1> QED BY <1>1, Invariance, PTL

(* A meeting is one of Rendezvous: neither offer has met before.           *)
LEMMA MeetingStep ==
  ASSUME IInv, NEW o \in Offer, Meet(o)
  PROVE  Abstract!Next
<1>1. PICK p \in Puts, g \in Offer \ Puts :
        /\ ChanOf[p] = ChanOf[g] /\ p # g
        /\ \A q \in {p, g} : q \in Offer /\ IF q = o THEN AtCtrl(q) ELSE Held(q)
        /\ met' = met \cup {<<p, g>>}
  BY MeetPair
<1>2. ASSUME NEW q \in {p, g} PROVE ~Met(q)
  <2>1. q \in Offer /\ (AtCtrl(q) \/ Held(q)) /\ Place(q)
    BY <1>1 DEF IInv
  <2>2. Waiting(q) /\ \A a \in Answer : ~Ported(q, a)
    BY <2>1, Lines DEF IInv, Place
  <2> QED BY <2>1, <2>2 DEF Place
<1>3. \A m \in met : m[1] # p /\ m[2] # g
  BY <1>2 DEF Met
<1>4. UNCHANGED told
  BY DEF Meet
<1>5. Abstract!Meet(p, g)
  BY <1>1, <1>3, <1>4 DEF Abstract!Meet
<1> QED BY <1>1, <1>5 DEF Abstract!Next

(* The first answer to the customer is one that Rendezvous allows; later   *)
(* ones stop at the ONCE.                                                  *)
LEMMA TellingStep ==
  ASSUME IInv, NEW s \in Sync, NEW a \in Answer, Tell(s, a)
  PROVE  Abstract!Next \/ UNCHANGED <<met, told>>
<1>1. AtCust(s, a) /\ UNCHANGED met
      /\ told' = [told EXCEPT ![s] = IF told[s] = <<>> THEN <<a>> ELSE told[s]]
  BY DEF Tell, AtCust
<1>2. CASE told[s] = <<>>
  <2>1. SyncTold(s, a)
    BY <1>1 DEF IInv, Truth
  <2>2. \/ s \in Limited /\ a = Fail
        \/ \E m \in met : (Owner[m[1]] = s /\ a = Ok) \/ (Owner[m[2]] = s /\ a = m[1])
    BY <2>1 DEF SyncTold, Answers, OffersOf
  <2>3. told' = [told EXCEPT ![s] = <<a>>]
    BY <1>1, <1>2
  <2>4. Abstract!Tell(s, a)
    BY <1>1, <1>2, <2>2, <2>3 DEF Abstract!Tell, Limited
  <2>5. a \in Puts \cup {Ok, Fail}
    BY DEF Answer
  <2> QED BY <2>4, <2>5 DEF Abstract!Next
<1>3. CASE told[s] # <<>>
  BY <1>1, <1>3 DEF IInv, Types
<1> QED BY <1>2, <1>3

LEMMA OtherSteps ==
  ASSUME [Next]_vars
  PROVE  \/ UNCHANGED <<met, told>>
         \/ \E o \in Offer : Meet(o)
         \/ \E s \in Sync, a \in Answer : Tell(s, a)
<1>1. ASSUME NEW s \in Sync, Start(s) PROVE UNCHANGED <<met, told>>
  BY <1>1 DEF Start
<1>2. ASSUME NEW x, TimerFires(x) PROVE UNCHANGED <<met, told>>
  BY <1>2 DEF TimerFires
<1>3. ASSUME NEW x \in Offer, Sync1(x) \/ Wait(x) \/ ResetEvent(x) \/ ResetChan(x)
      PROVE  UNCHANGED <<met, told>>
  BY <1>3 DEF Sync1, Wait, ResetEvent, ResetChan
<1>4. ASSUME NEW x \in Offer, Rcvr(x) PROVE UNCHANGED <<met, told>>
  BY <1>4 DEF Rcvr
<1>5. ASSUME NEW x, NEW a \in Answer, Port(x, a) \/ Kill(x, a) PROVE UNCHANGED <<met, told>>
  BY <1>5 DEF Port, Kill
<1>6. ASSUME Quiet \/ UNCHANGED vars PROVE UNCHANGED <<met, told>>
  BY <1>6 DEF Quiet, vars
<1> QED BY <1>1, <1>2, <1>3, <1>4, <1>5, <1>6 DEF Next, Handle

(* Channels with ports, KILL gates, choices and resets implement meetings. *)
THEOREM Refinement == Spec => Meetings
<1>1. Init => Abstract!Init
  BY DEF Init, Abstract!Init
<1>2. IInv /\ [Next]_vars => [Abstract!Next]_<<met, told>>
  BY OtherSteps, MeetingStep, TellingStep
<1> QED BY <1>1, <1>2, Invariance, PTL DEF Spec, Meetings, Abstract!Spec
=============================================================================
