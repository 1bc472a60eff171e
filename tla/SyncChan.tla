------------------------------ MODULE SyncChan ------------------------------
(***************************************************************************)
(* The synchronous channels and events of Reppy/sync-msg.lisp.             *)
(*                                                                         *)
(* SYNC makes the offers of an event: one, or with CHOOSE-EVT one for each *)
(* channel.  An offer goes through the read or the write port of its       *)
(* channel, a SERIALIZER each (module SerialService), to the control Actor *)
(* of the channel, where it meets an offer of the other kind.  The answers *)
(* go back through the port, the KILL gate of a TIMEOUT-EVT if the offer   *)
(* has one, the RCVR of the choice, and the KILL gate of a TIMEOUT-EVT     *)
(* around the choice, to the customer of the SYNC.                         *)
(*                                                                         *)
(* Messages are handled in any order (module Dispatcher).  An Actor that   *)
(* only passes a message on, whatever its state, is not a hop of its own.  *)
(***************************************************************************)
EXTENDS Integers, Sequences, FiniteSets

CONSTANTS
  Chan,       (* the channels                                              *)
  Offer,      (* the offers to send or to receive, each made once          *)
  Sync,       (* the calls of SYNC                                         *)
  ChanOf,     (* ChanOf[o]: the channel of the offer o                     *)
  Puts,       (* the offers to send; the others are offers to receive      *)
  Owner,      (* Owner[o]: the call of SYNC that makes the offer o         *)
  Timed,      (* the offers and the SYNCs with a TIMEOUT-EVT around them   *)
  NoOffer,    (* the absence of an offer                                   *)
  Ok, Fail    (* the answer :OK, and +FAIL+                                *)

ASSUME OfferAssumption ==
  /\ ChanOf \in [Offer -> Chan] /\ Owner \in [Offer -> Sync]
  /\ Puts \subseteq Offer /\ Timed \subseteq Offer \cup Sync
  /\ Offer \cap Sync = {} /\ NoOffer \notin Offer
  /\ IsFiniteSet(Offer) /\ Fail \notin Puts \cup {Ok}

Answer == {Ok, Fail} \cup Puts       (* a receiver is answered by a put    *)
Side == {"put", "get"}
SideOf(o) == IF o \in Puts THEN "put" ELSE "get"
OffersOf(s) == { o \in Offer : Owner[o] = s }

Unborn == -1                         (* a RCVR not created yet            *)

VARIABLES
  net,        (* the messages under way                                    *)
  line,       (* line[c][d]: the offers at port d of channel c, the first  *)
              (* of them let through                                       *)
  ctrl,       (* ctrl[c]: the offer that waits at the channel, or NoOffer  *)
  timer,      (* the timers that run, named after what they limit          *)
  kill,       (* kill[x]: the state of the KILL gate around x              *)
  rcvr,       (* rcvr[s]: failures the RCVR of s takes, 0 once a SINK      *)
  told,       (* told[s]: the answers given to the customer of s           *)
  met         (* history: the pairs <<put, get>> that met                  *)

vars == <<net, line, ctrl, timer, kill, rcvr, told, met>>

Msg(kind, o) == [kind |-> kind, to |-> o]
ToEvent(o)   == Msg("sync", o)           (* :SYNC, to the event of o        *)
ToCtrl(o)    == Msg("ctrl", o)           (* :GET or :PUT, to the channel    *)
EventReset(o) == Msg("reset", o)         (* :RESET, to the TIMEOUT-EVT of o *)
CtrlReset(o) == Msg("ctrl-reset", o)     (* :RESET, to the channel of o     *)
Reply(kind, x, a) == [kind |-> kind, to |-> x, answer |-> a]
ToPort(o, a) == Reply("port", o, a)      (* the channel's answer about o    *)
ToKill(x, a) == Reply("kill", x, a)      (* an answer at the KILL gate of x *)
ToRcvr(o, a) == Reply("rcvr", o, a)      (* an answer about o at its RCVR   *)
ToCust(s, a) == Reply("cust", s, a)      (* to the customer, through a ONCE *)

Replace(m, ms) == net' = (net \ {m}) \cup ms

(* Where answers about o go, those of the choice of s, and a :RESET for o. *)
FromPort(o, a) == IF o \in Timed THEN ToKill(o, a) ELSE ToRcvr(o, a)
Reset(o) == IF o \in Timed THEN EventReset(o) ELSE CtrlReset(o)
FromRcvr(s, a) == IF s \in Timed THEN ToKill(s, a) ELSE ToCust(s, a)

Init ==
  /\ net   = {}
  /\ line  = [c \in Chan |-> [d \in Side |-> <<>>]]
  /\ ctrl  = [c \in Chan |-> NoOffer]
  /\ timer = {}
  /\ kill  = [x \in Timed |-> "none"]
  /\ rcvr  = [s \in Sync |-> Unborn]
  /\ told  = [s \in Sync |-> <<>>]
  /\ met   = {}

-----------------------------------------------------------------------------
(* SYNC, the :SYNC of a TIMEOUT-EVT around the choice, and of CHOOSE-EVT.  *)
Start(s) ==
  /\ rcvr[s] = Unborn
  /\ rcvr' = [rcvr EXCEPT ![s] = Cardinality(OffersOf(s))]
  /\ net' = net \cup { ToEvent(o) : o \in OffersOf(s) }
  /\ IF s \in Timed
       THEN kill' = [kill EXCEPT ![s] = "open"] /\ timer' = timer \cup {s}
       ELSE UNCHANGED <<kill, timer>>
  /\ UNCHANGED <<line, ctrl, told, met>>

(* Mutant: a port that is no SERIALIZER.                                   *)
Sync1Unserialized(o) ==
  LET c == ChanOf[o]  d == SideOf(o)
  IN /\ ToEvent(o) \in net
     /\ line' = [line EXCEPT ![c][d] = Append(@, o)]
     /\ Replace(ToEvent(o), {ToCtrl(o)})
     /\ IF o \in Timed
          THEN kill' = [kill EXCEPT ![o] = "open"] /\ timer' = timer \cup {o}
          ELSE UNCHANGED <<kill, timer>>
     /\ UNCHANGED <<ctrl, rcvr, told, met>>

(* The :SYNC of SEND-EVT or RECV-EVT, and of a TIMEOUT-EVT around it: the  *)
(* offer goes to its port, which lets it through if it is free.            *)
Sync1(o) ==
  LET c == ChanOf[o]  d == SideOf(o)
  IN /\ ToEvent(o) \in net
     /\ line' = [line EXCEPT ![c][d] = Append(@, o)]
     /\ Replace(ToEvent(o), IF line[c][d] = <<>> THEN {ToCtrl(o)} ELSE {})
     /\ IF o \in Timed
          THEN kill' = [kill EXCEPT ![o] = "open"] /\ timer' = timer \cup {o}
          ELSE UNCHANGED <<kill, timer>>
     /\ UNCHANGED <<ctrl, rcvr, told, met>>

(* SYNC-CHAN-BEH: become GET-WAITING-BEH or PUT-WAITING-BEH.               *)
Wait(o) ==
  /\ ToCtrl(o) \in net /\ ctrl[ChanOf[o]] = NoOffer
  /\ ctrl' = [ctrl EXCEPT ![ChanOf[o]] = o]
  /\ Replace(ToCtrl(o), {})
  /\ UNCHANGED <<line, timer, kill, rcvr, told, met>>

(* The pair that an offer which arrives makes with the one that waits.     *)
PairOf(o, w) == IF o \in Puts THEN <<o, w>> ELSE <<w, o>>

(* Mutant: the channel keeps the partner it has served.                    *)
MeetAndKeep(o) ==
  LET w == ctrl[ChanOf[o]]  pair == PairOf(o, w)
  IN /\ ToCtrl(o) \in net /\ w # NoOffer /\ SideOf(w) # SideOf(o)
     /\ Replace(ToCtrl(o), {ToPort(pair[1], Ok), ToPort(pair[2], pair[1])})
     /\ met' = met \cup {pair}
     /\ UNCHANGED <<line, ctrl, timer, kill, rcvr, told>>

(* Mutant: the later offer takes the place of the one that waits.          *)
MeetReplaces(o) ==
  LET w == ctrl[ChanOf[o]]
  IN /\ ToCtrl(o) \in net /\ w # NoOffer /\ SideOf(w) # SideOf(o)
     /\ ctrl' = [ctrl EXCEPT ![ChanOf[o]] = o]
     /\ Replace(ToCtrl(o), {})
     /\ UNCHANGED <<line, timer, kill, rcvr, told, met>>

(* GET-WAITING-BEH gets a :PUT or PUT-WAITING-BEH a :GET: both sides are   *)
(* answered.                                                               *)
Meet(o) ==
  LET w == ctrl[ChanOf[o]]  pair == PairOf(o, w)
  IN /\ ToCtrl(o) \in net /\ w # NoOffer /\ SideOf(w) # SideOf(o)
     /\ ctrl' = [ctrl EXCEPT ![ChanOf[o]] = NoOffer]
     /\ Replace(ToCtrl(o), {ToPort(pair[1], Ok), ToPort(pair[2], pair[1])})
     /\ met' = met \cup {pair}
     /\ UNCHANGED <<line, timer, kill, rcvr, told>>

(* The port gets the answer, passes it on and lets the next offer through. *)
Port(o, a) ==
  LET c == ChanOf[o]  d == SideOf(o)  rest == Tail(line[c][d])
  IN /\ ToPort(o, a) \in net
     /\ line' = [line EXCEPT ![c][d] = rest]
     /\ Replace(ToPort(o, a),
                {FromPort(o, a)} \cup (IF rest = <<>> THEN {} ELSE {ToCtrl(Head(rest))}))
     /\ UNCHANGED <<ctrl, timer, kill, rcvr, told, met>>

(* Mutant: after the time limit the event is reset and nobody is told.     *)
KilledSilently(x, a) ==
  (IF x \in Offer THEN {CtrlReset(x)} ELSE { Reset(o) : o \in OffersOf(x) })
    \cup (IF a = Fail THEN {} ELSE IF x \in Offer THEN {ToRcvr(x, a)} ELSE {ToCust(x, a)})

(* What the KILL gate around x sends: :RESET into the event, the answer on.*)
Killed(x, a) ==
  IF x \in Offer THEN {CtrlReset(x), ToRcvr(x, a)}
                 ELSE { Reset(o) : o \in OffersOf(x) } \cup {ToCust(x, a)}

(* The KILL gate of TIMEOUT-EVT-BEH, a ONCE: the first answer, or the word *)
(* of the timer, goes on and the event is told to reset.                   *)
Kill(x, a) ==
  /\ ToKill(x, a) \in net
  /\ kill' = [kill EXCEPT ![x] = "shut"]
  /\ Replace(ToKill(x, a), IF kill[x] = "open" THEN Killed(x, a) ELSE {})
  /\ UNCHANGED <<line, ctrl, timer, rcvr, told, met>>

TimerFires(x) ==
  /\ x \in timer
  /\ timer' = timer \ {x}
  /\ net' = net \cup {ToKill(x, Fail)}
  /\ UNCHANGED <<line, ctrl, kill, rcvr, told, met>>

(* RCVR-BEH of CHOOSE-EVT: the first success goes on and resets all the    *)
(* events; failures go on when there is no event left; then it is a SINK.  *)
Rcvr(o) ==
  LET s == Owner[o]
  IN \E a \in Answer :
       /\ ToRcvr(o, a) \in net
       /\ \/ /\ rcvr[s] = 0
             /\ Replace(ToRcvr(o, a), {})
             /\ UNCHANGED rcvr
          \/ /\ rcvr[s] > 0 /\ a # Fail
             /\ rcvr' = [rcvr EXCEPT ![s] = 0]
             /\ Replace(ToRcvr(o, a), { Reset(p) : p \in OffersOf(s) } \cup {FromRcvr(s, a)})
          \/ /\ rcvr[s] > 0 /\ a = Fail
             /\ rcvr' = [rcvr EXCEPT ![s] = @ - 1]
             /\ Replace(ToRcvr(o, a), IF rcvr[s] = 1 THEN {FromRcvr(s, Fail)} ELSE {})
       /\ UNCHANGED <<line, ctrl, timer, kill, told, met>>

(* The :RESET of a TIMEOUT-EVT fails its KILL gate, if it has one by now.  *)
ResetEvent(o) ==
  /\ EventReset(o) \in net
  /\ Replace(EventReset(o), IF kill[o] = "none" THEN {} ELSE {ToKill(o, Fail)})
  /\ UNCHANGED <<line, ctrl, timer, kill, rcvr, told, met>>

(* The channel handles a :RESET without a customer.  None of the clauses   *)
(* that end a wait matches it: GET-WAITING-BEH swallows it in the clause   *)
(* (BECOME (SYNC-CHAN-BEH)), in the other states it is an error whose      *)
(* reply goes to no Actor.                                                 *)
ResetChan(o) ==
  /\ CtrlReset(o) \in net
  /\ Replace(CtrlReset(o), {})
  /\ UNCHANGED <<line, ctrl, timer, kill, rcvr, told, met>>

(* The customer, behind the ONCE that SYNC makes.                          *)
Tell(s, a) ==
  /\ ToCust(s, a) \in net
  /\ told' = [told EXCEPT ![s] = IF @ = <<>> THEN <<a>> ELSE @]
  /\ Replace(ToCust(s, a), {})
  /\ UNCHANGED <<line, ctrl, timer, kill, rcvr, met>>

(* At rest: nothing is under way; some may wait for a partner for ever.    *)
Quiet ==
  /\ net = {} /\ timer = {} /\ \A s \in Sync : rcvr[s] # Unborn
  /\ UNCHANGED vars

Handle(x) ==
  \/ x \in Offer /\ (Sync1(x) \/ Wait(x) \/ Meet(x) \/ Rcvr(x) \/ ResetEvent(x) \/ ResetChan(x))
  \/ x \in Offer /\ \E a \in Answer : Port(x, a)
  \/ x \in Timed /\ \E a \in Answer : Kill(x, a)
  \/ x \in Sync /\ \E a \in Answer : Tell(x, a)

Next ==
  \/ \E s \in Sync : Start(s)
  \/ \E x \in Offer \cup Sync : TimerFires(x) \/ Handle(x)
  \/ Quiet

Spec == Init /\ [][Next]_vars

(* Every message is handled (EveryMessageHandled of Dispatcher), and timers*)
(* go off.                                                                 *)
FairSpec ==
  /\ Spec
  /\ \A x \in Offer \cup Sync : WF_vars(TimerFires(x)) /\ WF_vars(Handle(x))
-----------------------------------------------------------------------------
Through(c, d) == { o \in Offer : ChanOf[o] = c /\ SideOf(o) = d
                                   /\ (ToCtrl(o) \in net \/ ctrl[c] = o) }

(* "We need to protect against multiple logical readers or writers from    *)
(* entering a rendezvous" (sync-msg.lisp:18-20): behind a port there is    *)
(* one offer at most, so that a channel never gets a second :GET or :PUT   *)
(* while one waits, for which it has no clause.                            *)
OnePerSide ==
  \A c \in Chan, d \in Side : Cardinality(Through(c, d)) <= 1

(* Offers meet in pairs, and a customer is told once, of a partner of one  *)
(* of its own offers or of a failure it provided for (sync-msg.lisp:49-68, *)
(* 180-202, 218-225).                                                      *)
Abstract == INSTANCE Rendezvous WITH
  Limited <- { s \in Sync : s \in Timed \/ OffersOf(s) \subseteq Timed }
Meetings == Abstract!Spec

(* Somebody who wants to send and somebody who wants to receive on one     *)
(* channel do not both wait for ever, whatever became of those before them.*)
Waiting(o) == \E i \in DOMAIN line[ChanOf[o]][SideOf(o)] : line[ChanOf[o]][SideOf(o)][i] = o
PartnersMeet ==
  \A p \in Puts, g \in Offer \ Puts :
    ChanOf[p] = ChanOf[g] => (Waiting(p) /\ Waiting(g) ~> ~(Waiting(p) /\ Waiting(g)))

(* A time limit is kept: its customer is told of something.  And one that  *)
(* made a single offer without a limit is told when that has met.          *)
EveryoneTold ==
  /\ \A s \in Sync \cap Timed : rcvr[s] # Unborn ~> told[s] # <<>>
  /\ \A o \in Offer : (\E m \in met : o \in {m[1], m[2]}) ~> told[Owner[o]] # <<>>

(* "...and cancel the rendezvous attempts on the other events in the       *)
(* collection" (sync-msg.lisp:174-177): an offer whose reset the channel   *)
(* handles does not go on waiting there.                                   *)
ResetEndsWait ==
  [][\A o \in Offer : ResetChan(o) => ctrl'[ChanOf[o]] # o]_vars
=============================================================================
