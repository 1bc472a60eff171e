------------------------- MODULE ConnectionsProofs --------------------------
(***************************************************************************)
(* For any number of clients, sockets, addresses and writes: the variables *)
(* of module Connections have their types, an address has one socket, the  *)
(* count of I/O stands for its users, and the closing of a socket is news  *)
(* to the list.                                                            *)
(***************************************************************************)
EXTENDS Connections, TLAPS

(* The types of the variables, without the bounds of the counters, which   *)
(* follow from the other parts.                                            *)
ListTypes ==
  /\ list \in [Addr -> Rec \cup {NoRec}]
  /\ client \in [Client -> {"idle", "waiting", "told", "nil", "dropped"}]
  /\ stage \in [Sock -> {"none", "connecting", "adding", "refused", "failed",
                         "open", "handshake", "secured"}]
  /\ net \subseteq Mail

IoTypes ==
  /\ io \in [Sock -> Int] /\ reader \in [Sock -> BOOLEAN] /\ gate \in [Sock -> BOOLEAN]
  /\ writes \in [Sock -> Nat] /\ queued \in [Sock -> Nat]
  /\ writer \in [Sock -> {"idle", "writing", "locked"}]
  /\ ending \in [Sock -> {"no", "reader", "writer"}]
  /\ shut \in [Sock -> {"none", "zero", "nonzero", "reset", "done"}]
  /\ closed \in [Sock -> SUBSET {"graceful", "abort"}]

(* A socket in the making has a place reserved on the list: a record which *)
(* has no socket yet, for a client's or for an accepted one.  So has one   *)
(* that failed, until the list hears of it.                                *)
Reserving(s) == stage[s] \in {"connecting", "adding"} \/ Msg("abort", s) \in net

ReservedAt(s) ==
  Reserving(s) => /\ list[Peer[s]] # NoRec /\ list[Peer[s]].state = NoSock
                  /\ \A t \in Sock : Reserving(t) /\ Peer[t] = Peer[s] => t = s

(* A socket is at its end when it has been closed, or its count has been   *)
(* taken to zero by a callback that is about to close it.                  *)
Ended(s) == closed[s] # {} \/ ending[s] # "no"

(* The socket of a record has been opened, and leads to its address; and   *)
(* until its end it has its record.                                        *)
RecordAt(a) ==
  list[a] # NoRec /\ list[a].state # NoSock =>
    list[a].state \in Sock /\ Opened(list[a].state) /\ Peer[list[a].state] = a

RecordedAt(s) ==
  Opened(s) /\ ~Ended(s) => list[Peer[s]] # NoRec /\ list[Peer[s]].state = s

(* At which stage of a socket messages about it are under way.             *)
CourierAt(s) ==
  /\ Msg("add-socket", s) \in net <=> stage[s] = "adding"
  /\ Msg("abort", s) \in net => stage[s] = "failed"
  /\ Msg("negotiate", s) \in net => Opened(s)
  /\ Msg("shutdown", s) \in net => Opened(s) /\ shut[s] = "none"
  /\ Msg("remove", s) \in net => Opened(s) /\ Ended(s)

(* Before a socket is opened nothing has been done to it.                  *)
UnusedAt(s) ==
  ~Opened(s) =>
    /\ io[s] = 1 /\ ~reader[s] /\ writer[s] = "idle" /\ queued[s] = 0
    /\ shut[s] = "none" /\ ending[s] = "no" /\ (closed[s] = {} \/ stage[s] = "refused")

(* The count: exact until the socket is closed or the shutdown has set it, *)
(* and positive until the end; from then on it may be behind by those whom *)
(* the shutdown did not wait for.                                          *)
CountedAt(s) ==
  Opened(s) =>
    /\ closed[s] = {} /\ shut[s] # "reset" => io[s] = Users(s)
    /\ IF Ended(s) \/ shut[s] = "reset" THEN io[s] < 1 ELSE io[s] > 0
    /\ io[s] >= Users(s) - 2

(* How the news of the end of a socket travels.                            *)
NewsAt(s) ==
  Opened(s) =>
    /\ shut[s] = "none" /\ closed[s] # {} => Msg("shutdown", s) \in net
    /\ shut[s] \in {"zero", "done"} => Ended(s)
    /\ shut[s] = "done" /\ list[Peer[s]] # NoRec /\ list[Peer[s]].state = s
         => Msg("remove", s) \in net

(* What is queued has been written, but for the :DISCARD of the shutdown.  *)
QueueAt(s) ==
  /\ writes[s] <= MaxWrites[s]
  /\ queued[s] <= writes[s] + (IF shut[s] = "done" THEN 1 ELSE 0)

Reserved == \A s \in Sock : ReservedAt(s)
Recorded == (\A a \in Addr : RecordAt(a)) /\ (\A s \in Sock : RecordedAt(s))
Courier  == \A s \in Sock : CourierAt(s)
Unused   == \A s \in Sock : UnusedAt(s)
Counted  == \A s \in Sock : CountedAt(s)
News     == \A s \in Sock : NewsAt(s)
Queue    == \A s \in Sock : QueueAt(s)

IInv == /\ ListTypes /\ IoTypes /\ Reserved /\ Recorded /\ Courier
        /\ Unused /\ Counted /\ News /\ Queue

(* Messages about different things differ.                                 *)
LEMMA Differ == \A k, l, s, t : Msg(k, s) = Msg(l, t) <=> k = l /\ s = t
BY DEF Msg

(* The messages that the actions send.                                     *)
LEMMA Mails ==
  ASSUME NEW s \in Sock
  PROVE  /\ Msg("add-socket", s) \in Mail /\ Msg("abort", s) \in Mail
         /\ Msg("negotiate", s) \in Mail /\ Msg("set-channel", s) \in Mail
         /\ Msg("remove", s) \in Mail /\ Msg("shutdown", s) \in Mail
BY DEF Msg, Mail

(* Where sockets lead and what clients want are addresses.                 *)
LEMMA Places == Peer \in [Sock -> Addr] /\ Wants \in [Client -> Addr]
BY SocketAssumption

(* The slots of a CONNECTION-REC.                                          *)
LEMMA Fields ==
  /\ NoRec \notin Rec /\ NoSock \notin Sock
  /\ \A r \in Rec : r.state \in Sock \cup {NoSock} /\ r.custs \in SUBSET Client
BY SocketAssumption DEF Rec

(* A new record, and a record with one slot set.                           *)
LEMMA NewRecs ==
  ASSUME NEW s \in Sock \cup {NoSock}, NEW p \in BOOLEAN, NEW cs \in SUBSET Client
  PROVE  NewRec(s, p, cs) \in Rec /\ NewRec(s, p, cs).state = s
BY SocketAssumption DEF NewRec, Rec

(* With another socket ...                                                 *)
LEMMA WithState ==
  ASSUME NEW r \in Rec, NEW s \in Sock
  PROVE  [r EXCEPT !.state = s] \in Rec /\ [r EXCEPT !.state = s].state = s
BY DEF Rec

(* ... with other customers ...                                            *)
LEMMA WithCusts ==
  ASSUME NEW r \in Rec, NEW cs \in SUBSET Client
  PROVE  [r EXCEPT !.custs = cs] \in Rec /\ [r EXCEPT !.custs = cs].state = r.state
BY DEF Rec

(* ... with its channel, and the customers told.                           *)
LEMMA WithChan ==
  ASSUME NEW r \in Rec, NEW s \in Sock
  PROVE  /\ [[r EXCEPT !.chan = s] EXCEPT !.custs = {}] \in Rec
         /\ [[r EXCEPT !.chan = s] EXCEPT !.custs = {}].state = r.state
BY DEF Rec

(* The slots of a socket.                                                  *)
LEMMA TypesAt ==
  ASSUME IInv, NEW x \in Sock
  PROVE  /\ io[x] \in Int /\ reader[x] \in BOOLEAN /\ gate[x] \in BOOLEAN
         /\ writes[x] \in Nat /\ queued[x] \in Nat /\ MaxWrites[x] \in Nat
         /\ shut[x] \in {"none", "zero", "nonzero", "reset", "done"}
         /\ Peer[x] \in Addr
BY SocketAssumption DEF IInv, IoTypes

(* The parts of the invariant, at one socket.                              *)
LEMMA Everywhere ==
  ASSUME IInv, NEW x \in Sock
  PROVE  /\ ReservedAt(x) /\ RecordedAt(x) /\ CourierAt(x) /\ UnusedAt(x)
         /\ CountedAt(x) /\ NewsAt(x) /\ QueueAt(x)
BY DEF IInv, Reserved, Recorded, Courier, Unused, Counted, News, Queue

(* :FIND-SOCKET reserves the place of the address whose socket it makes.   *)
LEMMA FindNoneKeeps ==
  ASSUME IInv, NEW c \in Client, FindNone(c)
  PROVE  IInv'
<1> PICK s \in Sock : /\ Peer[s] = Wants[c] /\ stage[s] = "none"
                        /\ stage' = [stage EXCEPT ![s] = "connecting"]
  BY DEF FindNone
<1>1. UNCHANGED <<net, io, reader, writes, queued, writer, gate, ending, shut, closed>>
  BY DEF FindNone, listVars, ioVars
<1>2. stage[s] = "none" /\ list[Peer[s]] = NoRec /\ Wants[c] = Peer[s]
  BY DEF IInv, FindNone, listVars, ioVars
<1>3. \E r \in Rec : r.state = NoSock /\ list' = [list EXCEPT ![Peer[s]] = r]
  <2>1. list' = [list EXCEPT ![Peer[s]] = NewRec(NoSock, FALSE, {c})]
    BY <1>2 DEF FindNone
  <2>2. NewRec(NoSock, FALSE, {c}) \in Rec /\ NewRec(NoSock, FALSE, {c}).state = NoSock
    BY NewRecs
  <2> QED BY <2>1, <2>2
<1>4. \A b \in Addr : /\ (list'[b] # NoRec <=> b = Peer[s] \/ list[b] # NoRec)
                    /\ (list'[b] # NoRec =>
                            list'[b].state = IF b = Peer[s] THEN NoSock ELSE list[b].state)
  BY Places, Fields, <1>3, <1>2
  DEF IInv, ListTypes
<1>5. \A x \in Sock : stage'[x] = IF x = s THEN "connecting" ELSE stage[x]
  BY <1>2
  DEF IInv, ListTypes, FindNone, listVars, ioVars
<1>6. ListTypes'
  <2>1. list' \in [Addr -> Rec \cup {NoRec}]
    BY Places, <1>3, <1>2
    DEF IInv, ListTypes
  <2>2. client' \in [Client -> {"idle", "waiting", "told", "nil", "dropped"}]
    BY <1>2
    DEF IInv, ListTypes, FindNone, listVars, ioVars
  <2>3. stage' \in [Sock -> {"none", "connecting", "adding", "refused",
                                "failed", "open", "handshake", "secured"}]
    BY <1>2
    DEF IInv, ListTypes, FindNone, listVars, ioVars
  <2> QED  BY <1>1, <2>1, <2>2, <2>3
  DEF IInv, ListTypes
<1>7. Reserved'
  <2>1. ASSUME NEW x \in Sock  PROVE ReservedAt(x)'
    BY <1>1, <1>2, <1>4, <1>5, Everywhere, TypesAt, Fields
    DEF ReservedAt, Reserving, CourierAt, Opened, RecordedAt, Ended
  <2> QED  BY <2>1 DEF Reserved
<1>8. Recorded'
  <2>1. ASSUME NEW b \in Addr  PROVE RecordAt(b)'
    BY <1>1, <1>2, <1>4, <1>5, Everywhere, TypesAt, Fields
    DEF IInv, Recorded, RecordAt, RecordedAt, Opened, ReservedAt, Reserving,
        CourierAt, Ended
  <2>2. ASSUME NEW x \in Sock  PROVE RecordedAt(x)'
    BY <1>1, <1>2, <1>4, <1>5, Everywhere, TypesAt, Fields
    DEF RecordedAt, Opened, ReservedAt, Reserving, CourierAt, Ended
  <2> QED  BY <2>1, <2>2 DEF Recorded
<1>9. Courier'
  <2>1. ASSUME NEW x \in Sock  PROVE CourierAt(x)'
    <3>1. CourierAt(x) /\ UnusedAt(x) /\ NewsAt(x)
          /\ CourierAt(s) /\ UnusedAt(s) /\ NewsAt(s)
      BY Everywhere
    <3> QED
      BY <3>1, TypesAt, <1>1, <1>2, <1>5
      DEF CourierAt, Opened, UnusedAt, NewsAt, Ended
  <2> QED  BY <2>1 DEF Courier
<1>10. Unused'
  <2>1. ASSUME NEW x \in Sock  PROVE UnusedAt(x)'
    <3>1. UnusedAt(x) /\ CourierAt(x)
          /\ UnusedAt(s) /\ CourierAt(s)
      BY Everywhere
    <3> QED
      BY <3>1, TypesAt, <1>1, <1>2, <1>5
      DEF UnusedAt, Opened, CourierAt, Ended
  <2> QED  BY <2>1 DEF Unused
<1>11. Counted'
  <2>1. ASSUME NEW x \in Sock  PROVE CountedAt(x)'
    <3>1. CountedAt(x) /\ UnusedAt(x) /\ NewsAt(x) /\ CourierAt(x)
          /\ CountedAt(s) /\ UnusedAt(s) /\ NewsAt(s) /\ CourierAt(s)
      BY Everywhere
    <3> QED
      BY <3>1, TypesAt, <1>1, <1>2, <1>5
      DEF CountedAt, Users, Opened, UnusedAt, NewsAt, CourierAt, Ended
  <2> QED  BY <2>1 DEF Counted
<1>12. News'
  <2>1. ASSUME NEW x \in Sock  PROVE NewsAt(x)'
    <3>1. NewsAt(x) /\ RecordedAt(x) /\ CourierAt(x) /\ UnusedAt(x) /\ CountedAt(x)
          /\ NewsAt(s) /\ RecordedAt(s) /\ CourierAt(s) /\ UnusedAt(s) /\ CountedAt(s)
      BY Everywhere
    <3> QED
      BY <3>1, TypesAt, <1>1, <1>2, <1>4, <1>5, Fields
      DEF NewsAt, Opened, RecordedAt, CourierAt, UnusedAt, CountedAt, Users, Ended
  <2> QED  BY <2>1 DEF News
<1>13. IoTypes' /\ Queue'
  BY <1>1
  DEF IInv, IoTypes, Queue, QueueAt
<1> QED  BY <1>6, <1>7, <1>8, <1>9, <1>10, <1>11, <1>12, <1>13 DEF IInv

(* :FIND-SOCKET with a record leaves the socket of the record.             *)
LEMMA FindRecKeeps ==
  ASSUME IInv, NEW c \in Client, FindRec(c)
  PROVE  IInv'
<1>1. UNCHANGED <<stage, net, io, reader, writes, queued, writer, gate, ending, shut, closed>>
  BY DEF FindRec, listVars, ioVars
<1>2. list' = list \/ \E r \in Rec : /\ list' = [list EXCEPT ![Wants[c]] = r]
                              /\ list[Wants[c]] # NoRec /\ r.state = list[Wants[c]].state
  <2>1. CASE list[Wants[c]].custs = {}
    BY <2>1 DEF FindRec
  <2>2. CASE list[Wants[c]].custs # {}
    <3> DEFINE cs == list[Wants[c]].custs \cup {c}
               r  == [list[Wants[c]] EXCEPT !.custs = cs]
    <3>1. list[Wants[c]] \in Rec /\ list[Wants[c]] # NoRec
      BY Places DEF IInv, ListTypes, FindRec
    <3>2. cs \in SUBSET Client
      BY <3>1, Fields
    <3>3. r \in Rec /\ r.state = list[Wants[c]].state
      BY <3>1, <3>2, WithCusts
    <3>4. list' = [list EXCEPT ![Wants[c]] = r]
      BY <2>2 DEF FindRec
    <3> QED  BY <3>1, <3>3, <3>4
  <2> QED  BY <2>1, <2>2
<1>3. \A b \in Addr : /\ (list'[b] # NoRec <=> list[b] # NoRec)
                    /\ (list[b] # NoRec => list'[b].state = list[b].state)
  BY Places, Fields, <1>2
  DEF IInv, ListTypes
<1>4. ListTypes'
  <2>1. list' \in [Addr -> Rec \cup {NoRec}]
    BY Places, <1>2
    DEF IInv, ListTypes
  <2>2. client' \in [Client -> {"idle", "waiting", "told", "nil", "dropped"}]
    BY DEF IInv, ListTypes, FindRec, listVars, ioVars
  <2> QED  BY <1>1, <2>1, <2>2
  DEF IInv, ListTypes
<1>5. Reserved'
  <2>1. ASSUME NEW x \in Sock  PROVE ReservedAt(x)'
    BY <1>1, <1>3, Everywhere, TypesAt, Fields
    DEF ReservedAt, Reserving, CourierAt, Opened, RecordedAt, Ended
  <2> QED  BY <2>1 DEF Reserved
<1>6. Recorded'
  <2>1. ASSUME NEW b \in Addr  PROVE RecordAt(b)'
    BY <1>1, <1>3, Everywhere, TypesAt, Fields
    DEF IInv, Recorded, RecordAt, RecordedAt, Opened, ReservedAt, Reserving,
        CourierAt, Ended
  <2>2. ASSUME NEW x \in Sock  PROVE RecordedAt(x)'
    BY <1>1, <1>3, Everywhere, TypesAt, Fields
    DEF RecordedAt, Opened, ReservedAt, Reserving, CourierAt, Ended
  <2> QED  BY <2>1, <2>2 DEF Recorded
<1>7. News'
  <2>1. ASSUME NEW x \in Sock  PROVE NewsAt(x)'
    <3>1. NewsAt(x) /\ RecordedAt(x) /\ CourierAt(x) /\ UnusedAt(x) /\ CountedAt(x)
      BY Everywhere
    <3> QED
      BY <3>1, TypesAt, <1>1, <1>3, Fields
      DEF NewsAt, Opened, RecordedAt, CourierAt, UnusedAt, CountedAt, Users, Ended
  <2> QED  BY <2>1 DEF News
<1>8. IoTypes' /\ Courier' /\ Unused' /\ Counted' /\ Queue'
  BY <1>1
  DEF IInv, IoTypes, Courier, CourierAt, Opened, Unused, UnusedAt, Counted,
      CountedAt, Users, Queue, QueueAt, Ended
<1> QED  BY <1>4, <1>5, <1>6, <1>7, <1>8 DEF IInv

(* :ADD-SERVER reserves a free place, or closes the accepted socket.       *)
LEMMA AddServerKeeps ==
  ASSUME IInv, NEW s \in Sock, AddServer(s)
  PROVE  IInv'
<1>1. UNCHANGED <<client, io, reader, writes, queued, writer, gate, ending, shut>>
  BY DEF AddServer, listVars, ioVars
<1>2. stage[s] = "none"
  BY DEF IInv, AddServer, listVars, ioVars
<1>3. IF list[Peer[s]] # NoRec THEN list' = list
       ELSE \E r \in Rec : r.state = NoSock /\ list' = [list EXCEPT ![Peer[s]] = r]
  BY NewRecs, <1>2
  DEF IInv, ListTypes, AddServer, listVars, ioVars
<1>4. /\ closed' = IF list[Peer[s]] # NoRec THEN [closed EXCEPT ![s] = {"abort"}] ELSE closed
     /\ net' = IF list[Peer[s]] # NoRec THEN net ELSE net \cup {Msg("add-socket", s)}
  BY <1>2
  DEF IInv, ListTypes, AddServer, listVars, ioVars
<1>5. \A b \in Addr : /\ (list'[b] # NoRec <=> b = Peer[s] \/ list[b] # NoRec)
                    /\ (list'[b] # NoRec =>
                            list'[b].state = IF b = Peer[s] /\ list[b] = NoRec THEN NoSock ELSE list[b].state)
  BY Places, Fields, <1>3, <1>2
  DEF IInv, ListTypes
<1>6. \A x \in Sock :
       stage'[x] = IF x = s
                   THEN IF list[Peer[s]] # NoRec THEN "refused" ELSE "adding"
                   ELSE stage[x]
  BY <1>2
  DEF IInv, ListTypes, AddServer, listVars, ioVars
<1>7. \A x \in Sock :
       /\ (Msg("add-socket", x) \in net' <=> Msg("add-socket", x) \in net \/ (x = s /\ list[Peer[s]] = NoRec))
       /\ (Msg("abort", x) \in net' <=> Msg("abort", x) \in net)
       /\ (Msg("negotiate", x) \in net' <=> Msg("negotiate", x) \in net)
       /\ (Msg("shutdown", x) \in net' <=> Msg("shutdown", x) \in net)
       /\ (Msg("remove", x) \in net' <=> Msg("remove", x) \in net)
  BY Differ, <1>4, <1>2
<1>8. \A x \in Sock :
       closed'[x] = {} <=> closed[x] = {} /\ ~(x = s /\ list[Peer[s]] # NoRec)
  BY <1>4, <1>2
  DEF IInv, IoTypes
<1>9. ListTypes'
  <2>1. list' \in [Addr -> Rec \cup {NoRec}]
    BY Places, <1>3, <1>2
    DEF IInv, ListTypes
  <2>2. stage' \in [Sock -> {"none", "connecting", "adding", "refused",
                                "failed", "open", "handshake", "secured"}]
    BY <1>2
    DEF IInv, ListTypes, AddServer, listVars, ioVars
  <2>3. net' \subseteq Mail
    BY Mails, <1>4, <1>2
    DEF IInv, ListTypes
  <2> QED  BY <1>1, <2>1, <2>2, <2>3
  DEF IInv, ListTypes
<1>10. IoTypes'
  <2>1. closed' \in [Sock -> SUBSET {"graceful", "abort"}]
    BY <1>4, <1>2
    DEF IInv, IoTypes
  <2> QED  BY <1>1, <2>1
  DEF IInv, IoTypes
<1>11. Reserved'
  <2>1. ASSUME NEW x \in Sock  PROVE ReservedAt(x)'
    BY <1>1, <1>2, <1>5, <1>6, <1>7, Everywhere, TypesAt, Fields
    DEF ReservedAt, Reserving, CourierAt, Opened, RecordedAt, Ended
  <2> QED  BY <2>1 DEF Reserved
<1>12. Recorded'
  <2>1. ASSUME NEW b \in Addr  PROVE RecordAt(b)'
    BY <1>1, <1>2, <1>5, <1>6, <1>8, Everywhere, TypesAt, Fields
    DEF IInv, Recorded, RecordAt, RecordedAt, Opened, ReservedAt, Reserving,
        CourierAt, Ended
  <2>2. ASSUME NEW x \in Sock  PROVE RecordedAt(x)'
    BY <1>1, <1>2, <1>5, <1>6, <1>8, Everywhere, TypesAt, Fields
    DEF RecordedAt, Opened, ReservedAt, Reserving, CourierAt, Ended
  <2> QED  BY <2>1, <2>2 DEF Recorded
<1>13. Courier'
  <2>1. ASSUME NEW x \in Sock  PROVE CourierAt(x)'
    <3>1. CourierAt(x) /\ UnusedAt(x) /\ NewsAt(x)
          /\ CourierAt(s) /\ UnusedAt(s) /\ NewsAt(s)
      BY Everywhere
    <3> QED
      BY <3>1, TypesAt, <1>1, <1>2, <1>6, <1>7, <1>8
      DEF CourierAt, Opened, UnusedAt, NewsAt, Ended
  <2> QED  BY <2>1 DEF Courier
<1>14. Unused'
  <2>1. ASSUME NEW x \in Sock  PROVE UnusedAt(x)'
    <3>1. UnusedAt(x) /\ CourierAt(x)
          /\ UnusedAt(s) /\ CourierAt(s)
      BY Everywhere
    <3> QED
      BY <3>1, TypesAt, <1>1, <1>2, <1>6, <1>8
      DEF UnusedAt, Opened, CourierAt, Ended
  <2> QED  BY <2>1 DEF Unused
<1>15. Counted'
  <2>1. ASSUME NEW x \in Sock  PROVE CountedAt(x)'
    <3>1. CountedAt(x) /\ UnusedAt(x) /\ NewsAt(x) /\ CourierAt(x)
          /\ CountedAt(s) /\ UnusedAt(s) /\ NewsAt(s) /\ CourierAt(s)
      BY Everywhere
    <3> QED
      BY <3>1, TypesAt, <1>1, <1>2, <1>6, <1>8
      DEF CountedAt, Users, Opened, UnusedAt, NewsAt, CourierAt, Ended
  <2> QED  BY <2>1 DEF Counted
<1>16. News'
  <2>1. ASSUME NEW x \in Sock  PROVE NewsAt(x)'
    <3>1. NewsAt(x) /\ RecordedAt(x) /\ CourierAt(x) /\ UnusedAt(x) /\ CountedAt(x)
          /\ NewsAt(s) /\ RecordedAt(s) /\ CourierAt(s) /\ UnusedAt(s) /\ CountedAt(s)
      BY Everywhere
    <3> QED
      BY <3>1, TypesAt, <1>1, <1>2, <1>5, <1>6, <1>7, <1>8, Fields
      DEF NewsAt, Opened, RecordedAt, CourierAt, UnusedAt, CountedAt, Users, Ended
  <2> QED  BY <2>1 DEF News
<1>17. Queue'
  BY <1>1
  DEF IInv, Queue, QueueAt
<1> QED  BY <1>9, <1>10, <1>11, <1>12, <1>13, <1>14, <1>15, <1>16, <1>17 DEF IInv

(* The outcome of an attempt to connect goes to the list as a message.     *)
LEMMA ConnectKeeps ==
  ASSUME IInv, NEW s \in Sock, Connect(s)
  PROVE  IInv'
<1>1. ListTypes'
  BY Places, Mails
  DEF IInv, ListTypes, IoTypes, Connect, listVars, ioVars
<1>2. Reserved'
  BY Places, Differ
  DEF IInv, ListTypes, IoTypes, Reserved, ReservedAt, Reserving, Recorded,
      RecordAt, RecordedAt, Opened, Courier, CourierAt, Connect, listVars,
      ioVars, Ended
<1>3. Recorded'
  BY Places, Differ
  DEF IInv, ListTypes, IoTypes, Recorded, RecordAt, RecordedAt, Opened,
      Reserved, ReservedAt, Reserving, Courier, CourierAt, Connect, listVars,
      ioVars, Ended
<1>4. Courier'
  BY Differ
  DEF IInv, ListTypes, IoTypes, Courier, CourierAt, Opened, Unused, UnusedAt,
      News, NewsAt, Connect, listVars, ioVars, Ended
<1>5. Unused'
  BY DEF IInv, ListTypes, IoTypes, Unused, UnusedAt, Opened, Courier,
      CourierAt, Connect, listVars, ioVars, Ended
<1>6. Counted'
  BY DEF IInv, ListTypes, IoTypes, Counted, CountedAt, Users, Opened, Unused,
      UnusedAt, News, NewsAt, Connect, listVars, ioVars, Ended
<1>7. News'
  BY Places, Differ
  DEF IInv, ListTypes, IoTypes, News, NewsAt, Opened, Recorded, RecordAt,
      RecordedAt, Courier, CourierAt, Unused, UnusedAt, Counted, CountedAt,
      Users, Connect, listVars, ioVars, Ended
<1>8. IoTypes' /\ Queue'
  BY DEF IInv, IoTypes, Queue, QueueAt, Connect, listVars, ioVars
<1> QED  BY <1>1, <1>2, <1>3, <1>4, <1>5, <1>6, <1>7, <1>8 DEF IInv

(* The end of the handshake goes to the list as a message.                 *)
LEMMA HandshakeDoneKeeps ==
  ASSUME IInv, NEW s \in Sock, HandshakeDone(s)
  PROVE  IInv'
<1>1. ListTypes'
  BY Places, Mails
  DEF IInv, ListTypes, IoTypes, HandshakeDone, listVars, ioVars
<1>2. Reserved'
  BY Places, Differ
  DEF IInv, ListTypes, IoTypes, Reserved, ReservedAt, Reserving, Recorded,
      RecordAt, RecordedAt, Opened, Courier, CourierAt, HandshakeDone,
      listVars, ioVars, Ended
<1>3. Recorded'
  BY Places, Differ
  DEF IInv, ListTypes, IoTypes, Recorded, RecordAt, RecordedAt, Opened,
      Reserved, ReservedAt, Reserving, Courier, CourierAt, HandshakeDone,
      listVars, ioVars, Ended
<1>4. Courier'
  BY Differ
  DEF IInv, ListTypes, IoTypes, Courier, CourierAt, Opened, Unused, UnusedAt,
      News, NewsAt, HandshakeDone, listVars, ioVars, Ended
<1>5. Unused'
  BY DEF IInv, ListTypes, IoTypes, Unused, UnusedAt, Opened, Courier,
      CourierAt, HandshakeDone, listVars, ioVars, Ended
<1>6. Counted'
  BY DEF IInv, ListTypes, IoTypes, Counted, CountedAt, Users, Opened, Unused,
      UnusedAt, News, NewsAt, HandshakeDone, listVars, ioVars, Ended
<1>7. News'
  BY Places, Differ
  DEF IInv, ListTypes, IoTypes, News, NewsAt, Opened, Recorded, RecordAt,
      RecordedAt, Courier, CourierAt, Unused, UnusedAt, Counted, CountedAt,
      Users, HandshakeDone, listVars, ioVars, Ended
<1>8. IoTypes' /\ Queue'
  BY DEF IInv, IoTypes, Queue, QueueAt, HandshakeDone, listVars, ioVars
<1> QED  BY <1>1, <1>2, <1>3, <1>4, <1>5, <1>6, <1>7, <1>8 DEF IInv

(* :ADD-SOCKET finds the place that is reserved, so no other socket in it. *)
LEMMA AddSocketKeeps ==
  ASSUME IInv, NEW s \in Sock, AddSocket(s)
  PROVE  IInv'
<1>1. UNCHANGED <<client, io, writes, queued, writer, gate, ending, shut, closed>>
  BY DEF Shutdown, Replace, AddSocket, listVars, ioVars
<1>2. stage[s] = "adding" /\ list[Peer[s]] # NoRec /\ list[Peer[s]].state = NoSock
  BY Everywhere, TypesAt
  DEF IInv, Shutdown, Replace, AddSocket, listVars, ioVars, CourierAt,
      ReservedAt, Reserving, Ended
<1>3. \E r \in Rec : r.state = s /\ list' = [list EXCEPT ![Peer[s]] = r]
  <2> DEFINE old == list[Peer[s]]
             r   == IF old.pending THEN NewRec(s, FALSE, {}) ELSE [old EXCEPT !.state = s]
  <2>1. old \in Rec
    BY Places, <1>2 DEF IInv, ListTypes
  <2>2. list' = [list EXCEPT ![Peer[s]] = r]
    BY <1>2 DEF AddSocket
  <2>3. CASE old.pending
    BY <2>2, <2>3, NewRecs
  <2>4. CASE ~old.pending
    BY <2>1, <2>2, <2>4, WithState
  <2> QED BY <2>3, <2>4
<1>4. net' = (net \ {Msg("add-socket", s)})
              \cup (IF s \in Accepted THEN {} ELSE {Msg("negotiate", s)})
  <2> DEFINE old  == IF list[Peer[s]] = NoRec THEN {}
                     ELSE {list[Peer[s]].state} \ {NoSock, s}
             ends == UNION {Shutdown(o) : o \in old}
             asks == IF s \in Accepted THEN {} ELSE {Msg("negotiate", s)}
  <2>1. net' = (net \ {Msg("add-socket", s)}) \cup (ends \cup asks)
    BY DEF AddSocket, Replace
  <2>2. old = {}
    BY <1>2
  <2>3. ends = {}
    <3> HIDE DEF old
    <3> QED  BY <2>2
  <2> HIDE DEF ends, asks
  <2>4. net' = (net \ {Msg("add-socket", s)}) \cup asks
    BY <2>1, <2>3
  <2> QED  BY <2>4 DEF asks
<1>5. \A b \in Addr : /\ (list'[b] # NoRec <=> list[b] # NoRec)
                    /\ (list[b] # NoRec =>
                            list'[b].state = IF b = Peer[s] THEN s ELSE list[b].state)
  BY Places, Fields, <1>3, <1>2
  DEF IInv, ListTypes
<1>6. \A x \in Sock : stage'[x] = IF x = s THEN "open" ELSE stage[x]
  BY <1>2
  DEF IInv, ListTypes, Shutdown, Replace, AddSocket, listVars, ioVars
<1>7. \A x \in Sock :
       /\ (Msg("add-socket", x) \in net' <=> Msg("add-socket", x) \in net /\ x # s)
       /\ (Msg("abort", x) \in net' <=> Msg("abort", x) \in net)
       /\ (Msg("negotiate", x) \in net' <=> Msg("negotiate", x) \in net \/ (x = s /\ s \notin Accepted))
       /\ (Msg("shutdown", x) \in net' <=> Msg("shutdown", x) \in net)
       /\ (Msg("remove", x) \in net' <=> Msg("remove", x) \in net)
  BY Differ, <1>4, <1>2
<1>8. \A x \in Sock : reader'[x] <=> x = s \/ reader[x]
  BY <1>2
  DEF IInv, IoTypes, Shutdown, Replace, AddSocket, listVars, ioVars
<1>9. ListTypes'
  <2>1. list' \in [Addr -> Rec \cup {NoRec}]
    BY Places, <1>3, <1>2
    DEF IInv, ListTypes
  <2>2. stage' \in [Sock -> {"none", "connecting", "adding", "refused",
                                "failed", "open", "handshake", "secured"}]
    BY <1>2
    DEF IInv, ListTypes, Shutdown, Replace, AddSocket, listVars, ioVars
  <2>3. net' \subseteq Mail
    BY Mails, <1>4, <1>2
    DEF IInv, ListTypes
  <2> QED  BY <1>1, <2>1, <2>2, <2>3
  DEF IInv, ListTypes
<1>10. IoTypes'
  <2>1. reader' \in [Sock -> BOOLEAN]
    BY <1>2
    DEF IInv, IoTypes, Shutdown, Replace, AddSocket, listVars, ioVars
  <2> QED  BY <1>1, <2>1
  DEF IInv, IoTypes
<1>11. Reserved'
  <2>1. ASSUME NEW x \in Sock  PROVE ReservedAt(x)'
    BY <1>1, <1>2, <1>5, <1>6, <1>7, Everywhere, TypesAt, Fields
    DEF ReservedAt, Reserving, CourierAt, Opened, RecordedAt, Ended
  <2> QED  BY <2>1 DEF Reserved
<1>12. Recorded'
  <2>1. ASSUME NEW b \in Addr  PROVE RecordAt(b)'
    BY <1>1, <1>2, <1>5, <1>6, Everywhere, TypesAt, Fields
    DEF IInv, Recorded, RecordAt, RecordedAt, Opened, ReservedAt, Reserving,
        CourierAt, Ended
  <2>2. ASSUME NEW x \in Sock  PROVE RecordedAt(x)'
    BY <1>1, <1>2, <1>5, <1>6, Everywhere, TypesAt, Fields
    DEF RecordedAt, Opened, ReservedAt, Reserving, CourierAt, Ended
  <2> QED  BY <2>1, <2>2 DEF Recorded
<1>13. Courier'
  <2>1. ASSUME NEW x \in Sock  PROVE CourierAt(x)'
    <3>1. CourierAt(x) /\ UnusedAt(x) /\ NewsAt(x)
          /\ CourierAt(s) /\ UnusedAt(s) /\ NewsAt(s)
      BY Everywhere
    <3> QED
      BY <3>1, TypesAt, <1>1, <1>2, <1>6, <1>7
      DEF CourierAt, Opened, UnusedAt, NewsAt, Ended
  <2> QED  BY <2>1 DEF Courier
<1>14. Unused'
  <2>1. ASSUME NEW x \in Sock  PROVE UnusedAt(x)'
    <3>1. UnusedAt(x) /\ CourierAt(x)
          /\ UnusedAt(s) /\ CourierAt(s)
      BY Everywhere
    <3> QED
      BY <3>1, TypesAt, <1>1, <1>2, <1>6, <1>8
      DEF UnusedAt, Opened, CourierAt, Ended
  <2> QED  BY <2>1 DEF Unused
<1>15. Counted'
  <2>1. ASSUME NEW x \in Sock  PROVE CountedAt(x)'
    <3>1. CountedAt(x) /\ UnusedAt(x) /\ NewsAt(x) /\ CourierAt(x)
          /\ CountedAt(s) /\ UnusedAt(s) /\ NewsAt(s) /\ CourierAt(s)
      BY Everywhere
    <3>2. CASE x = s
      BY <3>1, <3>2, TypesAt, <1>1, <1>2, <1>6, <1>8
      DEF CountedAt, Users, Opened, UnusedAt, NewsAt, CourierAt, Ended
    <3>3. CASE x # s
      BY <3>1, <3>3, TypesAt, <1>1, <1>2, <1>6, <1>8
      DEF CountedAt, Users, Opened, Ended
    <3> QED  BY <3>2, <3>3
  <2> QED  BY <2>1 DEF Counted
<1>16. News'
  <2>1. ASSUME NEW x \in Sock  PROVE NewsAt(x)'
    <3>1. NewsAt(x) /\ RecordedAt(x) /\ CourierAt(x) /\ UnusedAt(x) /\ CountedAt(x)
          /\ NewsAt(s) /\ RecordedAt(s) /\ CourierAt(s) /\ UnusedAt(s) /\ CountedAt(s)
      BY Everywhere
    <3> QED
      BY <3>1, TypesAt, <1>1, <1>2, <1>5, <1>6, <1>7, Fields
      DEF NewsAt, Opened, RecordedAt, CourierAt, UnusedAt, CountedAt, Users, Ended
  <2> QED  BY <2>1 DEF News
<1>17. Queue'
  BY <1>1
  DEF IInv, Queue, QueueAt
<1> QED  BY <1>9, <1>10, <1>11, <1>12, <1>13, <1>14, <1>15, <1>16, <1>17 DEF IInv

(* :ABORT finds the place that is reserved for the socket that failed.     *)
LEMMA AbortKeeps ==
  ASSUME IInv, NEW s \in Sock, Abort(s)
  PROVE  IInv'
<1>1. ListTypes'
  BY Places, Mails, Fields
  DEF IInv, ListTypes, IoTypes, Replace, Drop, Abort, listVars, ioVars
<1>2. Reserved'
  BY Places, Differ, Fields
  DEF IInv, ListTypes, IoTypes, Reserved, ReservedAt, Reserving, Recorded,
      RecordAt, RecordedAt, Opened, Courier, CourierAt, Replace, Drop, Abort,
      listVars, ioVars, Ended
<1>3. Recorded'
  BY Places, Differ, Fields
  DEF IInv, ListTypes, IoTypes, Recorded, RecordAt, RecordedAt, Opened,
      Reserved, ReservedAt, Reserving, Courier, CourierAt, Replace, Drop,
      Abort, listVars, ioVars, Ended
<1>4. Courier'
  BY Differ, Fields
  DEF IInv, ListTypes, IoTypes, Courier, CourierAt, Opened, Unused, UnusedAt,
      News, NewsAt, Replace, Drop, Abort, listVars, ioVars, Ended
<1>5. News'
  BY Places, Differ, Fields
  DEF IInv, ListTypes, IoTypes, News, NewsAt, Opened, Recorded, RecordAt,
      RecordedAt, Courier, CourierAt, Unused, UnusedAt, Counted, CountedAt,
      Users, Replace, Drop, Abort, listVars, ioVars, Ended
<1>6. IoTypes' /\ Unused' /\ Counted' /\ Queue'
  BY DEF IInv, IoTypes, Unused, UnusedAt, Opened, Counted, CountedAt, Users,
      Queue, QueueAt, Abort, listVars, ioVars, Ended
<1> QED  BY <1>1, <1>2, <1>3, <1>4, <1>5, <1>6 DEF IInv

(* :NEGOTIATE is about a socket that has been opened.                      *)
LEMMA NegotiateKeeps ==
  ASSUME IInv, NEW s \in Sock, Negotiate(s)
  PROVE  IInv'
<1>1. UNCHANGED <<list, client, io, reader, writes, queued, writer, gate, ending, shut, closed>>
  BY DEF Replace, Negotiate, listVars, ioVars
<1>2. Msg("negotiate", s) \in net
  BY DEF IInv, Replace, Negotiate, listVars, ioVars
<1>3. \A x \in Sock :
       stage'[x] = IF x = s THEN IF list[Peer[s]] # NoRec /\ list[Peer[s]].state = s
                             THEN "handshake" ELSE stage[s] ELSE stage[x]
  BY <1>2
  DEF IInv, ListTypes, Replace, Negotiate, listVars, ioVars
<1>4. \A x \in Sock :
       /\ (Msg("add-socket", x) \in net' <=> Msg("add-socket", x) \in net)
       /\ (Msg("abort", x) \in net' <=> Msg("abort", x) \in net)
       /\ (Msg("negotiate", x) \in net' <=> Msg("negotiate", x) \in net /\ x # s)
       /\ (Msg("shutdown", x) \in net' <=> Msg("shutdown", x) \in net)
       /\ (Msg("remove", x) \in net' <=> Msg("remove", x) \in net)
  BY Differ, <1>2
  DEF Replace, Negotiate, listVars, ioVars
<1>5. ListTypes'
  <2>1. stage' \in [Sock -> {"none", "connecting", "adding", "refused",
                                "failed", "open", "handshake", "secured"}]
    BY <1>2
    DEF IInv, ListTypes, Replace, Negotiate, listVars, ioVars
  <2>2. net' \subseteq Mail
    BY Mails, <1>2
    DEF IInv, ListTypes, Replace, Negotiate, listVars, ioVars
  <2> QED  BY <1>1, <2>1, <2>2
  DEF IInv, ListTypes
<1>6. Reserved'
  <2>1. ASSUME NEW x \in Sock  PROVE ReservedAt(x)'
    BY <1>1, <1>2, <1>3, <1>4, Everywhere, TypesAt, Fields
    DEF ReservedAt, Reserving, CourierAt, Opened, RecordedAt, Ended
  <2> QED  BY <2>1 DEF Reserved
<1>7. Recorded'
  <2>1. ASSUME NEW b \in Addr  PROVE RecordAt(b)'
    BY <1>1, <1>2, <1>3, Everywhere, TypesAt, Fields
    DEF IInv, Recorded, RecordAt, RecordedAt, Opened, ReservedAt, Reserving,
        CourierAt, Ended
  <2>2. ASSUME NEW x \in Sock  PROVE RecordedAt(x)'
    BY <1>1, <1>2, <1>3, Everywhere, TypesAt, Fields
    DEF RecordedAt, Opened, ReservedAt, Reserving, CourierAt, Ended
  <2> QED  BY <2>1, <2>2 DEF Recorded
<1>8. Courier'
  <2>1. ASSUME NEW x \in Sock  PROVE CourierAt(x)'
    <3>1. CourierAt(x) /\ UnusedAt(x) /\ NewsAt(x)
          /\ CourierAt(s) /\ UnusedAt(s) /\ NewsAt(s)
      BY Everywhere
    <3> QED
      BY <3>1, TypesAt, <1>1, <1>2, <1>3, <1>4
      DEF CourierAt, Opened, UnusedAt, NewsAt, Ended
  <2> QED  BY <2>1 DEF Courier
<1>9. Unused'
  <2>1. ASSUME NEW x \in Sock  PROVE UnusedAt(x)'
    <3>1. UnusedAt(x) /\ CourierAt(x)
          /\ UnusedAt(s) /\ CourierAt(s)
      BY Everywhere
    <3> QED
      BY <3>1, TypesAt, <1>1, <1>2, <1>3
      DEF UnusedAt, Opened, CourierAt, Ended
  <2> QED  BY <2>1 DEF Unused
<1>10. Counted'
  <2>1. ASSUME NEW x \in Sock  PROVE CountedAt(x)'
    <3>1. CountedAt(x) /\ UnusedAt(x) /\ NewsAt(x) /\ CourierAt(x)
          /\ CountedAt(s) /\ UnusedAt(s) /\ NewsAt(s) /\ CourierAt(s)
      BY Everywhere
    <3> QED
      BY <3>1, TypesAt, <1>1, <1>2, <1>3
      DEF CountedAt, Users, Opened, UnusedAt, NewsAt, CourierAt, Ended
  <2> QED  BY <2>1 DEF Counted
<1>11. News'
  <2>1. ASSUME NEW x \in Sock  PROVE NewsAt(x)'
    <3>1. NewsAt(x) /\ RecordedAt(x) /\ CourierAt(x) /\ UnusedAt(x) /\ CountedAt(x)
          /\ NewsAt(s) /\ RecordedAt(s) /\ CourierAt(s) /\ UnusedAt(s) /\ CountedAt(s)
      BY Everywhere
    <3> QED
      BY <3>1, TypesAt, <1>1, <1>2, <1>3, <1>4
      DEF NewsAt, Opened, RecordedAt, CourierAt, UnusedAt, CountedAt, Users, Ended
  <2> QED  BY <2>1 DEF News
<1>12. IoTypes' /\ Queue'
  BY <1>1
  DEF IInv, IoTypes, Queue, QueueAt
<1> QED  BY <1>5, <1>6, <1>7, <1>8, <1>9, <1>10, <1>11, <1>12 DEF IInv

(* :SET-CHANNEL leaves the socket of the record.                           *)
LEMMA SetChannelKeeps ==
  ASSUME IInv, NEW s \in Sock, SetChannel(s)
  PROVE  IInv'
<1>1. UNCHANGED <<stage, io, reader, writes, queued, writer, gate, ending, shut, closed>>
  BY DEF Replace, SetChannel, listVars, ioVars
<1>2. list' = list \/ \E r \in Rec : /\ list' = [list EXCEPT ![Peer[s]] = r]
                              /\ list[Peer[s]] # NoRec /\ r.state = list[Peer[s]].state
  <2>1. CASE list[Peer[s]] # NoRec /\ list[Peer[s]].state = s
    <3> DEFINE r == [[list[Peer[s]] EXCEPT !.chan = s] EXCEPT !.custs = {}]
    <3>1. list[Peer[s]] \in Rec /\ list[Peer[s]] # NoRec
      BY <2>1, Places DEF IInv, ListTypes
    <3>2. r \in Rec /\ r.state = list[Peer[s]].state
      BY <3>1, WithChan
    <3>3. list' = [list EXCEPT ![Peer[s]] = r]
      BY <2>1, <3>1, Places DEF SetChannel, IInv, ListTypes
    <3> QED  BY <3>1, <3>2, <3>3
  <2>2. CASE ~(list[Peer[s]] # NoRec /\ list[Peer[s]].state = s)
    BY <2>2 DEF SetChannel, listVars
  <2> QED  BY <2>1, <2>2
<1>3. \A b \in Addr : /\ (list'[b] # NoRec <=> list[b] # NoRec)
                    /\ (list[b] # NoRec => list'[b].state = list[b].state)
  BY Places, Fields, <1>2
  DEF IInv, ListTypes
<1>4. \A x \in Sock :
       /\ (Msg("add-socket", x) \in net' <=> Msg("add-socket", x) \in net)
       /\ (Msg("abort", x) \in net' <=> Msg("abort", x) \in net)
       /\ (Msg("negotiate", x) \in net' <=> Msg("negotiate", x) \in net)
       /\ (Msg("shutdown", x) \in net' <=> Msg("shutdown", x) \in net)
       /\ (Msg("remove", x) \in net' <=> Msg("remove", x) \in net)
  BY Differ
  DEF Replace, SetChannel, listVars, ioVars
<1>5. ListTypes'
  <2>1. list' \in [Addr -> Rec \cup {NoRec}]
    BY Places, <1>2
    DEF IInv, ListTypes
  <2>2. client' \in [Client -> {"idle", "waiting", "told", "nil", "dropped"}]
    BY DEF IInv, ListTypes, Replace, SetChannel, listVars, ioVars
  <2>3. net' \subseteq Mail
    BY Mails
    DEF IInv, ListTypes, Replace, SetChannel, listVars, ioVars
  <2> QED  BY <1>1, <2>1, <2>2, <2>3
  DEF IInv, ListTypes
<1>6. Reserved'
  <2>1. ASSUME NEW x \in Sock  PROVE ReservedAt(x)'
    BY <1>1, <1>3, <1>4, Everywhere, TypesAt, Fields
    DEF ReservedAt, Reserving, CourierAt, Opened, RecordedAt, Ended
  <2> QED  BY <2>1 DEF Reserved
<1>7. Recorded'
  <2>1. ASSUME NEW b \in Addr  PROVE RecordAt(b)'
    BY <1>1, <1>3, Everywhere, TypesAt, Fields
    DEF IInv, Recorded, RecordAt, RecordedAt, Opened, ReservedAt, Reserving,
        CourierAt, Ended
  <2>2. ASSUME NEW x \in Sock  PROVE RecordedAt(x)'
    BY <1>1, <1>3, Everywhere, TypesAt, Fields
    DEF RecordedAt, Opened, ReservedAt, Reserving, CourierAt, Ended
  <2> QED  BY <2>1, <2>2 DEF Recorded
<1>8. Courier'
  <2>1. ASSUME NEW x \in Sock  PROVE CourierAt(x)'
    <3>1. CourierAt(x) /\ UnusedAt(x) /\ NewsAt(x)
          /\ CourierAt(s) /\ UnusedAt(s) /\ NewsAt(s)
      BY Everywhere
    <3> QED
      BY <3>1, TypesAt, <1>1, <1>4
      DEF CourierAt, Opened, UnusedAt, NewsAt, Ended
  <2> QED  BY <2>1 DEF Courier
<1>9. News'
  <2>1. ASSUME NEW x \in Sock  PROVE NewsAt(x)'
    <3>1. NewsAt(x) /\ RecordedAt(x) /\ CourierAt(x) /\ UnusedAt(x) /\ CountedAt(x)
          /\ NewsAt(s) /\ RecordedAt(s) /\ CourierAt(s) /\ UnusedAt(s) /\ CountedAt(s)
      BY Everywhere
    <3> QED
      BY <3>1, TypesAt, <1>1, <1>3, <1>4, Fields
      DEF NewsAt, Opened, RecordedAt, CourierAt, UnusedAt, CountedAt, Users, Ended
  <2> QED  BY <2>1 DEF News
<1>10. IoTypes' /\ Unused' /\ Counted' /\ Queue'
  BY <1>1
  DEF IInv, IoTypes, Unused, UnusedAt, Opened, Counted, CountedAt, Users,
      Queue, QueueAt, Ended
<1> QED  BY <1>5, <1>6, <1>7, <1>8, <1>9, <1>10 DEF IInv

(* :REMOVE takes only a closed socket off the list.                        *)
LEMMA RemoveKeeps ==
  ASSUME IInv, NEW s \in Sock, Remove(s)
  PROVE  IInv'
<1>1. UNCHANGED <<stage, io, reader, writes, queued, writer, gate, ending, shut, closed>>
  BY DEF Replace, Drop, Remove, listVars, ioVars
<1>2. Msg("remove", s) \in net
  BY DEF IInv, Replace, Drop, Remove, listVars, ioVars
<1>3. \A b \in Addr : /\ (list'[b] # NoRec <=> list[b] # NoRec /\ ~(b = Peer[s] /\ list[b].state = s))
                    /\ (list'[b] # NoRec => list'[b].state = list[b].state)
  BY Places, Fields, <1>2
  DEF IInv, ListTypes, Replace, Drop, Remove, listVars, ioVars
<1>4. \A x \in Sock :
       /\ (Msg("add-socket", x) \in net' <=> Msg("add-socket", x) \in net)
       /\ (Msg("abort", x) \in net' <=> Msg("abort", x) \in net)
       /\ (Msg("negotiate", x) \in net' <=> Msg("negotiate", x) \in net)
       /\ (Msg("shutdown", x) \in net' <=> Msg("shutdown", x) \in net)
       /\ (Msg("remove", x) \in net' <=> Msg("remove", x) \in net /\ x # s)
  BY Differ, <1>2
  DEF Replace, Drop, Remove, listVars, ioVars
<1>5. ListTypes'
  <2>1. list' \in [Addr -> Rec \cup {NoRec}]
    BY Places, Fields, <1>2
    DEF IInv, ListTypes, Replace, Drop, Remove, listVars, ioVars
  <2>2. client' \in [Client -> {"idle", "waiting", "told", "nil", "dropped"}]
    BY <1>2
    DEF IInv, ListTypes, Replace, Drop, Remove, listVars, ioVars
  <2>3. net' \subseteq Mail
    BY Mails, <1>2
    DEF IInv, ListTypes, Replace, Drop, Remove, listVars, ioVars
  <2> QED  BY <1>1, <2>1, <2>2, <2>3
  DEF IInv, ListTypes
<1>6. Reserved'
  <2>1. ASSUME NEW x \in Sock  PROVE ReservedAt(x)'
    BY <1>1, <1>2, <1>3, <1>4, Everywhere, TypesAt, Fields
    DEF ReservedAt, Reserving, CourierAt, Opened, RecordedAt, Ended
  <2> QED  BY <2>1 DEF Reserved
<1>7. Recorded'
  <2>1. ASSUME NEW b \in Addr  PROVE RecordAt(b)'
    BY <1>1, <1>2, <1>3, Everywhere, TypesAt, Fields
    DEF IInv, Recorded, RecordAt, RecordedAt, Opened, ReservedAt, Reserving,
        CourierAt, Ended
  <2>2. ASSUME NEW x \in Sock  PROVE RecordedAt(x)'
    BY <1>1, <1>2, <1>3, Everywhere, TypesAt, Fields
    DEF RecordedAt, Opened, ReservedAt, Reserving, CourierAt, Ended
  <2> QED  BY <2>1, <2>2 DEF Recorded
<1>8. Courier'
  <2>1. ASSUME NEW x \in Sock  PROVE CourierAt(x)'
    <3>1. CourierAt(x) /\ UnusedAt(x) /\ NewsAt(x)
          /\ CourierAt(s) /\ UnusedAt(s) /\ NewsAt(s)
      BY Everywhere
    <3> QED
      BY <3>1, TypesAt, <1>1, <1>2, <1>4
      DEF CourierAt, Opened, UnusedAt, NewsAt, Ended
  <2> QED  BY <2>1 DEF Courier
<1>9. News'
  <2>1. ASSUME NEW x \in Sock  PROVE NewsAt(x)'
    <3>1. NewsAt(x) /\ RecordedAt(x) /\ CourierAt(x) /\ UnusedAt(x) /\ CountedAt(x)
          /\ NewsAt(s) /\ RecordedAt(s) /\ CourierAt(s) /\ UnusedAt(s) /\ CountedAt(s)
      BY Everywhere
    <3> QED
      BY <3>1, TypesAt, <1>1, <1>2, <1>3, <1>4, Fields
      DEF NewsAt, Opened, RecordedAt, CourierAt, UnusedAt, CountedAt, Users, Ended
  <2> QED  BY <2>1 DEF News
<1>10. IoTypes' /\ Unused' /\ Counted' /\ Queue'
  BY <1>1
  DEF IInv, IoTypes, Unused, UnusedAt, Opened, Counted, CountedAt, Users,
      Queue, QueueAt, Ended
<1> QED  BY <1>5, <1>6, <1>7, <1>8, <1>9, <1>10 DEF IInv

(* A write is queued behind a gate.                                        *)
LEMMA WriteKeeps ==
  ASSUME IInv, NEW s \in Sock, Write(s)
  PROVE  IInv'
<1>1. UNCHANGED <<list, client, stage, net, io, reader, writer, gate, ending, shut, closed>>
  BY DEF Write, listVars, ioVars
<1>2. Opened(s) /\ writes[s] < MaxWrites[s]
  BY DEF IInv, Write, listVars, ioVars
<1>3. \A x \in Sock : writes'[x] = IF x = s THEN writes[s] + 1 ELSE writes[x]
  BY <1>2
  DEF IInv, IoTypes, Write, listVars, ioVars
<1>4. \A x \in Sock :
       queued'[x] = IF x = s
                    THEN IF gate[s] THEN queued[s] + 1 ELSE queued[s]
                    ELSE queued[x]
  BY <1>2
  DEF IInv, IoTypes, Write, listVars, ioVars
<1>5. IoTypes'
  <2>1. writes' \in [Sock -> Nat]
    BY <1>2
    DEF IInv, IoTypes, Write, listVars, ioVars
  <2>2. queued' \in [Sock -> Nat]
    BY <1>2
    DEF IInv, IoTypes, Write, listVars, ioVars
  <2> QED  BY <1>1, <2>1, <2>2
  DEF IInv, IoTypes
<1>6. Unused'
  <2>1. ASSUME NEW x \in Sock  PROVE UnusedAt(x)'
    <3>1. UnusedAt(x) /\ CourierAt(x)
          /\ UnusedAt(s) /\ CourierAt(s)
      BY Everywhere
    <3> QED
      BY <3>1, TypesAt, <1>1, <1>2, <1>4
      DEF UnusedAt, Opened, CourierAt, Ended
  <2> QED  BY <2>1 DEF Unused
<1>7. Queue'
  <2>1. ASSUME NEW x \in Sock  PROVE QueueAt(x)'
    <3>1. QueueAt(x) /\ UnusedAt(x) /\ CourierAt(x)
          /\ QueueAt(s) /\ UnusedAt(s) /\ CourierAt(s)
      BY Everywhere
    <3> QED
      BY <3>1, TypesAt, <1>1, <1>2, <1>3, <1>4
      DEF QueueAt, UnusedAt, Opened, CourierAt, Ended
  <2> QED  BY <2>1 DEF Queue
<1>8. ListTypes' /\ Reserved' /\ Recorded' /\ Courier' /\ Counted' /\ News'
  BY <1>1
  DEF IInv, ListTypes, Reserved, ReservedAt, Reserving, Recorded, RecordAt,
      RecordedAt, Opened, Courier, CourierAt, Counted, CountedAt, Users, News,
      NewsAt, Ended
<1> QED  BY <1>5, <1>6, <1>7, <1>8 DEF IInv

(* A write begins only when the reader alone uses the socket.              *)
LEMMA PhysWriteKeeps ==
  ASSUME IInv, NEW s \in Sock, PhysWrite(s)
  PROVE  IInv'
<1>1. UNCHANGED <<list, client, stage, reader, writes, ending, shut, closed>>
  BY DEF Shutdown, PhysWrite, listVars, ioVars
<1>2. writer[s] = "idle" /\ queued[s] > 0
  BY DEF IInv, Shutdown, PhysWrite, listVars, ioVars
<1>3. \A x \in Sock : queued'[x] = IF x = s THEN queued[s] - 1 ELSE queued[x]
  BY <1>2
  DEF IInv, IoTypes, Shutdown, PhysWrite, listVars, ioVars
<1>4. \A x \in Sock :
       io'[x] = IF x = s THEN IF io[s] = 1 THEN 2 ELSE io[s] ELSE io[x]
  BY <1>2
  DEF IInv, IoTypes, Shutdown, PhysWrite, listVars, ioVars
<1>5. \A x \in Sock :
       writer'[x] = IF x = s
                    THEN IF io[s] = 1 THEN "writing" ELSE "locked"
                    ELSE writer[x]
  BY <1>2
  DEF IInv, IoTypes, Shutdown, PhysWrite, listVars, ioVars
<1>6. \A x \in Sock :
       /\ (Msg("add-socket", x) \in net' <=> Msg("add-socket", x) \in net)
       /\ (Msg("abort", x) \in net' <=> Msg("abort", x) \in net)
       /\ (Msg("negotiate", x) \in net' <=> Msg("negotiate", x) \in net)
       /\ (Msg("shutdown", x) \in net' <=> Msg("shutdown", x) \in net \/ (x = s /\ io[s] # 1 /\ shut[s] = "none"))
       /\ (Msg("remove", x) \in net' <=> Msg("remove", x) \in net)
  BY Differ, <1>2
  DEF Shutdown, PhysWrite, listVars, ioVars
<1>7. ListTypes'
  <2>1. net' \subseteq Mail
    BY Mails, <1>2
    DEF IInv, ListTypes, Shutdown, PhysWrite, listVars, ioVars
  <2> QED  BY <1>1, <2>1
  DEF IInv, ListTypes
<1>8. IoTypes'
  <2>1. queued' \in [Sock -> Nat]
    BY <1>2
    DEF IInv, IoTypes, Shutdown, PhysWrite, listVars, ioVars
  <2>2. io' \in [Sock -> Int]
    BY <1>2
    DEF IInv, IoTypes, Shutdown, PhysWrite, listVars, ioVars
  <2>3. writer' \in [Sock -> {"idle", "writing", "locked"}]
    BY <1>2
    DEF IInv, IoTypes, Shutdown, PhysWrite, listVars, ioVars
  <2>4. gate' \in [Sock -> BOOLEAN]
    BY <1>2
    DEF IInv, IoTypes, Shutdown, PhysWrite, listVars, ioVars
  <2> QED  BY <1>1, <2>1, <2>2, <2>3, <2>4
  DEF IInv, IoTypes
<1>9. Reserved'
  <2>1. ASSUME NEW x \in Sock  PROVE ReservedAt(x)'
    BY <1>1, <1>2, <1>6, Everywhere, TypesAt, Fields
    DEF ReservedAt, Reserving, CourierAt, Opened, RecordedAt, Ended
  <2> QED  BY <2>1 DEF Reserved
<1>10. Courier'
  <2>1. ASSUME NEW x \in Sock  PROVE CourierAt(x)'
    <3>1. CourierAt(x) /\ UnusedAt(x) /\ NewsAt(x)
          /\ CourierAt(s) /\ UnusedAt(s) /\ NewsAt(s)
      BY Everywhere
    <3> QED
      BY <3>1, TypesAt, <1>1, <1>2, <1>6
      DEF CourierAt, Opened, UnusedAt, NewsAt, Ended
  <2> QED  BY <2>1 DEF Courier
<1>11. Unused'
  <2>1. ASSUME NEW x \in Sock  PROVE UnusedAt(x)'
    <3>1. UnusedAt(x) /\ CourierAt(x)
          /\ UnusedAt(s) /\ CourierAt(s)
      BY Everywhere
    <3> QED
      BY <3>1, TypesAt, <1>1, <1>2, <1>3, <1>4, <1>5
      DEF UnusedAt, Opened, CourierAt, Ended
  <2> QED  BY <2>1 DEF Unused
<1>12. Counted'
  <2>1. ASSUME NEW x \in Sock  PROVE CountedAt(x)'
    <3>1. CountedAt(x) /\ UnusedAt(x) /\ NewsAt(x) /\ CourierAt(x)
          /\ CountedAt(s) /\ UnusedAt(s) /\ NewsAt(s) /\ CourierAt(s)
      BY Everywhere
    <3> QED
      BY <3>1, TypesAt, <1>1, <1>2, <1>4, <1>5
      DEF CountedAt, Users, Opened, UnusedAt, NewsAt, CourierAt, Ended
  <2> QED  BY <2>1 DEF Counted
<1>13. News'
  <2>1. ASSUME NEW x \in Sock  PROVE NewsAt(x)'
    <3>1. NewsAt(x) /\ RecordedAt(x) /\ CourierAt(x) /\ UnusedAt(x) /\ CountedAt(x)
          /\ NewsAt(s) /\ RecordedAt(s) /\ CourierAt(s) /\ UnusedAt(s) /\ CountedAt(s)
      BY Everywhere
    <3> QED
      BY <3>1, TypesAt, <1>1, <1>2, <1>6
      DEF NewsAt, Opened, RecordedAt, CourierAt, UnusedAt, CountedAt, Users, Ended
  <2> QED  BY <2>1 DEF News
<1>14. Queue'
  <2>1. ASSUME NEW x \in Sock  PROVE QueueAt(x)'
    <3>1. QueueAt(x) /\ UnusedAt(x) /\ CourierAt(x)
          /\ QueueAt(s) /\ UnusedAt(s) /\ CourierAt(s)
      BY Everywhere
    <3> QED
      BY <3>1, TypesAt, <1>1, <1>2, <1>3
      DEF QueueAt, UnusedAt, Opened, CourierAt, Ended
  <2> QED  BY <2>1 DEF Queue
<1>15. Recorded'
  BY <1>1
  DEF IInv, Recorded, RecordAt, RecordedAt, Opened, Ended
<1> QED  BY <1>7, <1>8, <1>9, <1>10, <1>11, <1>12, <1>13, <1>14, <1>15 DEF IInv

(* The end of a write is the end of the socket if there is no reader any   *)
(* more.                                                                   *)
LEMMA WriteOkKeeps ==
  ASSUME IInv, NEW s \in Sock, WriteOk(s)
  PROVE  IInv'
<1>1. UNCHANGED <<list, client, stage, net, reader, writes, queued, gate, shut, closed>>
  BY DEF DecrIoCount, WriteOk, listVars, ioVars
<1>2. writer[s] = "writing"
  BY DEF DecrIoCount, WriteOk
<1>3. \A x \in Sock : io'[x] = IF x = s THEN io[s] - 1 ELSE io[x]
  BY <1>2
  DEF IInv, IoTypes, DecrIoCount, WriteOk, listVars, ioVars
<1>4. \A x \in Sock :
       ending'[x] = IF x = s /\ io[s] = 1 THEN "writer" ELSE ending[x]
  BY <1>2
  DEF IInv, IoTypes, DecrIoCount, WriteOk, listVars, ioVars
<1>5. \A x \in Sock :
       writer'[x] = IF x = s THEN IF io[s] = 1 THEN "locked" ELSE "idle" ELSE writer[x]
  BY <1>2
  DEF IInv, IoTypes, DecrIoCount, WriteOk, listVars, ioVars
<1>6. IoTypes'
  <2>1. io' \in [Sock -> Int]
    BY <1>2
    DEF IInv, IoTypes, DecrIoCount, WriteOk, listVars, ioVars
  <2>2. ending' \in [Sock -> {"no", "reader", "writer"}]
    BY <1>2
    DEF IInv, IoTypes, DecrIoCount, WriteOk, listVars, ioVars
  <2>3. writer' \in [Sock -> {"idle", "writing", "locked"}]
    BY <1>2
    DEF IInv, IoTypes, DecrIoCount, WriteOk, listVars, ioVars
  <2> QED  BY <1>1, <2>1, <2>2, <2>3 DEF IInv, IoTypes
<1>7. Recorded'
  <2>1. ASSUME NEW x \in Sock  PROVE RecordedAt(x)'
    <3>1. RecordedAt(x) /\ RecordedAt(s)
      BY Everywhere
    <3> QED  BY <3>1, <1>1, <1>2, <1>3, <1>4, <1>5 DEF RecordedAt, Opened, Ended
  <2>2. \A b \in Addr : RecordAt(b)'
    BY <1>1 DEF IInv, Recorded, RecordAt, Opened
  <2> QED  BY <2>1, <2>2 DEF Recorded
<1>8. Courier'
  <2>1. ASSUME NEW x \in Sock  PROVE CourierAt(x)'
    <3>1. CourierAt(x) /\ UnusedAt(x) /\ NewsAt(x)
          /\ CourierAt(s) /\ UnusedAt(s) /\ NewsAt(s)
      BY Everywhere
    <3> QED
      BY <3>1, TypesAt, <1>1, <1>2, <1>3, <1>4, <1>5
      DEF CourierAt, Opened, UnusedAt, NewsAt, Ended
  <2> QED  BY <2>1 DEF Courier
<1>9. Unused'
  <2>1. ASSUME NEW x \in Sock  PROVE UnusedAt(x)'
    <3>1. UnusedAt(x) /\ CourierAt(x)
          /\ UnusedAt(s) /\ CourierAt(s)
      BY Everywhere
    <3> QED
      BY <3>1, TypesAt, <1>1, <1>2, <1>3, <1>4, <1>5
      DEF UnusedAt, Opened, CourierAt, Ended
  <2> QED  BY <2>1 DEF Unused
<1>10. Counted'
  <2>1. ASSUME NEW x \in Sock  PROVE CountedAt(x)'
    <3>1. CountedAt(x) /\ UnusedAt(x) /\ NewsAt(x) /\ CourierAt(x)
          /\ CountedAt(s) /\ UnusedAt(s) /\ NewsAt(s) /\ CourierAt(s)
      BY Everywhere
    <3> QED
      BY <3>1, TypesAt, <1>1, <1>2, <1>3, <1>4, <1>5
      DEF CountedAt, Users, Opened, UnusedAt, NewsAt, CourierAt, Ended
  <2> QED  BY <2>1 DEF Counted
<1>11. News'
  <2>1. ASSUME NEW x \in Sock  PROVE NewsAt(x)'
    <3>1. NewsAt(x) /\ RecordedAt(x) /\ CourierAt(x) /\ UnusedAt(x) /\ CountedAt(x)
          /\ NewsAt(s) /\ RecordedAt(s) /\ CourierAt(s) /\ UnusedAt(s) /\ CountedAt(s)
      BY Everywhere
    <3> QED
      BY <3>1, TypesAt, <1>1, <1>2, <1>3, <1>4, <1>5, Fields
      DEF NewsAt, Opened, RecordedAt, CourierAt, UnusedAt, CountedAt, Users,
          Ended
  <2> QED  BY <2>1 DEF News
<1>12. Reserved' /\ Queue' /\ ListTypes'
  BY <1>1
  DEF IInv, Reserved, ReservedAt, Reserving,
      Queue, QueueAt,
      ListTypes
<1> QED  BY <1>6, <1>7, <1>8, <1>9, <1>10, <1>11, <1>12 DEF IInv

(* So is its failure, which asks for the shutdown anyway.                  *)
LEMMA WriteFailKeeps ==
  ASSUME IInv, NEW s \in Sock, WriteFail(s)
  PROVE  IInv'
<1>1. UNCHANGED <<list, client, stage, reader, writes, queued, shut, closed>>
  BY DEF DecrIoCount, Shutdown, WriteFail, listVars, ioVars
<1>2. writer[s] = "writing"
  BY DEF DecrIoCount, Shutdown, WriteFail
<1>3. \A x \in Sock : io'[x] = IF x = s THEN io[s] - 1 ELSE io[x]
  BY <1>2
  DEF IInv, IoTypes, DecrIoCount, Shutdown, WriteFail, listVars, ioVars
<1>4. \A x \in Sock :
       ending'[x] = IF x = s /\ io[s] = 1 THEN "writer" ELSE ending[x]
  BY <1>2
  DEF IInv, IoTypes, DecrIoCount, Shutdown, WriteFail, listVars, ioVars
<1>5. \A x \in Sock : writer'[x] = IF x = s THEN "locked" ELSE writer[x]
  BY <1>2
  DEF IInv, IoTypes, DecrIoCount, Shutdown, WriteFail, listVars, ioVars
<1>6. \A x \in Sock :
       /\ (Msg("add-socket", x) \in net' <=> Msg("add-socket", x) \in net)
       /\ (Msg("abort", x) \in net' <=> Msg("abort", x) \in net)
       /\ (Msg("negotiate", x) \in net' <=> Msg("negotiate", x) \in net)
       /\ (Msg("shutdown", x) \in net' <=> Msg("shutdown", x) \in net \/ (x = s /\ io[s] # 1 /\ shut[s] = "none"))
       /\ (Msg("remove", x) \in net' <=> Msg("remove", x) \in net)
  BY Differ, <1>2
  DEF DecrIoCount, Shutdown, WriteFail, listVars, ioVars
<1>7. ListTypes'
  <2>1. net' \subseteq Mail
    BY Mails, <1>2
    DEF IInv, ListTypes, DecrIoCount, Shutdown, WriteFail, listVars, ioVars
  <2> QED  BY <1>1, <2>1 DEF IInv, ListTypes
<1>8. IoTypes'
  <2>1. io' \in [Sock -> Int]
    BY <1>2
    DEF IInv, IoTypes, DecrIoCount, Shutdown, WriteFail, listVars, ioVars
  <2>2. ending' \in [Sock -> {"no", "reader", "writer"}]
    BY <1>2
    DEF IInv, IoTypes, DecrIoCount, Shutdown, WriteFail, listVars, ioVars
  <2>3. writer' \in [Sock -> {"idle", "writing", "locked"}]
    BY <1>2
    DEF IInv, IoTypes, DecrIoCount, Shutdown, WriteFail, listVars, ioVars
  <2>4. gate' \in [Sock -> BOOLEAN]
    BY <1>2
    DEF IInv, IoTypes, DecrIoCount, Shutdown, WriteFail, listVars, ioVars
  <2> QED  BY <1>1, <2>1, <2>2, <2>3, <2>4 DEF IInv, IoTypes
<1>9. Reserved'
  <2>1. ASSUME NEW x \in Sock  PROVE ReservedAt(x)'
    BY <1>1, <1>2, <1>3, <1>4, <1>5, <1>6, Everywhere, TypesAt, Fields
    DEF ReservedAt, Reserving, CourierAt, Opened, RecordedAt, Ended
  <2> QED  BY <2>1 DEF Reserved
<1>10. Recorded'
  <2>1. ASSUME NEW x \in Sock  PROVE RecordedAt(x)'
    <3>1. RecordedAt(x) /\ RecordedAt(s)
      BY Everywhere
    <3> QED  BY <3>1, <1>1, <1>2, <1>3, <1>4, <1>5, <1>6 DEF RecordedAt, Opened, Ended
  <2>2. \A b \in Addr : RecordAt(b)'
    BY <1>1 DEF IInv, Recorded, RecordAt, Opened
  <2> QED  BY <2>1, <2>2 DEF Recorded
<1>11. Courier'
  <2>1. ASSUME NEW x \in Sock  PROVE CourierAt(x)'
    <3>1. CourierAt(x) /\ UnusedAt(x) /\ NewsAt(x)
          /\ CourierAt(s) /\ UnusedAt(s) /\ NewsAt(s)
      BY Everywhere
    <3> QED
      BY <3>1, TypesAt, <1>1, <1>2, <1>3, <1>4, <1>5, <1>6
      DEF CourierAt, Opened, UnusedAt, NewsAt, Ended
  <2> QED  BY <2>1 DEF Courier
<1>12. Unused'
  <2>1. ASSUME NEW x \in Sock  PROVE UnusedAt(x)'
    <3>1. UnusedAt(x) /\ CourierAt(x)
          /\ UnusedAt(s) /\ CourierAt(s)
      BY Everywhere
    <3> QED
      BY <3>1, TypesAt, <1>1, <1>2, <1>3, <1>4, <1>5, <1>6
      DEF UnusedAt, Opened, CourierAt, Ended
  <2> QED  BY <2>1 DEF Unused
<1>13. Counted'
  <2>1. ASSUME NEW x \in Sock  PROVE CountedAt(x)'
    <3>1. CountedAt(x) /\ UnusedAt(x) /\ NewsAt(x) /\ CourierAt(x)
          /\ CountedAt(s) /\ UnusedAt(s) /\ NewsAt(s) /\ CourierAt(s)
      BY Everywhere
    <3> QED
      BY <3>1, TypesAt, <1>1, <1>2, <1>3, <1>4, <1>5, <1>6
      DEF CountedAt, Users, Opened, UnusedAt, NewsAt, CourierAt, Ended
  <2> QED  BY <2>1 DEF Counted
<1>14. News'
  <2>1. ASSUME NEW x \in Sock  PROVE NewsAt(x)'
    <3>1. NewsAt(x) /\ RecordedAt(x) /\ CourierAt(x) /\ UnusedAt(x) /\ CountedAt(x)
          /\ NewsAt(s) /\ RecordedAt(s) /\ CourierAt(s) /\ UnusedAt(s) /\ CountedAt(s)
      BY Everywhere
    <3> QED
      BY <3>1, TypesAt, <1>1, <1>2, <1>3, <1>4, <1>5, <1>6, Fields
      DEF NewsAt, Opened, RecordedAt, CourierAt, UnusedAt, CountedAt, Users,
          Ended
  <2> QED  BY <2>1 DEF News
<1>15. Queue'
  BY <1>1
  DEF IInv, Queue, QueueAt
<1> QED  BY <1>7, <1>8, <1>9, <1>10, <1>11, <1>12, <1>13, <1>14, <1>15 DEF IInv

(* The end of the reader is the end of the socket if no write is under way. *)
LEMMA ReadErrorKeeps ==
  ASSUME IInv, NEW s \in Sock, ReadError(s)
  PROVE  IInv'
<1>1. UNCHANGED <<list, client, stage, net, writes, queued, writer, gate, shut, closed>>
  BY DEF DecrIoCount, ReadError, listVars, ioVars
<1>2. reader[s]
  BY DEF DecrIoCount, ReadError
<1>3. \A x \in Sock : io'[x] = IF x = s THEN io[s] - 1 ELSE io[x]
  BY <1>2
  DEF IInv, IoTypes, DecrIoCount, ReadError, listVars, ioVars
<1>4. \A x \in Sock :
       ending'[x] = IF x = s /\ io[s] = 1 THEN "reader" ELSE ending[x]
  BY <1>2
  DEF IInv, IoTypes, DecrIoCount, ReadError, listVars, ioVars
<1>5. \A x \in Sock : reader'[x] <=> x # s /\ reader[x]
  BY <1>2
  DEF IInv, IoTypes, DecrIoCount, ReadError, listVars, ioVars
<1>6. IoTypes'
  <2>1. io' \in [Sock -> Int]
    BY <1>2
    DEF IInv, IoTypes, DecrIoCount, ReadError, listVars, ioVars
  <2>2. ending' \in [Sock -> {"no", "reader", "writer"}]
    BY <1>2
    DEF IInv, IoTypes, DecrIoCount, ReadError, listVars, ioVars
  <2>3. reader' \in [Sock -> BOOLEAN]
    BY <1>2
    DEF IInv, IoTypes, DecrIoCount, ReadError, listVars, ioVars
  <2> QED  BY <1>1, <2>1, <2>2, <2>3 DEF IInv, IoTypes
<1>7. Recorded'
  <2>1. ASSUME NEW x \in Sock  PROVE RecordedAt(x)'
    <3>1. RecordedAt(x) /\ RecordedAt(s)
      BY Everywhere
    <3> QED  BY <3>1, <1>1, <1>2, <1>3, <1>4, <1>5 DEF RecordedAt, Opened, Ended
  <2>2. \A b \in Addr : RecordAt(b)'
    BY <1>1 DEF IInv, Recorded, RecordAt, Opened
  <2> QED  BY <2>1, <2>2 DEF Recorded
<1>8. Courier'
  <2>1. ASSUME NEW x \in Sock  PROVE CourierAt(x)'
    <3>1. CourierAt(x) /\ UnusedAt(x) /\ NewsAt(x)
          /\ CourierAt(s) /\ UnusedAt(s) /\ NewsAt(s)
      BY Everywhere
    <3> QED
      BY <3>1, TypesAt, <1>1, <1>2, <1>3, <1>4, <1>5
      DEF CourierAt, Opened, UnusedAt, NewsAt, Ended
  <2> QED  BY <2>1 DEF Courier
<1>9. Unused'
  <2>1. ASSUME NEW x \in Sock  PROVE UnusedAt(x)'
    <3>1. UnusedAt(x) /\ CourierAt(x)
          /\ UnusedAt(s) /\ CourierAt(s)
      BY Everywhere
    <3> QED
      BY <3>1, TypesAt, <1>1, <1>2, <1>3, <1>4, <1>5
      DEF UnusedAt, Opened, CourierAt, Ended
  <2> QED  BY <2>1 DEF Unused
<1>10. Counted'
  <2>1. ASSUME NEW x \in Sock  PROVE CountedAt(x)'
    <3>1. CountedAt(x) /\ UnusedAt(x) /\ NewsAt(x) /\ CourierAt(x)
          /\ CountedAt(s) /\ UnusedAt(s) /\ NewsAt(s) /\ CourierAt(s)
      BY Everywhere
    <3> QED
      BY <3>1, TypesAt, <1>1, <1>2, <1>3, <1>4, <1>5
      DEF CountedAt, Users, Opened, UnusedAt, NewsAt, CourierAt, Ended
  <2> QED  BY <2>1 DEF Counted
<1>11. News'
  <2>1. ASSUME NEW x \in Sock  PROVE NewsAt(x)'
    <3>1. NewsAt(x) /\ RecordedAt(x) /\ CourierAt(x) /\ UnusedAt(x) /\ CountedAt(x)
          /\ NewsAt(s) /\ RecordedAt(s) /\ CourierAt(s) /\ UnusedAt(s) /\ CountedAt(s)
      BY Everywhere
    <3> QED
      BY <3>1, TypesAt, <1>1, <1>2, <1>3, <1>4, <1>5, Fields
      DEF NewsAt, Opened, RecordedAt, CourierAt, UnusedAt, CountedAt, Users,
          Ended
  <2> QED  BY <2>1 DEF News
<1>12. Reserved' /\ Queue' /\ ListTypes'
  BY <1>1
  DEF IInv, Reserved, ReservedAt, Reserving,
      Queue, QueueAt,
      ListTypes
<1> QED  BY <1>6, <1>7, <1>8, <1>9, <1>10, <1>11, <1>12 DEF IInv

(* The callback closes the socket, and the shutdown is asked for.          *)
LEMMA CloseKeeps ==
  ASSUME IInv, NEW s \in Sock, Close(s)
  PROVE  IInv'
<1>1. UNCHANGED <<list, client, stage, io, reader, writes, queued, writer, shut>>
  BY DEF Shutdown, Close, listVars, ioVars
<1>2. ending[s] # "no"
  BY DEF Shutdown, Close
<1>3. \A x \in Sock : ending'[x] = IF x = s THEN "no" ELSE ending[x]
  BY <1>2
  DEF IInv, IoTypes, Shutdown, Close, listVars, ioVars
<1>4. \A x \in Sock : closed'[x] = {} <=> closed[x] = {} /\ x # s
  BY <1>2
  DEF IInv, IoTypes, Shutdown, Close, listVars, ioVars
<1>5. \A x \in Sock :
       /\ (Msg("add-socket", x) \in net' <=> Msg("add-socket", x) \in net)
       /\ (Msg("abort", x) \in net' <=> Msg("abort", x) \in net)
       /\ (Msg("negotiate", x) \in net' <=> Msg("negotiate", x) \in net)
       /\ (Msg("shutdown", x) \in net' <=> Msg("shutdown", x) \in net \/ (x = s /\ shut[s] = "none"))
       /\ (Msg("remove", x) \in net' <=> Msg("remove", x) \in net)
  BY Differ, <1>2
  DEF Shutdown, Close, listVars, ioVars
<1>6. ListTypes'
  <2>1. net' \subseteq Mail
    BY Mails, <1>2
    DEF IInv, ListTypes, Shutdown, Close, listVars, ioVars
  <2> QED  BY <1>1, <2>1 DEF IInv, ListTypes
<1>7. IoTypes'
  <2>1. ending' \in [Sock -> {"no", "reader", "writer"}]
    BY <1>2
    DEF IInv, IoTypes, Shutdown, Close, listVars, ioVars
  <2>2. closed' \in [Sock -> SUBSET {"graceful", "abort"}]
    BY <1>2
    DEF IInv, IoTypes, Shutdown, Close, listVars, ioVars
  <2>3. gate' \in [Sock -> BOOLEAN]
    BY <1>2
    DEF IInv, IoTypes, Shutdown, Close, listVars, ioVars
  <2> QED  BY <1>1, <2>1, <2>2, <2>3 DEF IInv, IoTypes
<1>8. Reserved'
  <2>1. ASSUME NEW x \in Sock  PROVE ReservedAt(x)'
    BY <1>1, <1>2, <1>3, <1>4, <1>5, Everywhere, TypesAt, Fields
    DEF ReservedAt, Reserving, CourierAt, Opened, RecordedAt, Ended
  <2> QED  BY <2>1 DEF Reserved
<1>9. Recorded'
  <2>1. ASSUME NEW x \in Sock  PROVE RecordedAt(x)'
    <3>1. RecordedAt(x) /\ RecordedAt(s)
      BY Everywhere
    <3> QED  BY <3>1, <1>1, <1>2, <1>3, <1>4, <1>5 DEF RecordedAt, Opened, Ended
  <2>2. \A b \in Addr : RecordAt(b)'
    BY <1>1 DEF IInv, Recorded, RecordAt, Opened
  <2> QED  BY <2>1, <2>2 DEF Recorded
<1>10. Courier'
  <2>1. ASSUME NEW x \in Sock  PROVE CourierAt(x)'
    <3>1. CourierAt(x) /\ UnusedAt(x) /\ NewsAt(x)
          /\ CourierAt(s) /\ UnusedAt(s) /\ NewsAt(s)
      BY Everywhere
    <3> QED
      BY <3>1, TypesAt, <1>1, <1>2, <1>3, <1>4, <1>5
      DEF CourierAt, Opened, UnusedAt, NewsAt, Ended
  <2> QED  BY <2>1 DEF Courier
<1>11. Unused'
  <2>1. ASSUME NEW x \in Sock  PROVE UnusedAt(x)'
    <3>1. UnusedAt(x) /\ CourierAt(x)
          /\ UnusedAt(s) /\ CourierAt(s)
      BY Everywhere
    <3> QED
      BY <3>1, TypesAt, <1>1, <1>2, <1>3, <1>4, <1>5
      DEF UnusedAt, Opened, CourierAt, Ended
  <2> QED  BY <2>1 DEF Unused
<1>12. Counted'
  <2>1. ASSUME NEW x \in Sock  PROVE CountedAt(x)'
    <3>1. CountedAt(x) /\ UnusedAt(x) /\ NewsAt(x) /\ CourierAt(x)
          /\ CountedAt(s) /\ UnusedAt(s) /\ NewsAt(s) /\ CourierAt(s)
      BY Everywhere
    <3> QED
      BY <3>1, TypesAt, <1>1, <1>2, <1>3, <1>4, <1>5
      DEF CountedAt, Users, Opened, UnusedAt, NewsAt, CourierAt, Ended
  <2> QED  BY <2>1 DEF Counted
<1>13. News'
  <2>1. ASSUME NEW x \in Sock  PROVE NewsAt(x)'
    <3>1. NewsAt(x) /\ RecordedAt(x) /\ CourierAt(x) /\ UnusedAt(x) /\ CountedAt(x)
          /\ NewsAt(s) /\ RecordedAt(s) /\ CourierAt(s) /\ UnusedAt(s) /\ CountedAt(s)
      BY Everywhere
    <3> QED
      BY <3>1, TypesAt, <1>1, <1>2, <1>3, <1>4, <1>5, Fields
      DEF NewsAt, Opened, RecordedAt, CourierAt, UnusedAt, CountedAt, Users,
          Ended
  <2> QED  BY <2>1 DEF News
<1>14. Queue'
  BY <1>1
  DEF IInv, Queue, QueueAt
<1> QED  BY <1>6, <1>7, <1>8, <1>9, <1>10, <1>11, <1>12, <1>13, <1>14 DEF IInv

(* The timer asks for a shutdown that has not begun.                       *)
LEMMA KillTimerKeeps ==
  ASSUME IInv, NEW s \in Sock, KillTimer(s)
  PROVE  IInv'
<1>1. ListTypes'
  BY Places, Mails
  DEF IInv, ListTypes, IoTypes, Shutdown, KillTimer, listVars, ioVars
<1>2. Reserved'
  BY Places, Differ
  DEF IInv, ListTypes, IoTypes, Reserved, ReservedAt, Reserving, Recorded,
      RecordAt, RecordedAt, Opened, Courier, CourierAt, Shutdown, KillTimer,
      listVars, ioVars, Ended
<1>3. Courier'
  BY Differ
  DEF IInv, ListTypes, IoTypes, Courier, CourierAt, Opened, Unused, UnusedAt,
      News, NewsAt, Shutdown, KillTimer, listVars, ioVars, Ended
<1>4. News'
  BY Places, Differ
  DEF IInv, ListTypes, IoTypes, News, NewsAt, Opened, Recorded, RecordAt,
      RecordedAt, Courier, CourierAt, Unused, UnusedAt, Counted, CountedAt,
      Users, Shutdown, KillTimer, listVars, ioVars, Ended
<1>5. IoTypes' /\ Recorded' /\ Unused' /\ Counted' /\ Queue'
  BY DEF IInv, IoTypes, Recorded, RecordAt, RecordedAt, Opened, Unused,
      UnusedAt, Counted, CountedAt, Users, Queue, QueueAt, KillTimer,
      listVars, ioVars, Ended
<1> QED  BY <1>1, <1>2, <1>3, <1>4, <1>5 DEF IInv

(* The shutdown begins with the count of I/O as it finds it.               *)
LEMMA ShutdownBeginKeeps ==
  ASSUME IInv, NEW s \in Sock, ShutdownBegin(s)
  PROVE  IInv'
<1>1. UNCHANGED <<list, client, stage, io, reader, writes, queued, writer, gate, ending, closed>>
  BY DEF Replace, ShutdownBegin, listVars, ioVars
<1>2. Msg("shutdown", s) \in net
  BY DEF IInv, Replace, ShutdownBegin, listVars, ioVars
<1>3. \A x \in Sock :
       /\ (Msg("add-socket", x) \in net' <=> Msg("add-socket", x) \in net)
       /\ (Msg("abort", x) \in net' <=> Msg("abort", x) \in net)
       /\ (Msg("negotiate", x) \in net' <=> Msg("negotiate", x) \in net)
       /\ (Msg("shutdown", x) \in net' <=> Msg("shutdown", x) \in net /\ x # s)
       /\ (Msg("remove", x) \in net' <=> Msg("remove", x) \in net)
  BY Differ, <1>2
  DEF Replace, ShutdownBegin, listVars, ioVars
<1>4. \A x \in Sock :
       shut'[x] = IF x = s
                  THEN IF io[s] = 0 THEN "zero" ELSE "nonzero"
                  ELSE shut[x]
  BY <1>2
  DEF IInv, IoTypes, Replace, ShutdownBegin, listVars, ioVars
<1>5. ListTypes'
  <2>1. net' \subseteq Mail
    BY Mails, <1>2
    DEF IInv, ListTypes, Replace, ShutdownBegin, listVars, ioVars
  <2> QED  BY <1>1, <2>1
  DEF IInv, ListTypes
<1>6. IoTypes'
  <2>1. shut' \in [Sock -> {"none", "zero", "nonzero", "reset", "done"}]
    BY <1>2
    DEF IInv, IoTypes, Replace, ShutdownBegin, listVars, ioVars
  <2> QED  BY <1>1, <2>1
  DEF IInv, IoTypes
<1>7. Reserved'
  <2>1. ASSUME NEW x \in Sock  PROVE ReservedAt(x)'
    BY <1>1, <1>2, <1>3, Everywhere, TypesAt, Fields
    DEF ReservedAt, Reserving, CourierAt, Opened, RecordedAt, Ended
  <2> QED  BY <2>1 DEF Reserved
<1>8. Courier'
  <2>1. ASSUME NEW x \in Sock  PROVE CourierAt(x)'
    <3>1. CourierAt(x) /\ UnusedAt(x) /\ NewsAt(x)
          /\ CourierAt(s) /\ UnusedAt(s) /\ NewsAt(s)
      BY Everywhere
    <3> QED
      BY <3>1, TypesAt, <1>1, <1>2, <1>3, <1>4
      DEF CourierAt, Opened, UnusedAt, NewsAt, Ended
  <2> QED  BY <2>1 DEF Courier
<1>9. Unused'
  <2>1. ASSUME NEW x \in Sock  PROVE UnusedAt(x)'
    <3>1. UnusedAt(x) /\ CourierAt(x)
          /\ UnusedAt(s) /\ CourierAt(s)
      BY Everywhere
    <3> QED
      BY <3>1, TypesAt, <1>1, <1>2, <1>4
      DEF UnusedAt, Opened, CourierAt, Ended
  <2> QED  BY <2>1 DEF Unused
<1>10. News'
  <2>1. ASSUME NEW x \in Sock  PROVE NewsAt(x)'
    <3>1. NewsAt(x) /\ RecordedAt(x) /\ CourierAt(x) /\ UnusedAt(x) /\ CountedAt(x)
          /\ NewsAt(s) /\ RecordedAt(s) /\ CourierAt(s) /\ UnusedAt(s) /\ CountedAt(s)
      BY Everywhere
    <3> QED
      BY <3>1, TypesAt, <1>1, <1>2, <1>3, <1>4
      DEF NewsAt, Opened, RecordedAt, CourierAt, UnusedAt, CountedAt, Users, Ended
  <2> QED  BY <2>1 DEF News
<1>11. Queue'
  <2>1. ASSUME NEW x \in Sock  PROVE QueueAt(x)'
    <3>1. QueueAt(x) /\ UnusedAt(x) /\ CourierAt(x)
          /\ QueueAt(s) /\ UnusedAt(s) /\ CourierAt(s)
      BY Everywhere
    <3> QED
      BY <3>1, TypesAt, <1>1, <1>2, <1>4
      DEF QueueAt, UnusedAt, Opened, CourierAt, Ended
  <2> QED  BY <2>1 DEF Queue
<1>12. Counted'
  <2>1. ASSUME NEW x \in Sock  PROVE CountedAt(x)'
    <3>1. CountedAt(x) /\ CourierAt(s)
      BY Everywhere
    <3> QED
      BY <3>1, <1>1, <1>2, <1>4
      DEF CountedAt, CourierAt, Opened, Users, Ended
  <2> QED  BY <2>1 DEF Counted
<1>13. Recorded'
  BY <1>1
  DEF IInv, Recorded, RecordAt, RecordedAt, Opened, Ended
<1> QED  BY <1>5, <1>6, <1>7, <1>8, <1>9, <1>10, <1>11, <1>12, <1>13 DEF IInv

(* The shutdown sets the count, whoever still uses the socket.             *)
LEMMA ShutdownResetKeeps ==
  ASSUME IInv, NEW s \in Sock, ShutdownReset(s)
  PROVE  IInv'
<1>1. UNCHANGED <<list, client, stage, net, reader, writes, queued, writer, gate, ending, closed>>
  BY DEF ShutdownReset, listVars, ioVars
<1>2. shut[s] = "nonzero"
  BY DEF ShutdownReset
<1>3. \A x \in Sock : shut'[x] = IF x = s THEN "reset" ELSE shut[x]
  BY <1>2
  DEF IInv, IoTypes, ShutdownReset, listVars, ioVars
<1>4. \A x \in Sock : io'[x] = IF x = s THEN 0 ELSE io[x]
  BY <1>2
  DEF IInv, IoTypes, ShutdownReset, listVars, ioVars
<1>5. IoTypes'
  <2>1. io' \in [Sock -> Int]
    BY <1>2
    DEF IInv, IoTypes, ShutdownReset, listVars, ioVars
  <2>2. shut' \in [Sock -> {"none", "zero", "nonzero", "reset", "done"}]
    BY <1>2
    DEF IInv, IoTypes, ShutdownReset, listVars, ioVars
  <2> QED  BY <1>1, <2>1, <2>2 DEF IInv, IoTypes
<1>6. Courier'
  <2>1. ASSUME NEW x \in Sock  PROVE CourierAt(x)'
    <3>1. CourierAt(x) /\ UnusedAt(x) /\ NewsAt(x)
          /\ CourierAt(s) /\ UnusedAt(s) /\ NewsAt(s)
      BY Everywhere
    <3> QED
      BY <3>1, TypesAt, <1>1, <1>2, <1>3, <1>4
      DEF CourierAt, Opened, UnusedAt, NewsAt, Ended
  <2> QED  BY <2>1 DEF Courier
<1>7. Unused'
  <2>1. ASSUME NEW x \in Sock  PROVE UnusedAt(x)'
    <3>1. UnusedAt(x) /\ CourierAt(x)
          /\ UnusedAt(s) /\ CourierAt(s)
      BY Everywhere
    <3> QED
      BY <3>1, TypesAt, <1>1, <1>2, <1>3, <1>4
      DEF UnusedAt, Opened, CourierAt, Ended
  <2> QED  BY <2>1 DEF Unused
<1>8. Counted'
  <2>1. ASSUME NEW x \in Sock  PROVE CountedAt(x)'
    <3>1. CountedAt(x) /\ UnusedAt(x) /\ NewsAt(x) /\ CourierAt(x)
          /\ CountedAt(s) /\ UnusedAt(s) /\ NewsAt(s) /\ CourierAt(s)
      BY Everywhere
    <3> QED
      BY <3>1, TypesAt, <1>1, <1>2, <1>3, <1>4
      DEF CountedAt, Users, Opened, UnusedAt, NewsAt, CourierAt, Ended
  <2> QED  BY <2>1 DEF Counted
<1>9. News'
  <2>1. ASSUME NEW x \in Sock  PROVE NewsAt(x)'
    <3>1. NewsAt(x) /\ RecordedAt(x) /\ CourierAt(x) /\ UnusedAt(x) /\ CountedAt(x)
          /\ NewsAt(s) /\ RecordedAt(s) /\ CourierAt(s) /\ UnusedAt(s) /\ CountedAt(s)
      BY Everywhere
    <3> QED
      BY <3>1, TypesAt, <1>1, <1>2, <1>3, <1>4, Fields
      DEF NewsAt, Opened, RecordedAt, CourierAt, UnusedAt, CountedAt, Users,
          Ended
  <2> QED  BY <2>1 DEF News
<1>10. Queue'
  <2>1. ASSUME NEW x \in Sock  PROVE QueueAt(x)'
    <3>1. QueueAt(x) /\ UnusedAt(x) /\ CourierAt(x)
          /\ QueueAt(s) /\ UnusedAt(s) /\ CourierAt(s)
      BY Everywhere
    <3> QED
      BY <3>1, TypesAt, <1>1, <1>2, <1>3, <1>4
      DEF QueueAt, UnusedAt, Opened, CourierAt, Ended
  <2> QED  BY <2>1 DEF Queue
<1>11. Reserved' /\ Recorded' /\ ListTypes'
  BY <1>1
  DEF IInv, Reserved, ReservedAt, Reserving,
      Recorded, RecordAt, RecordedAt, Opened, Ended,
      ListTypes
<1> QED  BY <1>5, <1>6, <1>7, <1>8, <1>9, <1>10, <1>11 DEF IInv

(* The shutdown leaves the socket at its end, and tells the list.          *)
LEMMA ShutdownEndKeeps ==
  ASSUME IInv, NEW s \in Sock, ShutdownEnd(s)
  PROVE  IInv'
<1>1. UNCHANGED <<list, client, stage, io, reader, writes, writer, gate, ending>>
  BY DEF ShutdownEnd, listVars, ioVars
<1>2. shut[s] \in {"zero", "reset"}
  BY DEF ShutdownEnd
<1>3. \A x \in Sock : shut'[x] = IF x = s THEN "done" ELSE shut[x]
  BY <1>2
  DEF IInv, IoTypes, ShutdownEnd, listVars, ioVars
<1>4. \A x \in Sock : closed'[x] = {} <=> closed[x] = {} /\ ~(x = s /\ shut[s] = "reset")
  BY <1>2
  DEF IInv, IoTypes, ShutdownEnd, listVars, ioVars
<1>5. \A x \in Sock :
       queued'[x] = IF x = s /\ gate[s] THEN queued[s] + 1 ELSE queued[x]
  BY <1>2
  DEF IInv, IoTypes, ShutdownEnd, listVars, ioVars
<1>6. \A x \in Sock :
       /\ (Msg("add-socket", x) \in net' <=> Msg("add-socket", x) \in net)
       /\ (Msg("abort", x) \in net' <=> Msg("abort", x) \in net)
       /\ (Msg("negotiate", x) \in net' <=> Msg("negotiate", x) \in net)
       /\ (Msg("shutdown", x) \in net' <=> Msg("shutdown", x) \in net)
       /\ (Msg("remove", x) \in net' <=> Msg("remove", x) \in net \/ x = s)
  BY Differ, <1>2
  DEF ShutdownEnd, listVars, ioVars
<1>7. ListTypes'
  <2>1. net' \subseteq Mail
    BY Mails, <1>2
    DEF IInv, ListTypes, ShutdownEnd, listVars, ioVars
  <2> QED  BY <1>1, <2>1 DEF IInv, ListTypes
<1>8. IoTypes'
  <2>1. shut' \in [Sock -> {"none", "zero", "nonzero", "reset", "done"}]
    BY <1>2
    DEF IInv, IoTypes, ShutdownEnd, listVars, ioVars
  <2>2. closed' \in [Sock -> SUBSET {"graceful", "abort"}]
    BY <1>2
    DEF IInv, IoTypes, ShutdownEnd, listVars, ioVars
  <2>3. queued' \in [Sock -> Nat]
    BY <1>2
    DEF IInv, IoTypes, ShutdownEnd, listVars, ioVars
  <2> QED  BY <1>1, <2>1, <2>2, <2>3 DEF IInv, IoTypes
<1>9. Reserved'
  <2>1. ASSUME NEW x \in Sock  PROVE ReservedAt(x)'
    BY <1>1, <1>2, <1>3, <1>4, <1>5, <1>6, Everywhere, TypesAt, Fields
    DEF ReservedAt, Reserving, CourierAt, Opened, RecordedAt, Ended
  <2> QED  BY <2>1 DEF Reserved
<1>10. Recorded'
  <2>1. ASSUME NEW x \in Sock  PROVE RecordedAt(x)'
    <3>1. RecordedAt(x) /\ RecordedAt(s)
      BY Everywhere
    <3> QED  BY <3>1, <1>1, <1>2, <1>3, <1>4, <1>5, <1>6 DEF RecordedAt, Opened, Ended
  <2>2. \A b \in Addr : RecordAt(b)'
    BY <1>1 DEF IInv, Recorded, RecordAt, Opened
  <2> QED  BY <2>1, <2>2 DEF Recorded
<1>11. Courier'
  <2>1. ASSUME NEW x \in Sock  PROVE CourierAt(x)'
    <3>1. CourierAt(x) /\ UnusedAt(x) /\ NewsAt(x)
          /\ CourierAt(s) /\ UnusedAt(s) /\ NewsAt(s)
      BY Everywhere
    <3> QED
      BY <3>1, TypesAt, <1>1, <1>2, <1>3, <1>4, <1>5, <1>6
      DEF CourierAt, Opened, UnusedAt, NewsAt, Ended
  <2> QED  BY <2>1 DEF Courier
<1>12. Unused'
  <2>1. ASSUME NEW x \in Sock  PROVE UnusedAt(x)'
    <3>1. UnusedAt(x) /\ CourierAt(x)
          /\ UnusedAt(s) /\ CourierAt(s)
      BY Everywhere
    <3> QED
      BY <3>1, TypesAt, <1>1, <1>2, <1>3, <1>4, <1>5, <1>6
      DEF UnusedAt, Opened, CourierAt, Ended
  <2> QED  BY <2>1 DEF Unused
<1>13. Counted'
  <2>1. ASSUME NEW x \in Sock  PROVE CountedAt(x)'
    <3>1. CountedAt(x) /\ UnusedAt(x) /\ NewsAt(x) /\ CourierAt(x)
          /\ CountedAt(s) /\ UnusedAt(s) /\ NewsAt(s) /\ CourierAt(s)
      BY Everywhere
    <3> QED
      BY <3>1, TypesAt, <1>1, <1>2, <1>3, <1>4, <1>5, <1>6
      DEF CountedAt, Users, Opened, UnusedAt, NewsAt, CourierAt, Ended
  <2> QED  BY <2>1 DEF Counted
<1>14. News'
  <2>1. ASSUME NEW x \in Sock  PROVE NewsAt(x)'
    <3>1. NewsAt(x) /\ RecordedAt(x) /\ CourierAt(x) /\ UnusedAt(x) /\ CountedAt(x)
          /\ NewsAt(s) /\ RecordedAt(s) /\ CourierAt(s) /\ UnusedAt(s) /\ CountedAt(s)
      BY Everywhere
    <3> QED
      BY <3>1, TypesAt, <1>1, <1>2, <1>3, <1>4, <1>5, <1>6, Fields
      DEF NewsAt, Opened, RecordedAt, CourierAt, UnusedAt, CountedAt, Users,
          Ended
  <2> QED  BY <2>1 DEF News
<1>15. Queue'
  <2>1. ASSUME NEW x \in Sock  PROVE QueueAt(x)'
    <3>1. QueueAt(x) /\ UnusedAt(x) /\ CourierAt(x)
          /\ QueueAt(s) /\ UnusedAt(s) /\ CourierAt(s)
      BY Everywhere
    <3> QED
      BY <3>1, TypesAt, <1>1, <1>2, <1>3, <1>4, <1>5, <1>6
      DEF QueueAt, UnusedAt, Opened, CourierAt, Ended
  <2> QED  BY <2>1 DEF Queue
<1> QED  BY <1>7, <1>8, <1>9, <1>10, <1>11, <1>12, <1>13, <1>14, <1>15 DEF IInv

(* What changes nothing keeps the invariant.                               *)
LEMMA QuietKeeps ==
  ASSUME IInv, UNCHANGED vars
  PROVE  IInv'
BY DEF vars, IInv, ListTypes, IoTypes, Reserved, ReservedAt, Reserving, Recorded,
  RecordAt, RecordedAt, Courier, CourierAt, Unused, UnusedAt, Counted, CountedAt,
  Users, News, NewsAt, Queue, QueueAt, Opened, Ended

(* Nothing is recorded, opened or under way at first.                      *)
LEMMA InitInv == Init => IInv
<1> SUFFICES ASSUME Init PROVE IInv
  OBVIOUS
<1>1. ListTypes
  BY DEF Init, ListTypes
<1>2. IoTypes
  BY DEF Init, IoTypes
<1>3. ASSUME NEW x \in Sock
      PROVE  /\ ReservedAt(x) /\ RecordedAt(x) /\ CourierAt(x) /\ UnusedAt(x)
             /\ CountedAt(x) /\ NewsAt(x) /\ QueueAt(x)
  <2>1. MaxWrites[x] \in Nat
    BY SocketAssumption
  <2> QED
    BY <2>1 DEF Init, ReservedAt, Reserving, RecordedAt, CourierAt, UnusedAt,
      CountedAt, NewsAt, QueueAt, Opened, Ended
<1>4. \A a \in Addr : RecordAt(a)
  BY DEF Init, RecordAt
<1> QED
  BY <1>1, <1>2, <1>3, <1>4
  DEF IInv, Reserved, Recorded, Courier, Unused, Counted, News, Queue

(* Every step of the clients, the list, the sockets and their I/O.         *)
LEMMA NextKeeps == IInv /\ [Next]_vars => IInv'
<1> SUFFICES ASSUME IInv, [Next]_vars PROVE IInv'
  OBVIOUS
<1>1. ASSUME NEW c \in Client, FindNone(c) \/ FindRec(c)  PROVE IInv'
  BY <1>1, FindNoneKeeps, FindRecKeeps
<1>2. ASSUME NEW s \in Sock, AddServer(s) \/ Connect(s) \/ HandshakeDone(s)
      PROVE  IInv'
  BY <1>2, AddServerKeeps, ConnectKeeps, HandshakeDoneKeeps
<1>3. ASSUME NEW s \in Sock, ListStep(s)  PROVE IInv'
  BY <1>3, AddSocketKeeps, AbortKeeps, NegotiateKeeps, SetChannelKeeps, RemoveKeeps
  DEF ListStep
<1>4. ASSUME NEW s \in Sock,
             \/ Write(s) \/ PhysWrite(s) \/ WriteOk(s) \/ WriteFail(s)
             \/ ReadError(s) \/ Close(s)
      PROVE  IInv'
  BY <1>4, WriteKeeps, PhysWriteKeeps, WriteOkKeeps, WriteFailKeeps, ReadErrorKeeps,
     CloseKeeps
<1>5. ASSUME NEW s \in Sock, KillTimer(s) \/ ShutStep(s)  PROVE IInv'
  BY <1>5, KillTimerKeeps, ShutdownBeginKeeps, ShutdownResetKeeps,
     ShutdownEndKeeps
  DEF ShutStep
<1>6. ASSUME UNCHANGED vars  PROVE IInv'
  BY <1>6, QuietKeeps
<1> QED  BY <1>1, <1>2, <1>3, <1>4, <1>5, <1>6 DEF Next, Quiet

(* The invariant holds of every state that the code can reach.             *)
THEOREM Invariance == Spec => []IInv
<1> QED  BY InitInv, NextKeeps, PTL DEF Spec

(* What the invariant says of the users of a socket bounds its count.      *)
LEMMA InvTypes == IInv => TypeOK
<1> SUFFICES ASSUME IInv PROVE TypeOK
  OBVIOUS
<1>1. ASSUME NEW x \in Sock  PROVE io[x] \in -2..2
  <2>1. CountedAt(x) /\ UnusedAt(x)
    BY Everywhere
  <2>2. Users(x) \in 0..2
    BY DEF Users
  <2> QED  BY <2>1, <2>2, TypesAt DEF CountedAt, UnusedAt, Ended
<1>2. ASSUME NEW x \in Sock
      PROVE  writes[x] <= MaxWrites[x] /\ queued[x] <= MaxWrites[x] + 1
  <2>1. QueueAt(x)
    BY Everywhere
  <2> QED  BY <2>1, TypesAt DEF QueueAt
<1>3. io \in [Sock -> -2..2]
  BY <1>1 DEF IInv, IoTypes
<1> QED  BY <1>2, <1>3 DEF IInv, ListTypes, IoTypes, TypeOK

(* The variables of the connections and of their I/O keep to their types;  *)
(* the count of I/O runs neither up nor far below zero.                    *)
THEOREM TypeCorrect == Spec => []TypeOK
<1> QED  BY Invariance, InvTypes, PTL

(* FIND-SOCKET, ADD-SERVER and ADD-SOCKET: of two sockets to one address   *)
(* one is closed, or its callback is about to close it.                    *)
THEOREM OneSocket == Spec => []OneSocketPerAddress
<1>1. IInv => OneSocketPerAddress
  <2> SUFFICES ASSUME IInv, NEW s \in Sock, NEW t \in Sock,
                      Peer[s] = Peer[t], Live(s), Live(t)
               PROVE  s = t
    BY DEF OneSocketPerAddress
  <2>1. /\ ReservedAt(s) /\ RecordedAt(s)
        /\ ReservedAt(t) /\ RecordedAt(t)
    BY Everywhere
  <2> QED  BY <2>1, Fields DEF Live, Ended, ReservedAt, Reserving, RecordedAt
<1> QED  BY <1>1, Invariance, PTL

(* IO-RUNNING: changed by the reader, the writer and the shutdown, it      *)
(* counts those who use the socket until it is closed or the shutdown sets *)
(* it, and lets no write begin afterwards.                                 *)
THEOREM CountedRight == Spec => []CountsTheUsers
<1>1. IInv => CountsTheUsers
  <2> SUFFICES ASSUME IInv, NEW s \in Sock, Opened(s)
               PROVE  IF closed[s] = {} /\ shut[s] # "reset"
                        THEN io[s] = Users(s) ELSE io[s] < 1
    BY DEF CountsTheUsers
  <2>1. CountedAt(s)
    BY Everywhere
  <2> QED  BY <2>1 DEF CountedAt, Ended
<1> QED  BY <1>1, Invariance, PTL

(* A socket that is closed in any of the ways there are does not stay on   *)
(* the list of connections without news of it on the way.                  *)
THEOREM ClosedNews == Spec => []ClosedIsNews
<1>1. IInv => ClosedIsNews
  <2> SUFFICES ASSUME IInv, NEW s \in Sock, closed[s] # {}, NEW a \in Addr,
                      list[a] # NoRec, list[a].state = s
               PROVE  \/ Msg("shutdown", s) \in net \/ Msg("remove", s) \in net
                      \/ shut[s] \in {"zero", "nonzero", "reset"}
    BY DEF ClosedIsNews
  <2>1. RecordAt(a)
    BY DEF IInv, Recorded
  <2>2. Opened(s) /\ Peer[s] = a
    BY <2>1, Fields DEF RecordAt
  <2>3. NewsAt(s)
    BY Everywhere
  <2> QED  BY <2>2, <2>3, TypesAt DEF NewsAt
<1> QED  BY <1>1, Invariance, PTL
=============================================================================
