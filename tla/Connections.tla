---------------------------- MODULE Connections -----------------------------
(***************************************************************************)
(* The sockets of secure-channel/network-connection-ss.lisp: the list of   *)
(* connections, which clients ask for the channel to an address and which  *)
(* opens a socket if there is none; the start of a socket and the          *)
(* negotiation of its secure channel; its writer, behind a gate and a      *)
(* SERIALIZER, its reader, and the shutdown that errors, the peer and the  *)
(* inactivity timer lead to.                                               *)
(*                                                                         *)
(* The count IO-RUNNING of a socket is changed by compare-and-swap and     *)
(* atomic decrement in the threads of Actors and of the I/O callbacks; the *)
(* callback that takes it to zero closes the socket in a step of its own.  *)
(* The shutdown reads the count, sets it and aborts in three steps.        *)
(***************************************************************************)
EXTENDS Integers

CONSTANTS
  Client,     (* those who ask for a channel, each once                    *)
  Sock,       (* bound: the sockets that may be opened                     *)
  Addr,       (* the addresses                                             *)
  Wants,      (* Wants[c]: the address a client asks for                   *)
  Peer,       (* Peer[s]: the address a socket leads to                    *)
  Accepted,   (* the sockets opened by a peer, the others are opened by us *)
  NoSock,     (* the absence of a socket                                   *)
  NoRec,      (* the absence of a record                                   *)
  MaxWrites   (* bound: MaxWrites[s] writes to a socket                    *)

ASSUME SocketAssumption ==
  /\ Wants \in [Client -> Addr] /\ Peer \in [Sock -> Addr]
  /\ Accepted \subseteq Sock /\ NoSock \notin Sock /\ MaxWrites \in [Sock -> Nat]
  /\ NoRec \notin [state : Sock \cup {NoSock}, pending : BOOLEAN, chan : Sock \cup {NoSock},
                   custs : SUBSET Client]

VARIABLES
  list,       (* list[a]: the CONNECTION-REC for address a, or NoRec       *)
  client,     (* client[c]: idle, waiting, told, nil: told that there is   *)
              (* no channel, or dropped together with its record           *)
  stage,      (* stage[s]: how far a socket is on its way to its channel   *)
  net,        (* messages to the list and to the socket's Actors           *)
  io,         (* io[s]: IO-RUNNING                                         *)
  reader,     (* reader[s]: whether the asynchronous reader runs           *)
  writes,     (* writes[s]: the writes made                                *)
  queued,     (* queued[s]: those at the SERIALIZER                        *)
  writer,     (* writer[s]: idle, writing, or locked up                    *)
  gate,       (* gate[s]: whether the writer's gate is open                *)
  ending,     (* ending[s]: the callback that has taken the count to zero  *)
              (* and has yet to close the socket: no, reader or writer     *)
  shut,       (* shut[s]: how far the shutdown is; it is wrapped in a ONCE *)
  closed      (* closed[s]: the ways in which the socket was closed        *)

vars == <<list, client, stage, net, io, reader, writes, queued, writer, gate, ending,
          shut, closed>>

listVars == <<list, client>>
ioVars == <<io, reader, writes, queued, writer, gate, ending, shut, closed>>

Rec == [state : Sock \cup {NoSock}, pending : BOOLEAN, chan : Sock \cup {NoSock},
        custs : SUBSET Client]

Mail == [kind : {"add-socket", "abort", "negotiate", "set-channel", "remove", "shutdown"},
         sock : Sock]
Msg(kind, s) == [kind |-> kind, sock |-> s]
Replace(m, ms) == net' = (net \ {m}) \cup ms

Opened(s) == stage[s] \in {"open", "handshake", "secured"}

(* A request for the shutdown.  It is wrapped in a ONCE, to which any      *)
(* request but the first is nothing.                                       *)
Shutdown(s) == IF shut[s] = "none" THEN {Msg("shutdown", s)} ELSE {}

Init ==
  /\ list   = [a \in Addr |-> NoRec]
  /\ client = [c \in Client |-> "idle"]
  /\ stage  = [s \in Sock |-> "none"]
  /\ net    = {}
  /\ io     = [s \in Sock |-> 1]
  /\ reader = [s \in Sock |-> FALSE]
  /\ writes = [s \in Sock |-> 0]
  /\ queued = [s \in Sock |-> 0]
  /\ writer = [s \in Sock |-> "idle"]
  /\ gate   = [s \in Sock |-> TRUE]
  /\ ending = [s \in Sock |-> "no"]
  /\ shut   = [s \in Sock |-> "none"]
  /\ closed = [s \in Sock |-> {}]

NewRec(s, pending, custs) ==
  [state |-> s, pending |-> pending, chan |-> NoSock, custs |-> custs]
-----------------------------------------------------------------------------
(* Mutant: no place is reserved while the connection is made.              *)
FindUnreserved(c) ==
  LET a == Wants[c]
  IN /\ client[c] = "idle" /\ list[a] = NoRec
     /\ \E s \in Sock \ Accepted :
          /\ Peer[s] = a /\ stage[s] = "none"
          /\ stage' = [stage EXCEPT ![s] = "connecting"]
     /\ client' = [client EXCEPT ![c] = "waiting"]
     /\ UNCHANGED <<list, net, ioVars>>

(* :FIND-SOCKET with no record yet: make one and connect.                  *)
FindNone(c) ==
  LET a == Wants[c]
  IN /\ client[c] = "idle" /\ list[a] = NoRec
     /\ \E s \in Sock \ Accepted :
          /\ Peer[s] = a /\ stage[s] = "none"
          /\ stage' = [stage EXCEPT ![s] = "connecting"]
     /\ list' = [list EXCEPT ![a] = NewRec(NoSock, FALSE, {c})]
     /\ client' = [client EXCEPT ![c] = "waiting"]
     /\ UNCHANGED <<net, ioVars>>

(* :FIND-SOCKET with a record: join those who wait, or get the channel,    *)
(* which is NIL if the peer has opened the socket.                         *)
FindRec(c) ==
  LET a == Wants[c]
  IN /\ client[c] = "idle" /\ list[a] # NoRec
     /\ \/ /\ list[a].custs # {}
           /\ list' = [list EXCEPT ![a].custs = @ \cup {c}]
           /\ client' = [client EXCEPT ![c] = "waiting"]
        \/ /\ list[a].custs = {}
           /\ client' = [client EXCEPT ![c] = IF list[a].chan = NoSock THEN "nil" ELSE "told"]
           /\ UNCHANGED list
     /\ UNCHANGED <<stage, net, ioVars>>

(* :ADD-SERVER, for a peer that connects.                                  *)
AddServer(s) ==
  LET a == Peer[s]
  IN /\ s \in Accepted /\ stage[s] = "none"
     /\ \/ /\ list[a] # NoRec
           /\ stage' = [stage EXCEPT ![s] = "refused"]
           /\ closed' = [closed EXCEPT ![s] = {"abort"}]
           /\ UNCHANGED <<list, net>>
        \/ /\ list[a] = NoRec
           /\ list' = [list EXCEPT ![a] = NewRec(NoSock, TRUE, {})]
           /\ stage' = [stage EXCEPT ![s] = "adding"]
           /\ net' = net \cup {Msg("add-socket", s)}
           /\ UNCHANGED closed
     /\ UNCHANGED <<client, io, reader, writes, queued, writer, gate, ending, shut>>

(* MAKE-SOCKET-CONNECTION: the attempt to connect succeeds or fails.       *)
Connect(s) ==
  /\ stage[s] = "connecting"
  /\ \/ /\ stage' = [stage EXCEPT ![s] = "adding"]
        /\ net' = net \cup {Msg("add-socket", s)}
     \/ /\ stage' = [stage EXCEPT ![s] = "failed"]
        /\ net' = net \cup {Msg("abort", s)}
  /\ UNCHANGED <<listVars, ioVars>>

(* The customers of a record that is removed are told nothing.             *)
Drop(custs) == client' = [c \in Client |-> IF c \in custs THEN "dropped" ELSE client[c]]

(* Mutant: an address is given up while its customers stay on the list.    *)
AbortOnly(s) ==
  /\ Msg("abort", s) \in net
  /\ Replace(Msg("abort", s), {})
  /\ UNCHANGED <<list, client, stage, ioVars>>

(* :ABORT "leaves all waiting custs hanging".                              *)
Abort(s) ==
  LET a == Peer[s]
  IN /\ Msg("abort", s) \in net
     /\ list' = [list EXCEPT ![a] = NoRec]
     /\ IF list[a] = NoRec THEN UNCHANGED client ELSE Drop(list[a].custs)
     /\ Replace(Msg("abort", s), {})
     /\ UNCHANGED <<stage, ioVars>>

(* :ADD-SOCKET; another socket on the record is shut down.  Its :OK lets   *)
(* CREATE-SOCKET-INTF start the timer and the reader, and the client's     *)
(* side ask for the negotiation.                                           *)
AddSocket(s) ==
  LET r   == list[Peer[s]]
      old == IF r = NoRec THEN {} ELSE {r.state} \ {NoSock, s}
  IN /\ Msg("add-socket", s) \in net
     /\ list' = [list EXCEPT ![Peer[s]] =
                   IF r = NoRec \/ r.pending THEN NewRec(s, FALSE, {}) ELSE [r EXCEPT !.state = s]]
     /\ stage' = [stage EXCEPT ![s] = "open"]
     /\ reader' = [reader EXCEPT ![s] = TRUE]
     /\ Replace(Msg("add-socket", s),
                (UNION {Shutdown(o) : o \in old})
                  \cup (IF s \in Accepted THEN {} ELSE {Msg("negotiate", s)}))
     /\ UNCHANGED <<client, io, writes, queued, writer, gate, ending, shut, closed>>

(* :NEGOTIATE starts the handshake if there is still a record.             *)
Negotiate(s) ==
  /\ Msg("negotiate", s) \in net
  /\ stage' = [stage EXCEPT ![s] =
                 IF list[Peer[s]] # NoRec /\ list[Peer[s]].state = s THEN "handshake" ELSE @]
  /\ Replace(Msg("negotiate", s), {})
  /\ UNCHANGED <<listVars, ioVars>>

(* The answer of the peer has been read, the channel is made.              *)
HandshakeDone(s) ==
  /\ stage[s] = "handshake" /\ reader[s]
  /\ stage' = [stage EXCEPT ![s] = "secured"]
  /\ net' = net \cup {Msg("set-channel", s)}
  /\ UNCHANGED <<listVars, ioVars>>

(* :SET-CHANNEL tells all who wait.                                        *)
SetChannel(s) ==
  LET r == list[Peer[s]]
  IN /\ Msg("set-channel", s) \in net
     /\ IF r # NoRec /\ r.state = s
          THEN /\ list' = [list EXCEPT ![Peer[s]].chan = s, ![Peer[s]].custs = {}]
               /\ client' = [c \in Client |-> IF c \in r.custs THEN "told" ELSE client[c]]
          ELSE UNCHANGED listVars
     /\ Replace(Msg("set-channel", s), {})
     /\ UNCHANGED <<stage, ioVars>>

(* :REMOVE, by the state of the socket.                                    *)
Remove(s) ==
  LET r == list[Peer[s]]
  IN /\ Msg("remove", s) \in net
     /\ IF r # NoRec /\ r.state = s
          THEN list' = [list EXCEPT ![Peer[s]] = NoRec] /\ Drop(r.custs)
          ELSE UNCHANGED listVars
     /\ Replace(Msg("remove", s), {})
     /\ UNCHANGED <<stage, ioVars>>
-----------------------------------------------------------------------------
(* A message for the socket, through the gate to the SERIALIZER.           *)
Write(s) ==
  /\ Opened(s) /\ writes[s] < MaxWrites[s]
  /\ writes' = [writes EXCEPT ![s] = @ + 1]
  /\ queued' = [queued EXCEPT ![s] = IF gate[s] THEN @ + 1 ELSE @]
  /\ UNCHANGED <<listVars, stage, net, io, reader, writer, gate, ending, shut, closed>>

(* Mutant: it is asked whether the reader runs, but the write not counted. *)
PhysWriteUncounted(s) ==
  /\ writer[s] = "idle" /\ queued[s] > 0
  /\ queued' = [queued EXCEPT ![s] = @ - 1]
  /\ \/ /\ io[s] = 1
        /\ writer' = [writer EXCEPT ![s] = "writing"]
        /\ UNCHANGED <<io, net, gate>>
     \/ /\ io[s] # 1
        /\ writer' = [writer EXCEPT ![s] = "locked"]
        /\ gate' = [gate EXCEPT ![s] = FALSE]
        /\ net' = net \cup Shutdown(s)
        /\ UNCHANGED io
  /\ UNCHANGED <<listVars, stage, reader, writes, ending, shut, closed>>

(* PHYSICAL-WRITER-BEH, one message at a time: write while the reader      *)
(* runs, else end the connection and leave the SERIALIZER locked up.       *)
PhysWrite(s) ==
  /\ writer[s] = "idle" /\ queued[s] > 0
  /\ queued' = [queued EXCEPT ![s] = @ - 1]
  /\ \/ /\ io[s] = 1
        /\ io' = [io EXCEPT ![s] = 2]
        /\ writer' = [writer EXCEPT ![s] = "writing"]
        /\ UNCHANGED <<net, gate>>
     \/ /\ io[s] # 1
        /\ writer' = [writer EXCEPT ![s] = "locked"]
        /\ gate' = [gate EXCEPT ![s] = FALSE]
        /\ net' = net \cup Shutdown(s)
        /\ UNCHANGED io
  /\ UNCHANGED <<listVars, stage, reader, writes, ending, shut, closed>>

(* The decrement in DECR-IO-COUNT; who takes the count to zero is to close *)
(* the socket, and has not done it yet.                                    *)
DecrIoCount(s, who) ==
  /\ io' = [io EXCEPT ![s] = @ - 1]
  /\ ending' = [ending EXCEPT ![s] = IF io[s] = 1 THEN who ELSE @]

(* FINISH-OK: go on with the next message, or end if there is no reader.   *)
WriteOk(s) ==
  /\ writer[s] = "writing"
  /\ DecrIoCount(s, "writer")
  /\ writer' = [writer EXCEPT ![s] = IF io[s] = 1 THEN "locked" ELSE "idle"]
  /\ UNCHANGED <<listVars, stage, net, reader, writes, queued, gate, shut, closed>>

(* FINISH-FAIL ends the connection, at once or after the closing.          *)
WriteFail(s) ==
  /\ writer[s] = "writing"
  /\ DecrIoCount(s, "writer")
  /\ writer' = [writer EXCEPT ![s] = "locked"]
  /\ IF io[s] = 1
       THEN UNCHANGED <<gate, net>>
       ELSE /\ gate' = [gate EXCEPT ![s] = FALSE]
            /\ net' = net \cup Shutdown(s)
  /\ UNCHANGED <<listVars, stage, reader, writes, queued, shut, closed>>

(* Mutant: the reader is not finished when it finds an error.              *)
ReadErrorGoesOn(s) ==
  /\ reader[s]
  /\ DecrIoCount(s, "reader")
  /\ UNCHANGED <<listVars, stage, net, reader, writes, queued, writer, gate, shut, closed>>

(* RD-CALLBACK-FN with an error, or the end of what the peer sends.        *)
ReadError(s) ==
  /\ reader[s]
  /\ reader' = [reader EXCEPT ![s] = FALSE]
  /\ DecrIoCount(s, "reader")
  /\ UNCHANGED <<listVars, stage, net, writes, queued, writer, gate, shut, closed>>

(* Mutant: the last to go closes the socket and says nothing.              *)
CloseSilent(s) ==
  /\ ending[s] # "no"
  /\ ending' = [ending EXCEPT ![s] = "no"]
  /\ closed' = [closed EXCEPT ![s] = @ \cup {"graceful"}]
  /\ gate' = [gate EXCEPT ![s] = @ /\ ending[s] # "writer"]
  /\ UNCHANGED <<listVars, stage, net, io, reader, writes, queued, writer, shut>>

(* The rest of DECR-IO-COUNT, where the count was zero: close the socket   *)
(* and ask for the shutdown, whatever has happened since the decrement.    *)
(* The writer then ends the connection.                                    *)
Close(s) ==
  /\ ending[s] # "no"
  /\ ending' = [ending EXCEPT ![s] = "no"]
  /\ closed' = [closed EXCEPT ![s] = @ \cup {"graceful"}]
  /\ gate' = [gate EXCEPT ![s] = @ /\ ending[s] # "writer"]
  /\ net' = net \cup Shutdown(s)
  /\ UNCHANGED <<listVars, stage, io, reader, writes, queued, writer, shut>>

(* The timer of MAKE-KILL-TIMER, which the shutdown discards.              *)
KillTimer(s) ==
  /\ Opened(s) /\ shut[s] = "none"
  /\ net' = net \cup Shutdown(s)
  /\ UNCHANGED <<listVars, stage, ioVars>>

(* The shutdown finds IO-RUNNING zero or not ...                           *)
ShutdownBegin(s) ==
  /\ Msg("shutdown", s) \in net
  /\ Replace(Msg("shutdown", s), {})
  /\ shut' = [shut EXCEPT ![s] = IF io[s] = 0 THEN "zero" ELSE "nonzero"]
  /\ UNCHANGED <<listVars, stage, io, reader, writes, queued, writer, gate, ending, closed>>

(* ... acts on what it found, whatever has happened since: sets the count, *)
ShutdownReset(s) ==
  /\ shut[s] = "nonzero"
  /\ shut' = [shut EXCEPT ![s] = "reset"]
  /\ io' = [io EXCEPT ![s] = 0]
  /\ UNCHANGED <<listVars, stage, net, reader, writes, queued, writer, gate, ending, closed>>

(* Mutant: a socket whose count was zero already stays on the list.        *)
ShutdownEndSome(s) ==
  /\ shut[s] \in {"zero", "reset"}
  /\ shut' = [shut EXCEPT ![s] = "done"]
  /\ IF shut[s] = "reset"
       THEN /\ closed' = [closed EXCEPT ![s] = @ \cup {"abort"}]
            /\ net' = net \cup {Msg("remove", s)}
       ELSE UNCHANGED <<closed, net>>
  /\ queued' = [queued EXCEPT ![s] = IF gate[s] THEN @ + 1 ELSE @]
  /\ UNCHANGED <<listVars, stage, io, reader, writes, writer, gate, ending>>

(* ... and then aborts the socket.  Its SENDs go when it ends: to the      *)
(* list, and to the writer, for which :DISCARD is one more message.        *)
ShutdownEnd(s) ==
  /\ shut[s] \in {"zero", "reset"}
  /\ shut' = [shut EXCEPT ![s] = "done"]
  /\ closed' = [closed EXCEPT ![s] = IF shut[s] = "reset" THEN @ \cup {"abort"} ELSE @]
  /\ queued' = [queued EXCEPT ![s] = IF gate[s] THEN @ + 1 ELSE @]
  /\ net' = net \cup {Msg("remove", s)}
  /\ UNCHANGED <<listVars, stage, io, reader, writes, writer, gate, ending>>
-----------------------------------------------------------------------------
ListStep(s) == \/ AddSocket(s) \/ Abort(s) \/ Negotiate(s) \/ SetChannel(s) \/ Remove(s)
ShutStep(s) == \/ ShutdownBegin(s) \/ ShutdownReset(s) \/ ShutdownEnd(s)

(* Nothing need happen any more: the sockets are idle or closed.           *)
Quiet == net = {} /\ UNCHANGED vars

Next == \/ \E c \in Client : FindNone(c) \/ FindRec(c)
        \/ \E s \in Sock : \/ AddServer(s) \/ Connect(s) \/ HandshakeDone(s) \/ ListStep(s)
                           \/ Write(s) \/ PhysWrite(s) \/ WriteOk(s) \/ WriteFail(s)
                           \/ ReadError(s) \/ Close(s) \/ KillTimer(s) \/ ShutStep(s)
        \/ Quiet

Spec == Init /\ [][Next]_vars

(* Messages are handled, an attempt to connect has a timeout, and threads  *)
(* go on: a callback that is to close does so, a shutdown ends.  The       *)
(* inactivity timer fires if nothing is read any more: nothing that makes  *)
(* it start again can then happen for ever.  Neither the peer's answer nor *)
(* the end of a write is relied on.                                        *)
FairSpec ==
  /\ Spec
  /\ \A s \in Sock : /\ WF_vars(ListStep(s)) /\ WF_vars(Connect(s))
                     /\ WF_vars(ShutStep(s)) /\ WF_vars(Close(s))
                     /\ WF_vars(~reader[s] /\ KillTimer(s))
-----------------------------------------------------------------------------
(* The variables keep to their types: CONNECTION-REC and INTF-STATE hold   *)
(* what their slots are for, and the count of I/O neither runs up nor      *)
(* below the reader and the one writer that it stands for.                 *)
TypeOK ==
  /\ list \in [Addr -> Rec \cup {NoRec}]
  /\ client \in [Client -> {"idle", "waiting", "told", "nil", "dropped"}]
  /\ stage \in [Sock -> {"none", "connecting", "adding", "refused", "failed",
                         "open", "handshake", "secured"}]
  /\ net \subseteq Mail
  /\ io \in [Sock -> -2..2] /\ reader \in [Sock -> BOOLEAN] /\ gate \in [Sock -> BOOLEAN]
  /\ writes \in [Sock -> Nat] /\ queued \in [Sock -> Nat]
  /\ \A s \in Sock : writes[s] <= MaxWrites[s] /\ queued[s] <= MaxWrites[s] + 1
  /\ writer \in [Sock -> {"idle", "writing", "locked"}]
  /\ ending \in [Sock -> {"no", "reader", "writer"}]
  /\ shut \in [Sock -> {"none", "zero", "nonzero", "reset", "done"}]
  /\ closed \in [Sock -> SUBSET {"graceful", "abort"}]

(* The list reserves the place of an address while its socket is made, and *)
(* keeps it while the socket is in use: of two sockets to one address, one *)
(* is closed or at its end, its count zero and its callback about to close *)
(* it, however clients, peers, failures and shutdowns meet.                *)
Live(s) == /\ stage[s] = "connecting" \/ stage[s] = "adding" \/ Opened(s)
           /\ closed[s] = {} /\ ending[s] = "no"
OneSocketPerAddress ==
  \A s, t \in Sock : Peer[s] = Peer[t] /\ Live(s) /\ Live(t) => s = t

(* IO-RUNNING stands for those who use the socket: until it is closed, or  *)
(* the shutdown has set the count, it counts the reader and the write      *)
(* under way, so that neither of them is left with a socket closed by the  *)
(* other; and from then on the count never again lets a write begin.       *)
Users(s) == (IF reader[s] THEN 1 ELSE 0) + (IF writer[s] = "writing" THEN 1 ELSE 0)
CountsTheUsers ==
  \A s \in Sock :
    Opened(s) => IF closed[s] = {} /\ shut[s] # "reset" THEN io[s] = Users(s) ELSE io[s] < 1

(* A closed socket does not stay on the list of connections, where its     *)
(* dead channel would be given to clients for ever: the news is on its way *)
(* for as long as the record is there.                                     *)
ClosedIsNews ==
  \A s \in Sock :
    closed[s] # {} /\ (\E a \in Addr : list[a] # NoRec /\ list[a].state = s)
      => \/ Msg("shutdown", s) \in net \/ Msg("remove", s) \in net
         \/ shut[s] \in {"zero", "nonzero", "reset"}

(* A client stays on a record for ever only if the peer never answers on a *)
(* socket which is still read: whatever else goes wrong, the record gets   *)
(* its channel or is removed.  (When it is removed the client is dropped,  *)
(* and told nothing.)                                                      *)
WaitsOnlyForPeer ==
  \A c \in Client :
    []<>(client[c] = "waiting" =>
           \E s \in Sock : Peer[s] = Wants[c] /\ stage[s] = "handshake" /\ reader[s])

(* A socket that is not read any more is closed and off the list in the    *)
(* end, though a write on it may hang: the inactivity timer sees to it.    *)
DeafIsRemoved ==
  \A s \in Sock :
    (Opened(s) /\ ~reader[s]) ~>
      (closed[s] # {} /\ \A a \in Addr : list[a] # NoRec => list[a].state # s)
=============================================================================
