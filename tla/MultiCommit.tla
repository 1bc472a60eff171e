---------------------------- MODULE MultiCommit -----------------------------
(***************************************************************************)
(* Sessions over several key-value stores (actors-extra/multi-commit.lisp) *)
(* next to clients that update one store optimistically.                   *)
(*                                                                         *)
(* A session asks every store for its id, or gives it one, takes the       *)
(* exclusive commits of the stores one after the other in the order of     *)
(* these ids, has an action Actor work on the copies that came with the    *)
(* grants, and lets the stores go, all with :COMMIT or all with :ABORT.    *)
(*                                                                         *)
(* The stores are those of module KVDB.  Its answers carry the database,   *)
(* so that reading it and travelling back are one step here; a message     *)
(* that a busy gate stashes is one that waits until the gate is free.      *)
(***************************************************************************)
EXTENDS Naturals, Sequences

CONSTANTS
  Session, Writer,  (* clients: sessions, and updates of one store         *)
  Store,
  Needs,      (* Needs[c]: the stores that c works on                      *)
  Uuid,       (* Uuid[c][s]: the id that session c would give to store s   *)
  None        (* no owner, no verdict                                      *)

Client == Session \cup Writer

ASSUME NeedsAssumption ==
  /\ Session \cap Writer = {} /\ None \notin Client \cup {"commit", "abort"}
  /\ Needs \in [Client -> (SUBSET Store) \ {{}}]
  /\ \A w \in Writer : \E s \in Store : Needs[w] = {s}
  /\ Uuid \in [Session -> [Store -> Nat \ {0}]]
  /\ \A c, d \in Session, s, t \in Store :
       Uuid[c][s] = Uuid[d][t] => <<c, s>> = <<d, t>>

VARIABLES
  db,         (* db[s]: [log, id], who changed it in which order; its      *)
              (* KVDB-SEQUENCE, 0 if it has none                           *)
  owner,      (* owner[s]: the session that owns the commits, or None      *)
  net,        (* messages to the stores                                    *)
  pc,         (* pc[c]: how far client c is                                *)
  left,       (* left[c]: the stores whose answer c still waits for        *)
  found,      (* found[c][s]: the id of s that c was told, or 0            *)
  base,       (* base[c][s]: the database that c's change is made from     *)
  said,       (* said[c]: messages of the action Actor to c's handler      *)
  verdict     (* verdict[c]: what the handler has all stores do            *)

vars == <<db, owner, net, pc, left, found, base, said, verdict>>

NoDb == [log |-> <<>>, id |-> 0]

(* Stores are made with an id (INIT-KVDB), older files may have none.      *)
Init ==
  /\ \E c \in Session, old \in SUBSET Store :
       db = [s \in Store |-> [log |-> <<>>, id |-> IF s \in old THEN 0 ELSE Uuid[c][s]]]
  /\ owner = [s \in Store |-> None]
  /\ net = {}
  /\ pc = [c \in Client |-> "start"]
  /\ left = [c \in Client |-> {}]
  /\ found = [c \in Client |-> [s \in Store |-> 0]]
  /\ base = [c \in Client |-> [s \in Store |-> NoDb]]
  /\ said = [c \in Client |-> {}]
  /\ verdict = [c \in Client |-> None]

To(s, c, kind) == [at |-> s, from |-> c, kind |-> kind]

Changed(d, c) == [d EXCEPT !.log = Append(@, c)]

(* :FIND-OR-ADD of the id, for a session; :ADD of something, for a writer. *)
Updated(d, c, s) ==
  IF c \in Writer THEN Changed(d, c)
  ELSE IF d.id = 0 THEN [d EXCEPT !.id = Uuid[c][s]]
  ELSE d

(* A commit of a copy of d, to be tried again if d is not present any more.*)
Try(c, s, d) ==
  [at |-> s, from |-> c, kind |-> "commit", old |-> d, new |-> Updated(d, c, s)]

-----------------------------------------------------------------------------
(* Clients.                                                                *)

(* MULTI-COMMIT, SORT-KVDBS: ask all stores for their ids at once.         *)
Start(c) ==
  /\ pc[c] = "start"
  /\ pc' = [pc EXCEPT ![c] = IF c \in Session THEN "sorting" ELSE "writing"]
  /\ left' = [left EXCEPT ![c] = Needs[c]]
  /\ net' = net \cup { To(s, c, "req") : s \in Needs[c] }
  /\ UNCHANGED <<db, owner, found, base, said, verdict>>

(* Mutant: in the order of the ids that c would give.                      *)
ForemostOwn(c, stores) ==
  { s \in stores : \A t \in stores : Uuid[c][s] <= Uuid[c][t] }

(* The next store in the order of the ids that c was told.                 *)
Foremost(c, stores) ==
  { s \in stores : \A t \in stores : found[c][s] <= found[c][t] }

(* EXCL-COMMITS, the request for the next store.                           *)
AskNext(c, stores) == { To(s, c, "req-excl") : s \in Foremost(c, stores) }

Sorted(c) ==
  /\ pc[c] = "sorting" /\ left[c] = {}
  /\ pc' = [pc EXCEPT ![c] = "taking"]
  /\ left' = [left EXCEPT ![c] = Needs[c]]
  /\ net' = net \cup AskNext(c, Needs[c])
  /\ UNCHANGED <<db, owner, found, base, said, verdict>>

(* All stores are held.  The action Actor answers the handler, in its own  *)
(* time, and perhaps twice.                                                *)
Act(c) ==
  /\ pc[c] = "taking" /\ left[c] = {}
  /\ pc' = [pc EXCEPT ![c] = "acted"]
  /\ said' \in { [said EXCEPT ![c] = vs] : vs \in (SUBSET {"commit", "abort"}) \ {{}} }
  /\ UNCHANGED <<db, owner, net, left, found, base, verdict>>

Closing(c, v) ==
  { IF v = "abort" THEN To(s, c, "abort")
    ELSE [at |-> s, from |-> c, kind |-> "own-commit",
          old |-> base[c][s], new |-> Changed(base[c][s], c)] : s \in Needs[c] }

(* Mutant: the handler listens to a second answer.                         *)
TerminateEach(c) ==
  \E v \in said[c] :
    /\ said' = [said EXCEPT ![c] = @ \ {v}]
    /\ verdict' = [verdict EXCEPT ![c] = v]
    /\ pc' = [pc EXCEPT ![c] = "ending"]
    /\ left' = [left EXCEPT ![c] = Needs[c]]
    /\ net' = net \cup Closing(c, v)
    /\ UNCHANGED <<db, owner, found, base>>

(* TERMINATE-SESSION: the handler takes one answer and is a sink then.  It *)
(* tells all stores at once.                                               *)
Terminate(c) ==
  \E v \in said[c] :
    /\ said' = [said EXCEPT ![c] = {}]
    /\ verdict' = [verdict EXCEPT ![c] = v]
    /\ pc' = [pc EXCEPT ![c] = "ending"]
    /\ left' = [left EXCEPT ![c] = Needs[c]]
    /\ net' = net \cup Closing(c, v)
    /\ UNCHANGED <<db, owner, found, base>>

(* Mutant: told at the first answer.                                       *)
ToldEarly(c) ==
  /\ pc[c] \in {"ending", "writing"} /\ (left[c] = {} \/ left[c] # Needs[c])
  /\ pc' = [pc EXCEPT ![c] = "told"]
  /\ UNCHANGED <<db, owner, net, left, found, base, said, verdict>>

(* The answers of all stores are there: :OK to the customer.               *)
Told(c) ==
  /\ pc[c] \in {"ending", "writing"} /\ left[c] = {}
  /\ pc' = [pc EXCEPT ![c] = "told"]
  /\ UNCHANGED <<db, owner, net, left, found, base, said, verdict>>

-----------------------------------------------------------------------------
(* The gates of the stores.  Message m is handled, ms are sent.            *)

Handle(m, ms) == net' = (net \ {m}) \cup ms

Answer(m) == left' = [left EXCEPT ![m.from] = @ \ {m.at}]

(* :REQ, of any state of the gate.                                         *)
GateReq(m) ==
  /\ m.kind = "req"
  /\ Handle(m, {Try(m.from, m.at, db[m.at])})
  /\ UNCHANGED <<db, owner, left, found, base>>

(* An optimistic commit, when the gate is free.                            *)
GateCommit(m) ==
  /\ m.kind = "commit" /\ owner[m.at] = None
  /\ \/ /\ m.old = db[m.at]
        /\ Handle(m, {})
        /\ Answer(m)
        /\ db' = [db EXCEPT ![m.at] = m.new]
        /\ base' = [base EXCEPT ![m.from][m.at] = m.old]
        /\ found' = [found EXCEPT ![m.from][m.at] = m.new.id]
     \/ /\ m.old # db[m.at]
        /\ Handle(m, {Try(m.from, m.at, db[m.at])})
        /\ UNCHANGED <<db, left, found, base>>
  /\ UNCHANGED owner

(* :REQ-EXCL, granted: the session goes on with its next store.            *)
GateReqExcl(m) ==
  /\ m.kind = "req-excl" /\ owner[m.at] = None
  /\ owner' = [owner EXCEPT ![m.at] = m.from]
  /\ base' = [base EXCEPT ![m.from][m.at] = db[m.at]]
  /\ Answer(m)
  /\ Handle(m, AskNext(m.from, left[m.from] \ {m.at}))
  /\ UNCHANGED <<db, found>>

(* The owner commits or aborts, which frees the gate.                      *)
GateOwner(m) ==
  /\ owner[m.at] = m.from
  /\ \/ /\ m.kind = "own-commit" /\ m.old = db[m.at]
        /\ db' = [db EXCEPT ![m.at] = m.new]
     \/ /\ m.kind = "abort"
        /\ UNCHANGED db
  /\ owner' = [owner EXCEPT ![m.at] = None]
  /\ Answer(m)
  /\ Handle(m, {})
  /\ UNCHANGED <<found, base>>

GateStep(c, s) ==
  /\ \E m \in net :
       /\ m.from = c /\ m.at = s
       /\ GateReq(m) \/ GateCommit(m) \/ GateReqExcl(m) \/ GateOwner(m)
  /\ UNCHANGED <<pc, said, verdict>>

ClientStep(c) == Start(c) \/ Sorted(c) \/ Act(c) \/ Terminate(c) \/ Told(c)

Finished == \A c \in Client : pc[c] = "told"

Next ==
  \/ \E c \in Client : ClientStep(c) \/ \E s \in Store : GateStep(c, s)
  \/ Finished /\ UNCHANGED vars

Spec == Init /\ [][Next]_vars

(* Messages are handled, and action Actors answer, as they must.           *)
FairSpec ==
  /\ Spec
  /\ \A c \in Client :
       /\ WF_vars(ClientStep(c))
       /\ \A s \in Store : WF_vars(GateStep(c, s))
-----------------------------------------------------------------------------
(* The outcome of a client: what it worked on.                             *)
Outcome(how, saw) == [how |-> how, saw |-> saw]
Saw(c, log) == Outcome("committed", { <<s, log[s]>> : s \in Needs[c] })
NoOutcome(how) == Outcome(how, {})

(* What the stores hold, once the commits under way have arrived.          *)
Contents(s) ==
  LET c == owner[s]
  IN IF c # None /\ verdict[c] = "commit" THEN Append(db[s].log, c) ELSE db[s].log

Happened(c) ==
  CASE verdict[c] = "abort" -> NoOutcome("aborted")
    [] verdict[c] = "commit" \/ (c \in Writer /\ pc[c] # "start" /\ left[c] = {}) ->
         Saw(c, [s \in Store |-> base[c][s].log])
    [] OTHER -> NoOutcome("pending")

Abstract == INSTANCE AtomicMap WITH
  map <- [s \in Store |-> Contents(s)],
  outcome <- [c \in Client |-> Happened(c)],
  Pending <- NoOutcome("pending"), Aborted <- NoOutcome("aborted"),
  Empty <- [s \in Store |-> <<>>],
  Outcome <- Saw,
  Effect <- LAMBDA c, map :
    [s \in Store |-> IF s \in Needs[c] THEN Append(map[s], c) ELSE map[s]]

(* Sessions and single updates together look like transactions that happen *)
(* one at a time, each on all of its stores or, aborted, on none: what a   *)
(* session worked on was present in all of its stores at one instant, and  *)
(* nothing is overwritten (multi-commit.lisp:50-66).                       *)
SessionsAreAtomic == Abstract!Spec

(* "At the end" the customer is told (multi-commit.lisp:137-138): by then  *)
(* each store is free of the session and has its changes, or none of them. *)
OkWhenDone ==
  \A c \in Session : pc[c] = "told" =>
    \A s \in Needs[c] :
      /\ owner[s] # c
      /\ verdict[c] = "commit" <=> \E i \in DOMAIN db[s].log : db[s].log[i] = c

(* Sessions do not wait for each other for ever, since all of them take    *)
(* the stores in one order, though ids may be given while they start       *)
(* (multi-commit.lisp:19-21, 31-48, 68-84).                                *)
SessionsEnd == \A c \in Client : pc[c] # "start" ~> pc[c] = "told"
=============================================================================
