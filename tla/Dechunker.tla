----------------------------- MODULE Dechunker ------------------------------
(***************************************************************************)
(* The last stages of a secure reader (secure-bridging.lisp, SECURE-READER,*)
(* and encoding.lisp): the check for replayed packets, and the dechunker,  *)
(* which puts large messages together again.  A message is sent as one     *)
(* :PASS packet, or as an :INIT and several :CHUNKs.                       *)
(*                                                                         *)
(* The dechunker is a chain of Actors, one for each message it has seen a  *)
(* chunk of; it ends with one that is for no message yet.  Packets travel  *)
(* along the chain until somebody takes them.  An assembler counts chunks  *)
(* and leaves the copying of each to an Actor of its own, a REPLACER.      *)
(*                                                                         *)
(* Packets may be delivered many times, and all messages between the Actors*)
(* may overtake one another (module Dispatcher).                           *)
(***************************************************************************)
EXTENDS Naturals, Sequences, FiniteSets

CONSTANTS
  Small,      (* the messages sent in one packet                           *)
  Large,      (* the messages sent in chunks                               *)
  Chunks,     (* the number of chunks of a large message                   *)
  Resent,     (* the chunked messages whose INIT and first chunk the other *)
              (* end sends twice, under numbers of their own               *)
  Window      (* bound: the packets and chunks under way at a time         *)

(* MCReader assumes this of the instance.                                 *)
DechunkAssumption ==
  Chunks \in Nat \ {0, 1} /\ Small \cap Large = {} /\ Resent \subseteq Large

Kind == {"pass", "init", "chunk"}
Packet ==
  { p \in [nr : 1 .. 2, kind : Kind, id : Small \cup Large, offs : 0 .. Chunks] :
      /\ p.kind = "pass" <=> p.id \in Small
      /\ p.kind = "chunk" <=> p.offs > 0
      /\ p.nr = 2 => p.id \in Resent /\ p.offs \in {0, 1} }

VARIABLES
  seqs,       (* the history of CHECK-AUTHENTICATION: the packets (their   *)
              (* numbers) seen                                             *)
  chain,      (* the nodes in front of the last one: id, whether the INIT  *)
              (* has been seen, and the chunks kept until then             *)
  travel,     (* packets on their way, with the place they are sent to     *)
  assembling, (* <<m, i>>: chunk i of m on its way to the assembler        *)
  seen,       (* seen[m]: CHUNKS-SEEN of the assembler of m                *)
  copying,    (* <<m, i>>: REPLACERs that have not run yet                 *)
  copied,     (* copied[m]: the chunks in OUT-VEC                          *)
  answers,    (* messages on their way to the customer                     *)
  got         (* what the customer found in each, in the order of coming   *)

vars == <<seqs, chain, travel, assembling, seen, copying, copied, answers, got>>

Init ==
  /\ seqs = {}
  /\ chain = <<>>
  /\ travel = {}
  /\ assembling = {}
  /\ seen = [m \in Large |-> {}]
  /\ copying = {}
  /\ copied = [m \in Large |-> {}]
  /\ answers = {}
  /\ got = [m \in Small \cup Large |-> <<>>]

UnderWay == Cardinality(travel) + Cardinality(assembling) + Cardinality(copying)

(* AUTH-BEH of CHECK-AUTHENTICATION: a packet, which may come any number of*)
(* times, is passed on once.                                               *)
Check(p) ==
  /\ \/ /\ p \notin seqs /\ UnderWay < Window
        /\ seqs' = seqs \cup {p}
        /\ travel' = travel \cup {<<p, 1>>}
     \/ p \in seqs /\ UNCHANGED <<seqs, travel>>
  /\ UNCHANGED <<chain, assembling, seen, copying, copied, answers, got>>

(* The packet p is at the node in place n of the chain.                    *)
At(p, n) == <<p, n>> \in travel /\ n <= Len(chain)
AtEnd(p) == <<p, Len(chain) + 1>> \in travel
Leave(p, n) == travel' = travel \ {<<p, n>>}

(* NULL-DECHUNK-BEH, :PASS.                                                *)
NullPass(p) ==
  /\ AtEnd(p) /\ p.kind = "pass"
  /\ Leave(p, Len(chain) + 1)
  /\ answers' = answers \cup {p.id}
  /\ UNCHANGED <<seqs, chain, assembling, seen, copying, copied, got>>

(* NULL-DECHUNK-BEH, :INIT and :CHUNK: become the node for this message,   *)
(* in front of a new last one.                                             *)
NullTake(p) ==
  /\ AtEnd(p) /\ p.kind \in {"init", "chunk"}
  /\ Leave(p, Len(chain) + 1)
  /\ chain' = Append(chain, [id |-> p.id, init |-> p.kind = "init",
                             pend |-> IF p.kind = "init" THEN {} ELSE {p.offs}])
  /\ UNCHANGED <<seqs, assembling, seen, copying, copied, answers, got>>

(* A node that is for another message sends the packet on (REPEAT-SEND).   *)
NextNode(p, n) ==
  /\ At(p, n) /\ chain[n].id # p.id
  /\ travel' = (travel \ {<<p, n>>}) \cup {<<p, n + 1>>}
  /\ UNCHANGED <<seqs, chain, assembling, seen, copying, copied, answers, got>>

(* Mutant: the chunks that came before the INIT are forgotten.             *)
PendingInitOnly(p, n) ==
  /\ At(p, n) /\ chain[n].id = p.id /\ p.kind = "init" /\ ~chain[n].init
  /\ Leave(p, n)
  /\ chain' = [chain EXCEPT ![n].init = TRUE, ![n].pend = {}]
  /\ UNCHANGED <<seqs, assembling, seen, copying, copied, answers, got>>

(* DECHUNK-PENDING-BEH, :INIT: make the assembler and send it what was kept.*)
PendingInit(p, n) ==
  /\ At(p, n) /\ chain[n].id = p.id /\ p.kind = "init" /\ ~chain[n].init
  /\ Leave(p, n)
  /\ chain' = [chain EXCEPT ![n].init = TRUE, ![n].pend = {}]
  /\ assembling' = assembling \cup { <<p.id, i>> : i \in chain[n].pend }
  /\ UNCHANGED <<seqs, seen, copying, copied, answers, got>>

(* DECHUNK-PENDING-BEH, :CHUNK.                                            *)
PendingChunk(p, n) ==
  /\ At(p, n) /\ chain[n].id = p.id /\ p.kind = "chunk" /\ ~chain[n].init
  /\ Leave(p, n)
  /\ chain' = [chain EXCEPT ![n].pend = @ \cup {p.offs}]
  /\ UNCHANGED <<seqs, assembling, seen, copying, copied, answers, got>>

(* DECHUNK-INTERCEPTOR-BEH, :CHUNK.                                        *)
Intercept(p, n) ==
  /\ At(p, n) /\ chain[n].id = p.id /\ p.kind = "chunk" /\ chain[n].init
  /\ Leave(p, n)
  /\ assembling' = assembling \cup {<<p.id, p.offs>>}
  /\ UNCHANGED <<seqs, chain, seen, copying, copied, answers, got>>

(* DECHUNK-INTERCEPTOR-BEH, :INIT: toss duplicates.                        *)
Toss(p, n) ==
  /\ At(p, n) /\ chain[n].id = p.id /\ p.kind = "init" /\ chain[n].init
  /\ Leave(p, n)
  /\ UNCHANGED <<seqs, chain, assembling, seen, copying, copied, answers, got>>

(* Mutant: duplicates are counted.                                         *)
AssembleAll(m, i) ==
  /\ <<m, i>> \in assembling
  /\ assembling' = assembling \ {<<m, i>>}
  /\ seen' = [seen EXCEPT ![m] = @ \cup {i}]
  /\ copying' = copying \cup
       {[id |-> m, offs |-> i, last |-> Cardinality(seen[m]) + 1 >= Chunks]}
  /\ UNCHANGED <<seqs, chain, travel, copied, answers, got>>

(* DECHUNK-ASSEMBLER-BEH: count the chunk and leave it to a REPLACER; the  *)
(* one of the last chunk is told of the customer.  Then a SINK.            *)
Assemble(m, i) ==
  /\ <<m, i>> \in assembling
  /\ assembling' = assembling \ {<<m, i>>}
  /\ \/ /\ i \notin seen[m]
        /\ seen' = [seen EXCEPT ![m] = @ \cup {i}]
        /\ copying' = copying \cup
             {[id |-> m, offs |-> i, last |-> Cardinality(seen[m]) + 1 = Chunks]}
     \/ i \in seen[m] /\ UNCHANGED <<seen, copying>>
  /\ UNCHANGED <<seqs, chain, travel, copied, answers, got>>

(* A REPLACER copies its chunk into OUT-VEC and sends that to the customer *)
(* it was given, if any.                                                   *)
Replacer(r) ==
  /\ r \in copying
  /\ copying' = copying \ {r}
  /\ copied' = [copied EXCEPT ![r.id] = @ \cup {r.offs}]
  /\ answers' = IF r.last THEN answers \cup {r.id} ELSE answers
  /\ UNCHANGED <<seqs, chain, travel, assembling, seen, got>>

(* The customer gets the vector, and finds in it what has been copied.     *)
Customer(m) ==
  /\ m \in answers
  /\ answers' = answers \ {m}
  /\ got' = [got EXCEPT ![m] = Append(@, IF m \in Large THEN copied[m] ELSE {})]
  /\ UNCHANGED <<seqs, chain, travel, assembling, seen, copying, copied>>

Node(p, n) ==
  \/ NextNode(p, n) \/ PendingInit(p, n) \/ PendingChunk(p, n) \/ Intercept(p, n)
  \/ Toss(p, n)

Handle ==
  \/ \E t \in travel : NullPass(t[1]) \/ NullTake(t[1]) \/ Node(t[1], t[2])
  \/ \E a \in assembling : Assemble(a[1], a[2])
  \/ \E r \in copying : Replacer(r)
  \/ \E m \in answers : Customer(m)

Checks == \E p \in Packet : Check(p)

Next == Checks \/ Handle

Spec == Init /\ [][Next]_vars

(* Packets keep coming in, and every message is handled.                   *)
FairSpec == Spec /\ WF_vars(Checks) /\ WF_vars(Handle)
-----------------------------------------------------------------------------
(* A message is given to the customer once, although packets are delivered *)
(* twice (lines 501-540, 667-680).                                         *)
GivenOnce ==
  \A m \in Small \cup Large : Len(got[m]) + Cardinality(answers \cap {m}) <= 1

(* Whatever the order of the packets, every message is given to the        *)
(* customer in the end (lines 662-665).                                    *)
EverythingGiven == <>(\A m \in Small \cup Large : got[m] # <<>>)

(* "We need to be robust against every possibility" (lines 662-665): what  *)
(* the customer gets has all chunks in place.                              *)
GivenWhole ==
  \A m \in Large, k \in 1 .. 2 : k \in DOMAIN got[m] => got[m][k] = 1 .. Chunks
=============================================================================
