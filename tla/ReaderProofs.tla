---------------------------- MODULE ReaderProofs ----------------------------
(***************************************************************************)
(* Proofs about the ends of a socket's reader that module MCReader puts    *)
(* side by side.  However packets come doubled and jumbled, and whatever   *)
(* the sizes of messages, nothing is given to the customer twice.  And     *)
(* however the stream of records is cut into packets, and in whatever      *)
(* order their tasks run, the state machine decodes the records in the     *)
(* order they were sent: what comes out of it is a prefix of the stream.   *)
(*                                                                         *)
(* The second part reads a record byte by byte.  What the state machine    *)
(* does with a buffer, and where the long segments of a record begin, are  *)
(* recursive functions; each is shown to have the solution its equation    *)
(* asks for, and induction comes from Nat being well founded under <.      *)
(***************************************************************************)
EXTENDS MCReader, TLAPS, FiniteSetTheorems, SequenceTheorems, WellFoundedInduction

(* The packet of a small message.                                          *)
PassOf(m) == [nr |-> 1, kind |-> "pass", id |-> m, offs |-> 0]

(* What is going to give m to the customer: the packet of a small message, *)
(* the REPLACER of the last chunk of a large one.                          *)
Carriers(m) ==
  IF m \in Small THEN { t \in travel : t[1].id = m }
                 ELSE { r \in copying : r.id = m /\ r.last }

(* What made that, and will not happen again: the packet has been checked, *)
(* the last chunk counted.                                                 *)
Begun(m) ==
  IF m \in Small THEN PassOf(m) \in seqs
                 ELSE Cardinality(seen[m]) >= Chunks

(* One carrier, or one answer, or one message given, once it has begun.    *)
OneEnd(m) ==
  /\ \A x, y \in Carriers(m) : x = y
  /\ Carriers(m) # {} \/ m \in answers \/ got[m] # <<>> => Begun(m)
  /\ Carriers(m) # {} => m \notin answers /\ got[m] = <<>>
  /\ m \in answers => got[m] = <<>>
  /\ got[m] = <<>> \/ Len(got[m]) = 1

ReaderTypes ==
  /\ travel \subseteq Dechunk!Packet \X Nat
  /\ \A a \in assembling : a[1] \in Large
  /\ \A r \in copying : r.id \in Large /\ r.last \in BOOLEAN
  /\ answers \subseteq Small \cup Large
  /\ seen = [m \in Large |-> seen[m]] /\ \A m \in Large : IsFiniteSet(seen[m])
  /\ got = [m \in Small \cup Large |-> got[m]]

ReaderInv == ReaderTypes /\ \A m \in Small \cup Large : OneEnd(m)

(* The instance's Cardinality is the one of FiniteSets.                    *)
LEMMA SameCardinality == \A S : Dechunk!Cardinality(S) = Cardinality(S)
BY DEF Dechunk!Cardinality, Cardinality, Dechunk!IsFiniteSet, IsFiniteSet

LEMMA Messages ==
  /\ Small \cap Large = {} /\ Resent \subseteq Large /\ Chunks \in Nat \ {0}
BY ReaderAssumption DEF Dechunk!DechunkAssumption

LEMMA PacketFacts ==
  ASSUME NEW p \in Dechunk!Packet
  PROVE  /\ p.kind = "pass" => p.id \in Small
         /\ p.kind # "pass" => p.id \in Large
         /\ p.id \in Small => p = PassOf(p.id)
<1>1. /\ p \in [nr : 1 .. 2, kind : Dechunk!Kind, id : Small \cup Large, offs : 0 .. Chunks]
      /\ p.kind = "pass" <=> p.id \in Small
      /\ p.kind = "chunk" <=> p.offs > 0
      /\ p.nr = 2 => p.id \in Resent
  BY DEF Dechunk!Packet
<1>2. ASSUME p.id \in Small PROVE p = PassOf(p.id)
  <2>1. p.kind = "pass" /\ p.nr # 2 /\ ~(p.offs > 0)
    BY <1>1, <1>2, Messages
  <2>2. p.nr = 1 /\ p.offs = 0
    BY <1>1, <2>1, Messages
  <2>3. p = [nr |-> p.nr, kind |-> p.kind, id |-> p.id, offs |-> p.offs]
    BY <1>1
  <2> QED BY <2>1, <2>2, <2>3 DEF PassOf
<1> QED BY <1>1, <1>2

-----------------------------------------------------------------------------
(* The ways in which a step can concern a message m.                       *)

(* Not at all.                                                             *)
LEMMA Untouched ==
  ASSUME NEW m, OneEnd(m), Carriers(m)' = Carriers(m), Begun(m) => Begun(m)',
         m \in answers' <=> m \in answers, got'[m] = got[m]
  PROVE  OneEnd(m)'
BY DEF OneEnd

(* It sets out.                                                            *)
LEMMA SetsOut ==
  ASSUME NEW m, OneEnd(m), ~Begun(m), Begun(m)', NEW x, Carriers(m)' = {x},
         answers' = answers, got' = got
  PROVE  OneEnd(m)'
BY DEF OneEnd

(* Its carrier moves.                                                      *)
LEMMA Moves ==
  ASSUME NEW m, OneEnd(m), Carriers(m) # {}, NEW x, Carriers(m)' = {x},
         Begun(m) => Begun(m)', answers' = answers, got' = got
  PROVE  OneEnd(m)'
BY DEF OneEnd

(* Its carrier gives it away.                                              *)
LEMMA GivesAway ==
  ASSUME NEW m, OneEnd(m), Carriers(m) # {}, Carriers(m)' = {},
         Begun(m) => Begun(m)', m \in answers', got' = got
  PROVE  OneEnd(m)'
BY DEF OneEnd

(* The customer has it.                                                    *)
LEMMA IsGiven ==
  ASSUME NEW m, OneEnd(m), m \in answers, m \notin answers', NEW x, got'[m] = Append(got[m], x),
         Carriers(m)' = Carriers(m), Begun(m)' = Begun(m)
  PROVE  OneEnd(m)'
<1>1. got[m] = <<>> /\ Carriers(m) = {} /\ Begun(m)
  BY DEF OneEnd
<1>2. Append(<<>>, x) = <<x>> /\ Len(<<x>>) = 1 /\ <<x>> # <<>>
  OBVIOUS
<1> QED BY <1>1, <1>2 DEF OneEnd

-----------------------------------------------------------------------------
LEMMA ReaderBegins == Dechunk!Init => ReaderInv
<1> SUFFICES ASSUME Dechunk!Init PROVE ReaderInv
  OBVIOUS
<1>1. /\ travel = {} /\ assembling = {} /\ copying = {} /\ answers = {}
      /\ seen = [m \in Large |-> {}] /\ got = [m \in Small \cup Large |-> <<>>]
  BY DEF Dechunk!Init
<1>2. ReaderTypes
  BY <1>1, FS_EmptySet DEF ReaderTypes
<1>3. ASSUME NEW m \in Small \cup Large PROVE OneEnd(m)
  BY <1>1 DEF OneEnd, Carriers
<1> QED BY <1>2, <1>3 DEF ReaderInv

(* Steps that concern no message.                                          *)
LEMMA StillKeeps ==
  ASSUME ReaderInv, UNCHANGED <<seqs, travel, seen, copying, answers, got>>,
         \A a \in assembling' : a \in assembling
  PROVE  ReaderInv'
<1>1. ReaderTypes'
  BY DEF ReaderInv, ReaderTypes
<1>2. ASSUME NEW m \in Small \cup Large PROVE OneEnd(m)'
  <2>1. Carriers(m)' = Carriers(m) /\ Begun(m)' = Begun(m) /\ OneEnd(m)
    BY DEF Carriers, Begun, ReaderInv
  <2> QED BY <2>1, Untouched
<1> QED BY <1>1, <1>2 DEF ReaderInv

LEMMA CheckKeeps ==
  ASSUME ReaderInv, NEW p \in Dechunk!Packet, Dechunk!Check(p)
  PROVE  ReaderInv'
<1>1. UNCHANGED <<assembling, seen, copying, answers, got>>
  BY DEF Dechunk!Check
<1>2. CASE UNCHANGED <<seqs, travel>>
  BY <1>1, <1>2, StillKeeps
<1>3. CASE p \notin seqs /\ seqs' = seqs \cup {p} /\ travel' = travel \cup {<<p, 1>>}
  <2>1. ReaderTypes'
    BY <1>1, <1>3 DEF ReaderInv, ReaderTypes
  <2>2. ASSUME NEW m \in Small \cup Large PROVE OneEnd(m)'
    <3>1. OneEnd(m) /\ (Begun(m) => Begun(m)')
      BY <1>1, <1>3 DEF ReaderInv, Begun
    <3>2. CASE m \in Small /\ p.id = m
      <4>1. p = PassOf(m) /\ ~Begun(m) /\ Begun(m)'
        BY <1>3, <3>2, PacketFacts DEF Begun
      <4>2. Carriers(m) = {}
        BY <3>1, <4>1 DEF OneEnd
      <4>3. Carriers(m)' = {<<p, 1>>}
        BY <1>3, <3>2, <4>2 DEF Carriers
      <4> QED BY <1>1, <3>1, <4>1, <4>3, SetsOut
    <3>3. CASE m \notin Small \/ p.id # m
      <4>1. Carriers(m)' = Carriers(m)
        <5>1. CASE m \in Small
          <6>1. <<p, 1>>[1].id # m
            BY <3>3, <5>1
          <6> QED BY <1>3, <5>1, <6>1 DEF Carriers
        <5>2. CASE m \notin Small
          BY <1>1, <5>2 DEF Carriers
        <5> QED BY <5>1, <5>2
      <4> QED BY <1>1, <3>1, <4>1, Untouched
    <3> QED BY <3>2, <3>3
  <2> QED BY <2>1, <2>2 DEF ReaderInv
<1> QED BY <1>2, <1>3 DEF Dechunk!Check

(* A packet that is for nobody else's message leaves its way.              *)
LEMMA LeaveKeeps ==
  ASSUME ReaderInv, NEW t \in travel, t[1].id \in Large, travel' = travel \ {t},
         UNCHANGED <<seqs, seen, copying, answers, got>>,
         \A a \in assembling' : a \in assembling \/ a[1] = t[1].id
  PROVE  ReaderInv'
<1>1. ReaderTypes'
  BY DEF ReaderInv, ReaderTypes
<1>2. ASSUME NEW m \in Small \cup Large PROVE OneEnd(m)'
  <2>1. Carriers(m)' = Carriers(m) /\ Begun(m)' = Begun(m) /\ OneEnd(m)
    BY Messages DEF Carriers, Begun, ReaderInv
  <2> QED BY <2>1, Untouched
<1> QED BY <1>1, <1>2 DEF ReaderInv

LEMMA NullPassKeeps ==
  ASSUME ReaderInv, NEW p \in Dechunk!Packet, Dechunk!NullPass(p)
  PROVE  ReaderInv'
<1> DEFINE t == <<p, Len(chain) + 1>>
<1>1. /\ p.kind = "pass" /\ t \in travel /\ travel' = travel \ {t} /\ answers' = answers \cup {p.id}
      /\ UNCHANGED <<seqs, assembling, seen, copying, got>>
  BY DEF Dechunk!NullPass, Dechunk!AtEnd, Dechunk!Leave
<1>2. t[1] = p /\ p.id \in Small
  BY <1>1, PacketFacts
<1> HIDE DEF t
<1>3. ReaderTypes'
  BY <1>1, <1>2 DEF ReaderInv, ReaderTypes
<1>4. ASSUME NEW m \in Small \cup Large PROVE OneEnd(m)'
  <2>1. OneEnd(m) /\ Begun(m)' = Begun(m)
    BY <1>1 DEF ReaderInv, Begun
  <2>2. CASE m = p.id
    <3>1. t \in Carriers(m)
      BY <1>1, <1>2, <2>2 DEF Carriers
    <3>2. Carriers(m) = {t}
      BY <2>1, <3>1 DEF OneEnd
    <3>3. Carriers(m)' = {}
      BY <1>1, <1>2, <2>2, <3>2 DEF Carriers
    <3> QED BY <1>1, <2>1, <2>2, <3>1, <3>3, GivesAway
  <2>3. CASE m # p.id
    <3>1. Carriers(m)' = Carriers(m)
      BY <1>1, <1>2, <2>3 DEF Carriers
    <3> QED BY <1>1, <2>1, <2>3, <3>1, Untouched
  <2> QED BY <2>2, <2>3
<1> QED BY <1>3, <1>4 DEF ReaderInv

LEMMA NextNodeKeeps ==
  ASSUME ReaderInv, NEW p \in Dechunk!Packet, NEW n \in Nat, Dechunk!NextNode(p, n)
  PROVE  ReaderInv'
<1> DEFINE t == <<p, n>>
           u == <<p, n + 1>>
<1>1. /\ t \in travel /\ travel' = (travel \ {t}) \cup {u}
      /\ UNCHANGED <<seqs, assembling, seen, copying, answers, got>>
  BY DEF Dechunk!NextNode, Dechunk!At
<1>2. t[1] = p /\ u[1] = p /\ u \in Dechunk!Packet \X Nat
  OBVIOUS
<1> HIDE DEF t, u
<1>3. ReaderTypes'
  BY <1>1, <1>2 DEF ReaderInv, ReaderTypes
<1>4. ASSUME NEW m \in Small \cup Large PROVE OneEnd(m)'
  <2>1. OneEnd(m) /\ Begun(m)' = Begun(m)
    BY <1>1 DEF ReaderInv, Begun
  <2>2. CASE m = p.id /\ m \in Small
    <3>1. t \in Carriers(m)
      BY <1>1, <1>2, <2>2 DEF Carriers
    <3>2. Carriers(m) = {t}
      BY <2>1, <3>1 DEF OneEnd
    <3>3. Carriers(m)' = {u}
      BY <1>1, <1>2, <2>2, <3>2 DEF Carriers
    <3> QED BY <1>1, <2>1, <2>2, <3>1, <3>3, Moves
  <2>3. CASE m # p.id \/ m \notin Small
    <3>1. Carriers(m)' = Carriers(m)
      BY <1>1, <1>2, <2>3 DEF Carriers
    <3> QED BY <1>1, <2>1, <2>3, <3>1, Untouched
  <2> QED BY <2>2, <2>3
<1> QED BY <1>3, <1>4 DEF ReaderInv

(* An assembler counts a chunk that it has not seen.                       *)
LEMMA AssembleKeeps ==
  ASSUME ReaderInv, NEW m \in Large, NEW i, Dechunk!Assemble(m, i)
  PROVE  ReaderInv'
<1>1. /\ UNCHANGED <<seqs, travel, answers, got>>
      /\ \A a \in assembling' : a \in assembling
  BY DEF Dechunk!Assemble
<1>2. CASE UNCHANGED <<seen, copying>>
  BY <1>1, <1>2, StillKeeps
<1>3. CASE /\ i \notin seen[m] /\ seen' = [seen EXCEPT ![m] = seen[m] \cup {i}]
           /\ copying' = copying \cup
                {[id |-> m, offs |-> i, last |-> Cardinality(seen[m]) + 1 = Chunks]}
  <2> DEFINE r == [id |-> m, offs |-> i, last |-> Cardinality(seen[m]) + 1 = Chunks]
  <2>1. r.id = m /\ r.last \in BOOLEAN /\ (r.last <=> Cardinality(seen[m]) + 1 = Chunks)
    OBVIOUS
  <2>2. copying' = copying \cup {r}
    BY <1>3
  <2> HIDE DEF r
  <2>3. /\ seen'[m] = seen[m] \cup {i} /\ \A k \in Large : k # m => seen'[k] = seen[k]
        /\ seen' = [k \in Large |-> seen'[k]]
    BY <1>3 DEF ReaderInv, ReaderTypes
  <2>4. /\ IsFiniteSet(seen'[m]) /\ Cardinality(seen'[m]) = Cardinality(seen[m]) + 1
        /\ Cardinality(seen[m]) \in Nat
    <3>1. IsFiniteSet(seen[m])
      BY DEF ReaderInv, ReaderTypes
    <3> QED BY <1>3, <2>3, <3>1, FS_AddElement, FS_CardinalityType
  <2>5. ReaderTypes'
    BY <1>1, <2>1, <2>2, <2>3, <2>4 DEF ReaderInv, ReaderTypes
  <2>6. ASSUME NEW k \in Small \cup Large PROVE OneEnd(k)'
    <3>1. OneEnd(k) /\ (Begun(k) => Begun(k)')
      <4>1. OneEnd(k)
        BY DEF ReaderInv
      <4>2. CASE k \in Small \/ k # m
        BY <1>1, <2>3, <4>1, <4>2 DEF Begun
      <4>3. CASE k \notin Small /\ k = m
        <5>1. Chunks \in Nat /\ Cardinality(seen'[m]) >= Cardinality(seen[m])
          BY <2>4, Messages
        <5> QED BY <2>4, <4>1, <4>3, <5>1 DEF Begun
      <4> QED BY <4>1, <4>2, <4>3
    <3>2. CASE k = m /\ r.last
      <4>1. ~Begun(m) /\ Begun(m)'
        BY <2>1, <2>4, <3>2, Messages DEF Begun
      <4>2. Carriers(m) = {}
        BY <3>1, <3>2, <4>1 DEF OneEnd
      <4>3. Carriers(m)' = {r}
        BY <2>1, <2>2, <3>2, <4>2, Messages DEF Carriers
      <4> QED BY <1>1, <3>1, <3>2, <4>1, <4>3, SetsOut
    <3>3. CASE ~(k = m /\ r.last)
      <4>1. Carriers(k)' = Carriers(k)
        BY <1>1, <2>1, <2>2, <3>3 DEF Carriers
      <4> QED BY <1>1, <3>1, <4>1, Untouched
    <3> QED BY <3>2, <3>3
  <2> QED BY <2>5, <2>6 DEF ReaderInv
<1> QED BY <1>2, <1>3, SameCardinality DEF Dechunk!Assemble

LEMMA ReplacerKeeps ==
  ASSUME ReaderInv, NEW r \in copying, Dechunk!Replacer(r)
  PROVE  ReaderInv'
<1>1. /\ copying' = copying \ {r} /\ answers' = IF r.last THEN answers \cup {r.id} ELSE answers
      /\ UNCHANGED <<seqs, travel, assembling, seen, got>>
  BY DEF Dechunk!Replacer
<1>2. r.id \in Large /\ r.last \in BOOLEAN
  BY DEF ReaderInv, ReaderTypes
<1>3. ReaderTypes'
  BY <1>1, <1>2 DEF ReaderInv, ReaderTypes
<1>4. ASSUME NEW m \in Small \cup Large PROVE OneEnd(m)'
  <2>1. OneEnd(m) /\ Begun(m)' = Begun(m)
    BY <1>1 DEF ReaderInv, Begun
  <2>2. CASE m = r.id /\ r.last
    <3>1. r \in Carriers(m)
      BY <1>2, <2>2, Messages DEF Carriers
    <3>2. Carriers(m) = {r}
      BY <2>1, <3>1 DEF OneEnd
    <3>3. Carriers(m)' = {}
      BY <1>1, <1>2, <2>2, <3>2, Messages DEF Carriers
    <3> QED BY <1>1, <2>1, <2>2, <3>1, <3>3, GivesAway
  <2>3. CASE ~(m = r.id /\ r.last)
    <3>1. Carriers(m)' = Carriers(m)
      BY <1>1, <2>3 DEF Carriers
    <3>2. m \in answers' <=> m \in answers
      BY <1>1, <2>3
    <3> QED BY <1>1, <2>1, <3>1, <3>2, Untouched
  <2> QED BY <2>2, <2>3
<1> QED BY <1>3, <1>4 DEF ReaderInv

LEMMA CustomerKeeps ==
  ASSUME ReaderInv, NEW m, Dechunk!Customer(m)
  PROVE  ReaderInv'
<1>1. PICK x : /\ m \in answers /\ answers' = answers \ {m}
               /\ got' = [got EXCEPT ![m] = Append(got[m], x)]
               /\ UNCHANGED <<seqs, travel, assembling, seen, copying>>
  BY DEF Dechunk!Customer
<1>2. /\ m \in Small \cup Large /\ got'[m] = Append(got[m], x)
      /\ \A k \in Small \cup Large : k # m => got'[k] = got[k]
      /\ got' = [k \in Small \cup Large |-> got'[k]]
  BY <1>1 DEF ReaderInv, ReaderTypes
<1>3. ReaderTypes'
  BY <1>1, <1>2 DEF ReaderInv, ReaderTypes
<1>4. ASSUME NEW k \in Small \cup Large PROVE OneEnd(k)'
  <2>1. OneEnd(k) /\ Begun(k)' = Begun(k) /\ Carriers(k)' = Carriers(k)
    BY <1>1 DEF ReaderInv, Begun, Carriers
  <2>2. CASE k = m
    BY <1>1, <1>2, <2>1, <2>2, IsGiven
  <2>3. CASE k # m
    BY <1>1, <1>2, <2>1, <2>3, Untouched
  <2> QED BY <2>2, <2>3
<1> QED BY <1>3, <1>4 DEF ReaderInv

LEMMA DechunkKeeps ==
  ASSUME ReaderInv, Dechunk!Next
  PROVE  ReaderInv'
<1>1. ASSUME NEW t \in travel,
             Dechunk!NullPass(t[1]) \/ Dechunk!NullTake(t[1]) \/ Dechunk!Node(t[1], t[2])
      PROVE  ReaderInv'
  <2> DEFINE p == t[1]
             n == t[2]
  <2>1. p \in Dechunk!Packet /\ n \in Nat /\ t = <<p, n>>
    BY DEF ReaderInv, ReaderTypes
  <2> HIDE DEF p, n
  <2>2. CASE Dechunk!NullPass(p)
    BY <2>1, <2>2, NullPassKeeps
  <2>3. CASE Dechunk!NextNode(p, n)
    BY <2>1, <2>3, NextNodeKeeps
  <2>4. CASE Dechunk!NullTake(p)
    <3>1. PICK u \in travel : u[1] = p /\ travel' = travel \ {u}
      BY <2>4 DEF Dechunk!NullTake, Dechunk!AtEnd, Dechunk!Leave
    <3>2. p.id \in Large /\ UNCHANGED <<seqs, assembling, seen, copying, answers, got>>
      BY <2>1, <2>4, PacketFacts DEF Dechunk!NullTake
    <3> QED BY <3>1, <3>2, LeaveKeeps
  <2>5. CASE \/ Dechunk!PendingInit(p, n) \/ Dechunk!PendingChunk(p, n)
             \/ Dechunk!Intercept(p, n) \/ Dechunk!Toss(p, n)
    <3>1. /\ travel' = travel \ {t} /\ UNCHANGED <<seqs, seen, copying, answers, got>>
          /\ p.kind # "pass"
      BY <2>1, <2>5 DEF Dechunk!PendingInit, Dechunk!PendingChunk, Dechunk!Intercept,
                        Dechunk!Toss, Dechunk!Leave
    <3>2. p.id \in Large /\ t[1] = p
      BY <2>1, <3>1, PacketFacts DEF p
    <3>3. ASSUME NEW a \in assembling' PROVE a \in assembling \/ a[1] = p.id
      BY <2>5 DEF Dechunk!PendingInit, Dechunk!PendingChunk, Dechunk!Intercept, Dechunk!Toss
    <3> QED BY <3>1, <3>2, <3>3, LeaveKeeps
  <2> QED BY <1>1, <2>2, <2>3, <2>4, <2>5 DEF Dechunk!Node, p, n
<1>2. ASSUME NEW a \in assembling, Dechunk!Assemble(a[1], a[2]) PROVE ReaderInv'
  BY <1>2, AssembleKeeps DEF ReaderInv, ReaderTypes
<1>3. ASSUME NEW r \in copying, Dechunk!Replacer(r) PROVE ReaderInv'
  BY <1>3, ReplacerKeeps
<1>4. ASSUME NEW m \in answers, Dechunk!Customer(m) PROVE ReaderInv'
  BY <1>4, CustomerKeeps
<1> QED BY <1>1, <1>2, <1>3, <1>4, CheckKeeps DEF Dechunk!Next, Dechunk!Checks, Dechunk!Handle

(* A message is given to the customer once: nothing that is doubled,       *)
(* delayed or overtaken in the reader makes a second answer.               *)
THEOREM NothingTwice == MCSpec => []GivenOnce
<1>1. MCInit => ReaderInv
  BY ReaderBegins DEF MCInit
<1>2. ReaderInv /\ [MCNext]_all => ReaderInv'
  <2> SUFFICES ASSUME ReaderInv, [MCNext]_all PROVE ReaderInv'
    OBVIOUS
  <2>1. Dechunk!Next \/ UNCHANGED chunkVars
    BY DEF MCNext, all
  <2>2. CASE UNCHANGED chunkVars
    BY <2>2, StillKeeps DEF chunkVars
  <2> QED BY <2>1, <2>2, DechunkKeeps
<1>3. ReaderInv => GivenOnce
  <2> SUFFICES ASSUME ReaderInv, NEW m \in Small \cup Large
               PROVE  Len(got[m]) + Cardinality(answers \cap {m}) <= 1
    BY SameCardinality DEF GivenOnce, Dechunk!GivenOnce
  <2> DEFINE given == Len(got[m])
             under == Cardinality(answers \cap {m})
  <2>1. /\ m \in answers => given = 0
        /\ given = 0 \/ given = 1
    BY DEF ReaderInv, OneEnd
  <2>2. m \in answers => under = 1
    <3>1. m \in answers => answers \cap {m} = {m}
      OBVIOUS
    <3> QED BY <3>1, FS_Singleton
  <2>3. m \notin answers => under = 0
    <3>1. m \notin answers => answers \cap {m} = {}
      OBVIOUS
    <3> QED BY <3>1, FS_EmptySet
  <2> HIDE DEF given, under
  <2>4. given + under <= 1
    BY <2>1, <2>2, <2>3
  <2> QED BY <2>4 DEF given, under
<1> QED BY <1>1, <1>2, <1>3, PTL DEF MCSpec

-----------------------------------------------------------------------------
(* What the state machine does with a buffer (SelfSync).                   *)

LEMMA Descends ==
  \E R : IsWellFoundedOn(R, Nat) /\ \A m, n \in Nat : n < m => <<n, m>> \in R
<1>1. \A m, n \in Nat : n < m => <<n, m>> \in OpToRel(<, Nat)
  BY DEF OpToRel
<1> QED BY <1>1, NatLessThanWellFounded

(* Induction over the natural numbers, for the members of a set.           *)
LEMMA Induction ==
  ASSUME NEW S, 0 \in S, \A n \in Nat : n \in S => n + 1 \in S
  PROVE  \A n \in Nat : n \in S
<1> SUFFICES ASSUME Nat \ S # {} PROVE FALSE
  OBVIOUS
<1>1. PICK R : IsWellFoundedOn(R, Nat) /\ \A m, n \in Nat : n < m => <<n, m>> \in R
  BY Descends
<1>2. PICK m \in Nat \ S : \A n \in Nat \ S : <<n, m>> \notin R
  BY <1>1, WFMin
<1>3. m # 0 /\ m - 1 \in Nat /\ m - 1 < m /\ (m - 1) + 1 = m
  BY <1>2
<1>4. m - 1 \in S
  BY <1>1, <1>2, <1>3
<1> QED BY <1>2, <1>3, <1>4

-----------------------------------------------------------------------------
(* The state machine (SelfSync).                                           *)

LEMMA Framing ==
  /\ Base \in Nat /\ FE \in Nat /\ FD \in Nat /\ FE >= Base /\ FD >= Base /\ FE # FD
  /\ CrcLen \in Nat /\ CrcLen >= 1 /\ HeaderLen = CrcLen + 1 /\ HeaderLen < Base
  /\ Version = 1 /\ MaxShort = Base - 1
BY FramingAssumption DEF HeaderLen, Version, MaxShort

State ==
  {"start", "check-start-fd", "check-version", "read-short-count", "read-segm",
   "check-segm-fd", "read-long-count", "read-long-count-2", "endless", "error"}

(* The one sequence is the beginning of the other.                         *)
Begins(s, t) == Len(s) <= Len(t) /\ \A i \in 1 .. Len(s) : t[i] = s[i]

(* What a part of the machine makes of a state: a state that has sent the  *)
(* same messages, and perhaps more.                                        *)
After(f, g) == g \in FSM /\ Begins(f.sent, g.sent)

(* A state of the machine is the record of its fields.                     *)
LEMMA FSMFields ==
  ASSUME NEW f \in FSM
  PROVE  /\ f.state \in State /\ f.remct \in Nat /\ f.need \in BOOLEAN /\ f.nel \in Nat
         /\ f.aout \in Seq(Nat) /\ f.crcv \in Seq(Nat) /\ f.sent \in Seq(Seq(Nat))
         /\ Len(f.sent) \in Nat /\ Len(f.aout) \in Nat
BY DEF FSM, State

LEMMA AfterSame ==
  ASSUME NEW f \in FSM, NEW g \in FSM, g.sent = f.sent
  PROVE  After(f, g)
BY FSMFields DEF After, Begins

LEMMA AfterTwo ==
  ASSUME NEW f \in FSM, NEW g, After(f, g), NEW h, After(g, h)
  PROVE  After(f, h)
<1>1. g \in FSM /\ h \in FSM
  BY DEF After
<1>2. Len(f.sent) \in Nat /\ Len(g.sent) \in Nat /\ Len(h.sent) \in Nat
  BY <1>1, FSMFields
<1> QED BY <1>1, <1>2 DEF After, Begins

LEMMA EmptyBytes == <<>> \in Seq(Nat)
OBVIOUS

LEMMA SetState ==
  ASSUME NEW f \in FSM, NEW s \in State
  PROVE  After(f, [f EXCEPT !.state = s])
<1>1. [f EXCEPT !.state = s] \in FSM /\ [f EXCEPT !.state = s].sent = f.sent
  BY DEF FSM, State
<1> QED BY <1>1, AfterSame

(* One byte in each state: still a machine, and what was sent stays sent.  *)
LEMMA StartAfter ==
  ASSUME NEW f \in FSM, NEW b
  PROVE  After(f, StartWith(f, b))
<1>1. "check-start-fd" \in State /\ "start" \in State
  BY DEF State
<1> QED BY <1>1, SetState DEF StartWith

LEMMA StufferAfter ==
  ASSUME NEW f \in FSM, NEW ct \in Nat
  PROVE  After(f, StufferInit(f, ct))
<1>0. PICK need \in BOOLEAN : need = (ct < MaxShort)
  <2>1. (ct < MaxShort) \in BOOLEAN
    OBVIOUS
  <2> QED BY <2>1, Zenon
<1>1. StufferInit(f, ct) \in FSM /\ StufferInit(f, ct).sent = f.sent
  BY <1>0, EmptyBytes DEF StufferInit, FSM
<1> QED BY <1>1, AfterSame

LEMMA FinishAfter ==
  ASSUME NEW f \in FSM
  PROVE  After(f, Finish(f))
<1> DEFINE ans == SubSeq(f.aout, HeaderLen + 1, Len(f.aout))
           ok == Crc(<<f.nel - HeaderLen>> \o ans) = f.crcv
<1>1. ans \in Seq(Nat)
  <2>1. f.aout \in Seq(Nat) /\ HeaderLen \in Nat
    BY FSMFields, Framing
  <2> QED BY <2>1
<1>2. Finish(f) = [f EXCEPT !.state = "start", !.sent = IF ok THEN Append(@, ans) ELSE @]
  BY DEF Finish
<1> HIDE DEF ans, ok
<1>3. f.sent \in Seq(Seq(Nat)) /\ Len(f.sent) \in Nat
  BY FSMFields
<1>4. /\ Append(f.sent, ans) \in Seq(Seq(Nat)) /\ Len(Append(f.sent, ans)) = Len(f.sent) + 1
      /\ \A i \in 1 .. Len(f.sent) : Append(f.sent, ans)[i] = f.sent[i]
  BY <1>1, <1>3
<1>5. PICK t \in Seq(Seq(Nat)) : t = (IF ok THEN Append(f.sent, ans) ELSE f.sent)
  BY <1>3, <1>4
<1>6. Begins(f.sent, t)
  BY <1>3, <1>4, <1>5 DEF Begins
<1>7. Finish(f) = [f EXCEPT !.state = "start", !.sent = t]
  BY <1>2, <1>5 DEF FSM
<1>8. Finish(f) \in FSM /\ Finish(f).sent = t
  BY <1>7 DEF FSM
<1> QED BY <1>6, <1>8 DEF After

LEMMA HeaderAfter ==
  ASSUME NEW f \in FSM, ~(f.nel = 0 /\ Len(f.aout) < HeaderLen)
  PROVE  After(f, WithHeader(f))
<1>1. CASE f.nel = 0
  <2>1. /\ f.aout \in Seq(Nat) /\ HeaderLen \in 1 .. Len(f.aout) /\ CrcLen \in Nat
        /\ HeaderLen \in Nat /\ CrcLen <= Len(f.aout)
    BY <1>1, FSMFields, Framing
  <2>2. SubSeq(f.aout, 1, CrcLen) \in Seq(Nat)
    BY <2>1
  <2>3. HeaderLen + f.aout[HeaderLen] \in Nat
    BY <2>1
  <2>4. WithHeader(f) = [f EXCEPT !.crcv = SubSeq(f.aout, 1, CrcLen),
                                  !.nel = HeaderLen + f.aout[HeaderLen]]
    BY <1>1 DEF WithHeader
  <2>5. PICK c, n : /\ c = SubSeq(f.aout, 1, CrcLen) /\ n = HeaderLen + f.aout[HeaderLen]
                    /\ c \in Seq(Nat) /\ n \in Nat
    BY <2>2, <2>3
  <2>6. WithHeader(f) = [f EXCEPT !.crcv = c, !.nel = n]
    BY <2>4, <2>5
  <2>7. WithHeader(f) \in FSM /\ WithHeader(f).sent = f.sent
    BY <2>5, <2>6 DEF FSM
  <2> QED BY <2>7, AfterSame
<1>2. CASE f.nel # 0
  BY <1>2, AfterSame DEF WithHeader
<1> QED BY <1>1, <1>2

LEMMA RestoredAfter ==
  ASSUME NEW f \in FSM
  PROVE  After(f, Restored(f))
<1>1. f.aout \in Seq(Nat) /\ <<FE, FD>> \in Seq(Nat)
  BY FSMFields, Framing
<1>2. f.aout \o <<FE, FD>> \in Seq(Nat)
  BY <1>1
<1>3. PICK x : x \in Seq(Nat) /\ x = f.aout \o <<FE, FD>>
  BY <1>2
<1>4. [f EXCEPT !.aout = x] \in FSM /\ [f EXCEPT !.aout = x].sent = f.sent
  BY <1>3 DEF FSM
<1>5. Restored(f) = f \/ Restored(f) = [f EXCEPT !.aout = x]
  BY <1>3 DEF Restored
<1> QED BY <1>4, <1>5, AfterSame

LEMMA CheckFinishAfter ==
  ASSUME NEW f \in FSM
  PROVE  After(f, CheckFinish(f))
<1>0. "error" \in State /\ "read-long-count" \in State /\ After(f, f)
  BY AfterSame DEF State
<1>1. CASE f.remct # 0
  BY <1>0, <1>1 DEF CheckFinish
<1>2. CASE f.remct = 0 /\ f.nel = 0 /\ Len(f.aout) < HeaderLen
  BY <1>0, <1>2, SetState DEF CheckFinish
<1>3. CASE f.remct = 0 /\ ~(f.nel = 0 /\ Len(f.aout) < HeaderLen)
  <2>1. PICK h : h = WithHeader(f) /\ After(f, h) /\ h \in FSM
    BY <1>3, HeaderAfter DEF After
  <2>2. PICK g : g = Restored(h) /\ After(h, g) /\ g \in FSM
    BY <2>1, RestoredAfter DEF After
  <2>3. CheckFinish(f) = IF Len(g.aout) < g.nel THEN [g EXCEPT !.state = "read-long-count"]
                                                 ELSE Finish(g)
    BY <1>3, <2>1, <2>2 DEF CheckFinish
  <2>4. After(g, CheckFinish(f))
    BY <1>0, <2>2, <2>3, SetState, FinishAfter
  <2>5. After(f, g)
    BY <2>1, <2>2, AfterTwo
  <2> QED BY <2>4, <2>5, AfterTwo
<1> QED BY <1>1, <1>2, <1>3

LEMMA SegmInitAfter ==
  ASSUME NEW f \in FSM, NEW ct \in Nat
  PROVE  After(f, SegmInit(f, ct))
<1>0. PICK need \in BOOLEAN : need = (ct < MaxLong)
  <2>1. (ct < MaxLong) \in BOOLEAN
    OBVIOUS
  <2> QED BY <2>1, Zenon
<1>1. PICK g : g = [f EXCEPT !.state = "read-segm", !.remct = ct, !.need = need]
  OBVIOUS
<1>2. g \in FSM /\ g.sent = f.sent
  BY <1>1 DEF FSM
<1>3. SegmInit(f, ct) = CheckFinish(g)
  BY <1>0, <1>1 DEF SegmInit
<1> QED BY <1>2, <1>3, AfterSame, CheckFinishAfter, AfterTwo

LEMMA StuffAfter ==
  ASSUME NEW f \in FSM, NEW b \in Nat
  PROVE  After(f, Stuff(f, b))
<1>1. PICK x : x = Append(f.aout, b) /\ x \in Seq(Nat)
  BY FSMFields, AppendProperties
<1>2. CASE f.remct = 0
  <2>1. PICK g : g = [f EXCEPT !.aout = x, !.state = "endless"]
    OBVIOUS
  <2>2. g \in FSM /\ g.sent = f.sent
    BY <1>1, <2>1 DEF FSM
  <2>3. Stuff(f, b) = g
    BY <1>1, <1>2, <2>1 DEF Stuff, FSM
  <2> QED BY <2>2, <2>3, AfterSame
<1>3. CASE f.remct # 0
  <2>1. PICK r : r = f.remct - 1 /\ r \in Nat
    BY <1>3, FSMFields
  <2>2. PICK g : g = [f EXCEPT !.aout = x, !.remct = r]
    OBVIOUS
  <2>3. g \in FSM /\ g.sent = f.sent
    BY <1>1, <2>1, <2>2 DEF FSM
  <2>4. Stuff(f, b) = CheckFinish(g)
    BY <1>1, <1>3, <2>1, <2>2 DEF Stuff, FSM
  <2> QED BY <2>3, <2>4, AfterSame, CheckFinishAfter, AfterTwo
<1> QED BY <1>2, <1>3

LEMMA ReadSegmAfter ==
  ASSUME NEW f \in FSM, NEW b \in Nat
  PROVE  After(f, ReadSegm(f, b))
<1>1. "check-segm-fd" \in State
  BY DEF State
<1> QED BY <1>1, SetState, StuffAfter DEF ReadSegm

(* A byte leaves a state, and takes back no message.                       *)
LEMMA InhaleAfter ==
  ASSUME NEW f \in FSM, NEW b \in Nat
  PROVE  After(f, Inhale(f, b))
<1>1. /\ "check-version" \in State /\ "read-short-count" \in State
      /\ "read-segm" \in State /\ f.state \in State
  BY FSMFields DEF State
<1>2. CASE f.state = "start"
  BY <1>2, StartAfter DEF Inhale
<1>3. CASE f.state = "check-start-fd"
  BY <1>1, <1>3, StartAfter, SetState DEF Inhale
<1>4. CASE f.state = "check-version"
  BY <1>1, <1>4, StartAfter, SetState DEF Inhale
<1>5. CASE f.state = "read-short-count"
  BY <1>5, StartAfter, StufferAfter DEF Inhale
<1>6. CASE f.state = "read-segm"
  BY <1>6, ReadSegmAfter DEF Inhale
<1>7. CASE f.state = "check-segm-fd"
  <2>1. CASE b = FD
    BY <1>1, <1>7, <2>1, SetState DEF Inhale
  <2>2. CASE b # FD
    <3>1. PICK g : g = Stuff(f, FE) /\ After(f, g) /\ g \in FSM
      BY StuffAfter, Framing DEF After
    <3>2. PICK h : h = [g EXCEPT !.state = "read-segm"] /\ After(g, h) /\ h \in FSM
      BY <1>1, <3>1, SetState DEF After
    <3>3. After(f, h)
      BY <3>1, <3>2, AfterTwo
    <3>4. Inhale(f, b) = ReadSegm(h, b)
      BY <1>7, <2>2, <3>1, <3>2 DEF Inhale
    <3>5. After(h, ReadSegm(h, b))
      BY <3>2, ReadSegmAfter
    <3> QED BY <3>3, <3>4, <3>5, AfterTwo
  <2> QED BY <2>1, <2>2
<1>8. CASE f.state = "read-long-count"
  <2>1. CASE b < Base
    <3>1. PICK g : g = [f EXCEPT !.remct = b, !.state = "read-long-count-2"]
      OBVIOUS
    <3>2. g \in FSM /\ g.sent = f.sent
      BY <3>1 DEF FSM
    <3>3. Inhale(f, b) = g
      BY <1>8, <2>1, <3>1 DEF Inhale
    <3> QED BY <3>2, <3>3, AfterSame
  <2>2. CASE ~(b < Base)
    BY <1>8, <2>2, StartAfter DEF Inhale
  <2> QED BY <2>1, <2>2
<1>9. CASE f.state = "read-long-count-2"
  <2>1. f.remct + b * Base \in Nat
    <3>1. \A x, y \in Nat : x * y \in Nat
      OBVIOUS
    <3>2. b * Base \in Nat /\ f.remct \in Nat
      BY <3>1, FSMFields, Framing
    <3> QED BY <3>2
  <2> QED BY <1>9, <2>1, StartAfter, SegmInitAfter DEF Inhale
<1>10. CASE f.state \in {"endless", "error"}
  BY <1>10, AfterSame DEF Inhale
<1> QED BY <1>1, <1>2, <1>3, <1>4, <1>5, <1>6, <1>7, <1>8, <1>9, <1>10 DEF State

(* A byte keeps the machine a machine.                                     *)
LEMMA InhaleType ==
  ASSUME NEW f \in FSM, NEW b \in Nat
  PROVE  Inhale(f, b) \in FSM
BY InhaleAfter DEF After

-----------------------------------------------------------------------------
(* The bytes of a buffer, one after the other (SelfSync).                  *)

(* The equation that defines the states of INHALE-ALL.                     *)
Inhaling(f, buf, after) ==
  after = [i \in 0 .. Len(buf) |-> IF i = 0 THEN f ELSE Inhale(after[i - 1], buf[i])]

(* The states the machine goes through exist as a function, by induction.  *)
LEMMA InhalingExists ==
  ASSUME NEW f, NEW buf \in Seq(Nat)
  PROVE  \E after : Inhaling(f, buf, after)
<1> DEFINE Upto(n, a) == a = [i \in 0 .. n |-> IF i = 0 THEN f ELSE Inhale(a[i - 1], buf[i])]
           S == { n \in Nat : \E a : Upto(n, a) }
<1>1. 0 \in S
  <2> DEFINE a == [i \in 0 .. 0 |-> f]
  <2>1. Upto(0, a)
    OBVIOUS
  <2> QED BY <2>1
<1>2. ASSUME NEW n \in Nat, n \in S PROVE n + 1 \in S
  <2>1. PICK a : Upto(n, a)
    BY <1>2
  <2> DEFINE e == [i \in 0 .. n + 1 |-> IF i = n + 1 THEN Inhale(a[n], buf[n + 1]) ELSE a[i]]
  <2>2. ASSUME NEW i \in 0 .. n + 1
        PROVE  e[i] = IF i = 0 THEN f ELSE Inhale(e[i - 1], buf[i])
    <3>1. CASE i = n + 1
      <4>1. i # 0 /\ i - 1 = n /\ n \in 0 .. n + 1 /\ n # n + 1
        BY <3>1
      <4>2. e[n] = a[n]
        BY <4>1
      <4> QED BY <3>1, <4>1, <4>2
    <3>2. CASE i # n + 1 /\ i # 0
      <4>1. i \in 0 .. n /\ i - 1 \in 0 .. n + 1 /\ i - 1 # n + 1
        BY <3>2
      <4>2. e[i] = a[i] /\ e[i - 1] = a[i - 1]
        BY <3>2, <4>1
      <4>3. a[i] = Inhale(a[i - 1], buf[i])
        BY <2>1, <3>2, <4>1
      <4> QED BY <3>2, <4>2, <4>3
    <3>3. CASE i # n + 1 /\ i = 0
      <4>1. e[0] = a[0] /\ a[0] = f
        BY <2>1, <3>3
      <4> QED BY <3>3, <4>1
    <3> QED BY <3>1, <3>2, <3>3
  <2>3. e = [i \in 0 .. n + 1 |-> e[i]]
    OBVIOUS
  <2> HIDE DEF e
  <2>4. e = [i \in 0 .. n + 1 |-> IF i = 0 THEN f ELSE Inhale(e[i - 1], buf[i])]
    BY <2>2, <2>3
  <2>5. \E b : Upto(n + 1, b)
    BY <2>4
  <2> HIDE DEF Upto
  <2> QED BY <2>5
<1> HIDE DEF S
<1>3. \A n \in Nat : n \in S
  BY <1>1, <1>2, Induction
<1>4. Len(buf) \in S
  BY <1>3
<1> QED BY <1>4 DEF S, Inhaling

(* That function, one byte at a time.                                      *)
LEMMA InhalingStep ==
  ASSUME NEW f, NEW buf \in Seq(Nat), NEW a, Inhaling(f, buf, a)
  PROVE  a[0] = f /\ \A i \in 1 .. Len(buf) : a[i] = Inhale(a[i - 1], buf[i])
<1>1. PICK n \in Nat : n = Len(buf)
  OBVIOUS
<1>2. a = [i \in 0 .. n |-> IF i = 0 THEN f ELSE Inhale(a[i - 1], buf[i])]
  BY <1>1 DEF Inhaling
<1>3. a[0] = f
  BY <1>2
<1>4. ASSUME NEW i \in 1 .. n PROVE a[i] = Inhale(a[i - 1], buf[i])
  <2>1. i \in 0 .. n /\ i # 0
    OBVIOUS
  <2> QED BY <1>2, <2>1
<1> QED BY <1>1, <1>3, <1>4

(* The equation of the function in INHALE-ALL.                             *)
Remaining(buf, from) ==
  from = [i \in 1 .. Len(buf) + 1 |->
            [g \in FSM |-> IF i > Len(buf) THEN g ELSE from[i + 1][Inhale(g, buf[i])]]]

(* The equation that InhaleAll chooses a solution of has one.              *)
LEMMA RemainingExists ==
  ASSUME NEW buf \in Seq(Nat)
  PROVE  \E from : Remaining(buf, from)
<1> DEFINE n == Len(buf)
           Rest(r, i) == [g \in FSM |-> IF i > n THEN g ELSE r[i + 1][Inhale(g, buf[i])]]
           S == { k \in Nat : k <= n => \E r : r = [i \in (n + 1 - k) .. (n + 1) |-> Rest(r, i)] }
<1>0. n \in Nat
  OBVIOUS
<1> HIDE DEF n
<1>1. 0 \in S
  <2>1. PICK r : r = [i \in (n + 1) .. (n + 1) |-> [g \in FSM |-> g]]
    OBVIOUS
  <2>2. \A i \in (n + 1) .. (n + 1) : i > n
    BY <1>0
  <2>3. r = [i \in (n + 1) .. (n + 1) |-> Rest(r, i)]
    BY <2>1, <2>2
  <2>4. n + 1 - 0 = n + 1
    BY <1>0
  <2> HIDE DEF Rest
  <2> QED BY <2>3, <2>4
<1>2. ASSUME NEW k \in Nat, k \in S PROVE k + 1 \in S
  <2> SUFFICES ASSUME k + 1 <= n
               PROVE  \E r : r = [i \in (n + 1 - (k + 1)) .. (n + 1) |-> Rest(r, i)]
    OBVIOUS
  <2> DEFINE m == n - k
  <2>1. m \in Nat /\ m \in 1 .. n /\ n + 1 - k = m + 1 /\ n + 1 - (k + 1) = m
    BY <1>0
  <2>2. k <= n
    BY <1>0
  <2>3. PICK r : r = [i \in (m + 1) .. (n + 1) |-> Rest(r, i)]
    <3> HIDE DEF m, Rest
    <3> QED BY <1>2, <2>1, <2>2
  <2>4. PICK e : e = [i \in m .. (n + 1) |-> IF i = m THEN Rest(r, m) ELSE r[i]]
    OBVIOUS
  <2> HIDE DEF m
  <2>5. ASSUME NEW i \in m .. (n + 1) PROVE e[i] = Rest(e, i)
    <3>1. CASE i = m
      <4>1. m + 1 \in m .. (n + 1) /\ m + 1 # m
        BY <1>0, <2>1
      <4>2. e[m + 1] = r[m + 1] /\ e[m] = Rest(r, m)
        <5> HIDE DEF Rest
        <5> QED BY <2>4, <4>1, <3>1
      <4>3. Rest(e, m) = Rest(r, m)
        BY <4>2
      <4> HIDE DEF Rest
      <4> QED BY <3>1, <4>2, <4>3
    <3>2. CASE i # m
      <4>1. /\ i \in (m + 1) .. (n + 1)
            /\ i <= n => i + 1 \in m .. (n + 1) /\ i + 1 # m
        BY <1>0, <2>1, <3>2
      <4>2. e[i] = r[i] /\ r[i] = Rest(r, i) /\ (i <= n => e[i + 1] = r[i + 1])
        <5> HIDE DEF Rest
        <5> QED BY <2>3, <2>4, <3>2, <4>1
      <4>3. i > n \/ i <= n
        BY <1>0, <2>1
      <4>4. Rest(e, i) = Rest(r, i)
        <5>1. CASE i > n
          BY <5>1
        <5>2. CASE i <= n
          BY <4>2, <5>2
        <5> QED BY <4>3, <5>1, <5>2
      <4> HIDE DEF Rest
      <4> QED BY <4>2, <4>4
    <3> QED BY <3>1, <3>2
  <2> HIDE DEF Rest
  <2>6. e = [i \in m .. (n + 1) |-> e[i]]
    BY <2>4
  <2>7. e = [i \in m .. (n + 1) |-> Rest(e, i)]
    BY <2>5, <2>6
  <2> QED BY <2>1, <2>7
<1> HIDE DEF S
<1>3. \A k \in Nat : k \in S
  BY <1>1, <1>2, Induction
<1>4. n \in S
  BY <1>0, <1>3
<1>5. n <= n /\ n + 1 - n = 1
  BY <1>0
<1>6. \E r : r = [i \in 1 .. (n + 1) |-> Rest(r, i)]
  <2> HIDE DEF Rest
  <2> QED BY <1>4, <1>5 DEF S
<1> QED BY <1>6 DEF n, Remaining

(* Of typed states, INHALE-ALL reaches the last.                           *)
LEMMA InhaleAllIs ==
  ASSUME NEW f \in FSM, NEW buf \in Seq(Nat), NEW a, Inhaling(f, buf, a)
  PROVE  /\ \A i \in 0 .. Len(buf) : a[i] \in FSM
         /\ InhaleAll(f, buf) = a[Len(buf)]
<1> DEFINE n == Len(buf)
<1>1. /\ n \in Nat /\ \A i \in 1 .. n : buf[i] \in Nat
      /\ a[0] = f /\ \A i \in 1 .. n : a[i] = Inhale(a[i - 1], buf[i])
  BY InhalingStep
<1> HIDE DEF n
<1>2. \A i \in 0 .. n : a[i] \in FSM
  <2> DEFINE S == { i \in Nat : i <= n => a[i] \in FSM }
  <2>1. 0 \in S
    BY <1>1
  <2>2. ASSUME NEW i \in Nat, i \in S PROVE i + 1 \in S
    <3> SUFFICES ASSUME i + 1 <= n PROVE a[i + 1] \in FSM
      OBVIOUS
    <3>1. i + 1 \in 1 .. n /\ (i + 1) - 1 = i /\ i <= n
      BY <1>1
    <3>2. a[i] \in FSM
      BY <2>2, <3>1
    <3>3. a[i + 1] = Inhale(a[i], buf[i + 1]) /\ buf[i + 1] \in Nat
      BY <1>1, <3>1
    <3> QED BY <3>2, <3>3, InhaleType
  <2> HIDE DEF S
  <2>3. \A i \in Nat : i \in S
    BY <2>1, <2>2, Induction
  <2> QED BY <2>3 DEF S
<1>3. PICK from : from = CHOOSE r : Remaining(buf, r)
  OBVIOUS
<1>4. Remaining(buf, from)
  BY <1>3, RemainingExists
<1>5. \A i \in 1 .. (n + 1) : \A g \in FSM :
        from[i][g] = IF i > n THEN g ELSE from[i + 1][Inhale(g, buf[i])]
  <2>1. from = [i \in 1 .. n + 1 |->
                  [g \in FSM |-> IF i > n THEN g ELSE from[i + 1][Inhale(g, buf[i])]]]
    BY <1>4 DEF Remaining, n
  <2>2. ASSUME NEW i \in 1 .. n + 1, NEW g \in FSM
        PROVE  from[i][g] = IF i > n THEN g ELSE from[i + 1][Inhale(g, buf[i])]
    <3>1. from[i] = [h \in FSM |-> IF i > n THEN h ELSE from[i + 1][Inhale(h, buf[i])]]
      BY <2>1
    <3> QED BY <3>1
  <2> QED BY <2>2
<1>6. InhaleAll(f, buf) = from[1][f]
  BY <1>3 DEF InhaleAll, Remaining
<1>7. \A i \in 0 .. n : from[i + 1][a[i]] = from[1][f]
  <2> DEFINE S == { i \in Nat : i <= n => from[i + 1][a[i]] = from[1][f] }
  <2>1. 0 \in S
    BY <1>1
  <2>2. ASSUME NEW i \in Nat, i \in S PROVE i + 1 \in S
    <3> SUFFICES ASSUME i + 1 <= n PROVE from[(i + 1) + 1][a[i + 1]] = from[1][f]
      OBVIOUS
    <3>1. i + 1 \in 1 .. n /\ i + 1 \in 1 .. (n + 1) /\ (i + 1) - 1 = i /\ i <= n
          /\ i \in 0 .. n /\ ~(i + 1 > n)
      BY <1>1
    <3>2. from[i + 1][a[i]] = from[1][f] /\ a[i] \in FSM
      BY <1>2, <2>2, <3>1
    <3>3. a[i + 1] = Inhale(a[i], buf[i + 1])
      BY <1>1, <3>1
    <3>4. from[i + 1][a[i]] = from[(i + 1) + 1][Inhale(a[i], buf[i + 1])]
      BY <1>5, <3>1, <3>2
    <3> QED BY <3>2, <3>3, <3>4
  <2> HIDE DEF S
  <2>3. \A i \in Nat : i \in S
    BY <2>1, <2>2, Induction
  <2> QED BY <2>3 DEF S
<1>8. from[n + 1][a[n]] = a[n]
  <2>1. n + 1 \in 1 .. (n + 1) /\ n + 1 > n /\ a[n] \in FSM
    BY <1>1, <1>2
  <2> QED BY <1>5, <2>1
<1> QED BY <1>1, <1>2, <1>6, <1>7, <1>8 DEF n

(* A buffer in two parts.                                                  *)
LEMMA InhaleConcat ==
  ASSUME NEW f \in FSM, NEW x \in Seq(Nat), NEW y \in Seq(Nat)
  PROVE  InhaleAll(f, x \o y) = InhaleAll(InhaleAll(f, x), y)
<1>1. x \o y \in Seq(Nat)
  OBVIOUS
<1>2. PICK z : z \in Seq(Nat) /\ z = x \o y
  BY <1>1
<1>3. PICK a : Inhaling(f, z, a)
  BY <1>2, InhalingExists
<1> DEFINE m == Len(x)
           n == Len(y)
           c == [i \in 0 .. m |-> a[i]]
           d == [i \in 0 .. n |-> a[m + i]]
<1>4. m \in Nat /\ n \in Nat /\ Len(z) = m + n
  BY <1>2
<1>5. \A i \in 1 .. m : z[i] = x[i]
  BY <1>2
<1>6. \A i \in 1 .. n : z[m + i] = y[i]
  BY <1>2
<1> HIDE DEF m, n
<1>7. a[0] = f /\ \A i \in 1 .. (m + n) : a[i] = Inhale(a[i - 1], z[i])
  <2>1. z \in Seq(Nat)
    BY <1>2
  <2>2. a[0] = f /\ \A i \in 1 .. Len(z) : a[i] = Inhale(a[i - 1], z[i])
    BY <1>3, <2>1, InhalingStep
  <2> QED BY <1>4, <2>2
<1>8. Inhaling(f, x, c)
  <2>1. c = [i \in 0 .. m |-> IF i = 0 THEN f ELSE Inhale(c[i - 1], x[i])]
    <3>1. ASSUME NEW i \in 0 .. m
          PROVE  c[i] = IF i = 0 THEN f ELSE Inhale(c[i - 1], x[i])
      <4>1. CASE i = 0
        BY <1>4, <1>7, <4>1
      <4>2. CASE i # 0
        <5>1. i \in 1 .. m /\ i \in 1 .. (m + n) /\ i - 1 \in 0 .. m
          BY <1>4, <4>2
        <5> QED BY <1>5, <1>7, <4>2, <5>1
      <4> QED BY <4>1, <4>2
    <3> QED BY <3>1
  <2> HIDE DEF c
  <2> QED BY <2>1 DEF Inhaling, m
<1>9. Inhaling(a[m], y, d)
  <2>1. d = [i \in 0 .. n |-> IF i = 0 THEN a[m] ELSE Inhale(d[i - 1], y[i])]
    <3>1. ASSUME NEW i \in 0 .. n
          PROVE  d[i] = IF i = 0 THEN a[m] ELSE Inhale(d[i - 1], y[i])
      <4>1. CASE i = 0
        BY <1>4, <4>1
      <4>2. CASE i # 0
        <5>1. i \in 1 .. n /\ m + i \in 1 .. (m + n) /\ i - 1 \in 0 .. n
              /\ (m + i) - 1 = m + (i - 1)
          BY <1>4, <4>2
        <5>2. a[m + i] = Inhale(a[(m + i) - 1], z[m + i])
          BY <1>7, <5>1
        <5>3. d[i - 1] = a[m + (i - 1)] /\ d[i] = a[m + i]
          BY <5>1
        <5> QED BY <1>6, <4>2, <5>1, <5>2, <5>3
      <4> QED BY <4>1, <4>2
    <3> QED BY <3>1
  <2> HIDE DEF d
  <2> QED BY <2>1 DEF Inhaling, n
<1>10. InhaleAll(f, x) = c[m] /\ c[m] = a[m]
  BY <1>4, <1>8, InhaleAllIs DEF m
<1>11. InhaleAll(f, x \o y) = a[m + n] /\ a[m] \in FSM
  <2>1. m \in 0 .. m + n
    BY <1>4
  <2> QED BY <1>2, <1>3, <1>4, <2>1, InhaleAllIs
<1>12. InhaleAll(a[m], y) = d[n] /\ d[n] = a[m + n]
  <2>1. a[m] \in FSM
    BY <1>4, <1>11
  <2>2. d[n] = a[m + n]
    BY <1>4
  <2> HIDE DEF d
  <2>3. InhaleAll(a[m], y) = d[n]
    BY <1>9, <2>1, InhaleAllIs DEF n
  <2> QED BY <2>2, <2>3
<1> QED BY <1>2, <1>10, <1>11, <1>12

(* No bytes, and one byte.                                                 *)
LEMMA InhaleNone == \A f \in FSM : InhaleAll(f, <<>>) = f
<1> SUFFICES ASSUME NEW f \in FSM PROVE InhaleAll(f, <<>>) = f
  OBVIOUS
<1>1. PICK buf \in Seq(Nat) : buf = <<>> /\ Len(buf) = 0
  BY EmptySeq
<1>2. PICK a : Inhaling(f, buf, a)
  BY InhalingExists
<1>3. a[0] = f
  BY <1>1, <1>2 DEF Inhaling
<1> QED BY <1>1, <1>2, <1>3, InhaleAllIs

LEMMA InhaleOne == \A f \in FSM : \A b \in Nat : InhaleAll(f, <<b>>) = Inhale(f, b)
<1> SUFFICES ASSUME NEW f \in FSM, NEW b \in Nat PROVE InhaleAll(f, <<b>>) = Inhale(f, b)
  OBVIOUS
<1>1. PICK buf \in Seq(Nat) : buf = <<b>> /\ Len(buf) = 1 /\ buf[1] = b
  <2>1. <<b>> \in Seq(Nat) /\ Len(<<b>>) = 1 /\ <<b>>[1] = b
    OBVIOUS
  <2> QED BY <2>1
<1>2. PICK a : Inhaling(f, buf, a)
  BY InhalingExists
<1>3. a[0] = f /\ a[1] = Inhale(a[0], buf[1])
  BY <1>1, <1>2 DEF Inhaling
<1> QED BY <1>1, <1>2, <1>3, InhaleAllIs

-----------------------------------------------------------------------------
(* A segment (SelfSync).                                                   *)

LEMMA InnerByte ==
  ASSUME NEW g \in FSM, g.state = "read-segm", g.remct > 1, NEW b \in Nat, b # FE
  PROVE  Inhale(g, b) = [g EXCEPT !.aout = Append(@, b), !.remct = @ - 1]
<1>1. PICK h : h = [g EXCEPT !.aout = Append(@, b), !.remct = @ - 1]
  OBVIOUS
<1>2. g.remct # 0 /\ h.remct # 0
  BY <1>1, FSMFields DEF FSM
<1>3. CheckFinish(h) = h
  BY <1>2 DEF CheckFinish
<1>4. Stuff(g, b) = CheckFinish(h)
  BY <1>1, <1>2 DEF Stuff
<1> QED BY <1>1, <1>3, <1>4 DEF Inhale, ReadSegm

LEMMA HeldByte ==
  ASSUME NEW g \in FSM, g.state = "read-segm", g.remct > 1
  PROVE  Inhale(g, FE) = [g EXCEPT !.state = "check-segm-fd"]
BY DEF Inhale, ReadSegm

LEMMA LastByte ==
  ASSUME NEW g \in FSM, g.state = "read-segm", g.remct = 1, NEW b \in Nat
  PROVE  Inhale(g, b) = CheckFinish([g EXCEPT !.aout = Append(@, b), !.remct = 0])
<1>1. [g EXCEPT !.aout = Append(@, b), !.remct = @ - 1] = [g EXCEPT !.aout = Append(@, b), !.remct = 0]
  BY DEF FSM
<1>2. Stuff(g, b) = CheckFinish([g EXCEPT !.aout = Append(@, b), !.remct = @ - 1])
  BY DEF Stuff
<1> QED BY <1>1, <1>2 DEF Inhale, ReadSegm

(* An FE that was held back counts once it is no start of a start          *)
(* sequence.                                                               *)
LEMMA AfterHeld ==
  ASSUME NEW g \in FSM, g.state = "read-segm", g.remct > 1, NEW b \in Nat, b # FD
  PROVE  Inhale([g EXCEPT !.state = "check-segm-fd"], b) =
           Inhale([g EXCEPT !.aout = Append(@, FE), !.remct = @ - 1], b)
<1>1. PICK c, h : /\ c = [g EXCEPT !.state = "check-segm-fd"]
                  /\ h = [g EXCEPT !.aout = Append(@, FE), !.remct = @ - 1]
  OBVIOUS
<1>2. PICK k : k = [c EXCEPT !.aout = Append(@, FE), !.remct = @ - 1]
  OBVIOUS
<1>3. c.remct # 0 /\ k.remct # 0 /\ c.state = "check-segm-fd" /\ h.state = "read-segm"
  BY <1>1, <1>2, FSMFields DEF FSM
<1>4. Stuff(c, FE) = k
  BY <1>2, <1>3 DEF Stuff, CheckFinish
<1>5. [k EXCEPT !.state = "read-segm"] = h
  BY <1>1, <1>2 DEF FSM
<1>6. Inhale(c, b) = ReadSegm(h, b)
  BY <1>3, <1>4, <1>5 DEF Inhale
<1>7. Inhale(h, b) = ReadSegm(h, b)
  BY <1>3 DEF Inhale
<1> QED BY <1>1, <1>6, <1>7

LEMMA ConcatOne ==
  \A x, y \in Seq(Nat), b \in Nat : x \o (y \o <<b>>) = Append(x \o y, b)
<1> SUFFICES ASSUME NEW x \in Seq(Nat), NEW y \in Seq(Nat), NEW b \in Nat
             PROVE  x \o (y \o <<b>>) = Append(x \o y, b)
  OBVIOUS
<1>1. <<b>> \in Seq(Nat) /\ x \o y \in Seq(Nat)
  OBVIOUS
<1>2. x \o (y \o <<b>>) = (x \o y) \o <<b>>
  BY <1>1, ConcatAssociative
<1> QED BY <1>1, <1>2, AppendIsConcat

(* All bytes of a segment, in which there is no start sequence.            *)
LEMMA SegmentRead ==
  ASSUME NEW f \in FSM, f.state = "read-segm", NEW buf \in Seq(Nat), buf # <<>>,
         f.remct = Len(buf),
         \A j \in 1 .. Len(buf) - 1 : ~(buf[j] = FE /\ buf[j + 1] = FD)
  PROVE  InhaleAll(f, buf) = CheckFinish([f EXCEPT !.remct = 0, !.aout = f.aout \o buf])
<1> DEFINE n == Len(buf)
           P(j) == f.aout \o SubSeq(buf, 1, j)
           R(j) == [f EXCEPT !.remct = n - j, !.aout = P(j)]
<1>1. n \in Nat /\ n >= 1 /\ \A j \in 1 .. n : buf[j] \in Nat
  BY EmptySeq
<1>2. PICK a : Inhaling(f, buf, a)
  BY InhalingExists
<1>3. /\ a[0] = f /\ \A j \in 1 .. n : a[j] = Inhale(a[j - 1], buf[j])
      /\ InhaleAll(f, buf) = a[n]
  BY <1>2, InhalingStep, InhaleAllIs
<1>4. f.aout \in Seq(Nat)
  BY FSMFields
<1>5. ASSUME NEW j \in 0 .. n
      PROVE  /\ P(j) \in Seq(Nat)
             /\ j < n => P(j + 1) = Append(P(j), buf[j + 1])
  <2>1. SubSeq(buf, 1, j) \in Seq(Nat)
    OBVIOUS
  <2>2. P(j) \in Seq(Nat)
    BY <1>4, <2>1
  <2>3. ASSUME j < n PROVE P(j + 1) = Append(P(j), buf[j + 1])
    <3>1. SubSeq(buf, 1, j + 1) = SubSeq(buf, 1, j) \o <<buf[j + 1]>>
      <4>1. 1 \in 1 .. Len(buf) /\ j + 1 \in 1 .. Len(buf) /\ (j + 1) - 1 = j
        BY <1>1, <2>3
      <4> QED BY <4>1, SubSeqRecursiveSecond
    <3>2. buf[j + 1] \in Nat
      BY <1>1, <2>3
    <3>3. f.aout \o (SubSeq(buf, 1, j) \o <<buf[j + 1]>>) =
            Append(f.aout \o SubSeq(buf, 1, j), buf[j + 1])
      BY <1>4, <2>1, <3>2, ConcatOne
    <3> QED BY <3>1, <3>3
  <2> QED BY <2>2, <2>3
<1>6. P(0) = f.aout /\ P(n) = f.aout \o buf
  <2>1. SubSeq(buf, 1, 0) = <<>> /\ SubSeq(buf, 1, n) = buf
    BY SubSeqEmpty, SubSeqFull
  <2> QED BY <1>4, <2>1, ConcatEmptySeq
<1> HIDE DEF n, P
<1>7. ASSUME NEW j \in 0 .. n - 1
      PROVE  /\ R(j) \in FSM /\ R(j).state = "read-segm" /\ R(j).remct = n - j
             /\ R(j).aout = P(j)
  <2>1. n - j \in Nat /\ P(j) \in Seq(Nat)
    BY <1>1, <1>5
  <2> QED BY <2>1 DEF FSM
<1>8. ASSUME NEW j \in 0 .. n - 1, j < n - 1
      PROVE  R(j + 1) = [R(j) EXCEPT !.aout = Append(@, buf[j + 1]), !.remct = @ - 1]
  <2>1. P(j + 1) = Append(P(j), buf[j + 1]) /\ n - (j + 1) = (n - j) - 1
    BY <1>1, <1>5, <1>8
  <2> QED BY <2>1 DEF FSM
<1>9. \A j \in 0 .. n - 1 : Inhale(a[j], buf[j + 1]) = Inhale(R(j), buf[j + 1])
  <2> DEFINE Fits(j) == \/ a[j] = R(j)
                        \/ /\ j > 0 /\ buf[j] = FE
                           /\ a[j] = [R(j - 1) EXCEPT !.state = "check-segm-fd"]
  <2>1. ASSUME NEW j \in 0 .. n - 1, Fits(j)
        PROVE  Inhale(a[j], buf[j + 1]) = Inhale(R(j), buf[j + 1])
    <3>1. CASE a[j] = R(j)
      BY <3>1
    <3>2. CASE /\ j > 0 /\ buf[j] = FE
               /\ a[j] = [R(j - 1) EXCEPT !.state = "check-segm-fd"]
      <4>1. j \in 1 .. n - 1 /\ j - 1 \in 0 .. n - 1 /\ j - 1 < n - 1 /\ (j - 1) + 1 = j
            /\ n - (j - 1) > 1 /\ j + 1 \in 1 .. n
        BY <1>1, <3>2
      <4>2. buf[j + 1] # FD /\ buf[j + 1] \in Nat
        BY <1>1, <3>2, <4>1 DEF n
      <4>3. R(j) = [R(j - 1) EXCEPT !.aout = Append(@, FE), !.remct = @ - 1]
        BY <1>8, <3>2, <4>1
      <4>4. R(j - 1) \in FSM /\ R(j - 1).state = "read-segm" /\ R(j - 1).remct > 1
        BY <1>7, <4>1
      <4> HIDE DEF R
      <4>5. PICK g, b : g = R(j - 1) /\ b = buf[j + 1]
        OBVIOUS
      <4>6. Inhale([g EXCEPT !.state = "check-segm-fd"], b) =
              Inhale([g EXCEPT !.aout = Append(@, FE), !.remct = @ - 1], b)
        BY <4>2, <4>4, <4>5, AfterHeld
      <4> QED BY <3>2, <4>3, <4>5, <4>6
    <3> QED BY <2>1, <3>1, <3>2
  <2> DEFINE S == { j \in Nat : j <= n - 1 => Fits(j) }
  <2>2. 0 \in S
    <3>1. R(0) = f
      <4>1. n - 0 = f.remct /\ P(0) = f.aout
        BY <1>1, <1>6 DEF n
      <4> QED BY <4>1 DEF FSM
    <3> QED BY <1>3, <3>1
  <2>3. ASSUME NEW j \in Nat, j \in S PROVE j + 1 \in S
    <3> SUFFICES ASSUME j + 1 <= n - 1 PROVE Fits(j + 1)
      OBVIOUS
    <3>1. j \in 0 .. n - 1 /\ j < n - 1 /\ j + 1 \in 1 .. n /\ (j + 1) - 1 = j /\ j <= n - 1
          /\ n - j > 1 /\ j + 1 > 0
      BY <1>1
    <3>2. Fits(j)
      BY <2>3, <3>1
    <3>3. a[j + 1] = Inhale(R(j), buf[j + 1])
      <4> HIDE DEF R, Fits
      <4>1. a[j + 1] = Inhale(a[j], buf[j + 1])
        BY <1>3, <3>1
      <4> QED BY <2>1, <3>1, <3>2, <4>1
    <3>4. R(j) \in FSM /\ R(j).state = "read-segm" /\ R(j).remct > 1 /\ buf[j + 1] \in Nat
      BY <1>1, <1>7, <3>1
    <3>5. CASE buf[j + 1] = FE
      <4>1. a[j + 1] = [R(j) EXCEPT !.state = "check-segm-fd"]
        <5> HIDE DEF R
        <5> QED BY <3>3, <3>4, <3>5, HeldByte
      <4> HIDE DEF R
      <4> QED BY <3>1, <3>5, <4>1
    <3>6. CASE buf[j + 1] # FE
      <4>1. R(j + 1) = [R(j) EXCEPT !.aout = Append(@, buf[j + 1]), !.remct = @ - 1]
        BY <1>8, <3>1
      <4> HIDE DEF R
      <4>2. a[j + 1] = R(j + 1)
        BY <3>3, <3>4, <3>6, <4>1, InnerByte
      <4> QED BY <4>2
    <3> QED BY <3>5, <3>6
  <2> HIDE DEF S
  <2>4. \A j \in Nat : j \in S
    BY <2>2, <2>3, Induction
  <2>5. \A j \in 0 .. n - 1 : Fits(j)
    <3> HIDE DEF Fits
    <3> QED BY <1>1, <2>4 DEF S
  <2> HIDE DEF Fits, R
  <2> QED BY <2>1, <2>5
<1>10. n - 1 \in 0 .. n - 1 /\ n \in 1 .. n /\ (n - 1) + 1 = n /\ n - (n - 1) = 1 /\ n - 1 < n
       /\ n - 1 \in 0 .. n
  BY <1>1
<1>11. a[n] = Inhale(R(n - 1), buf[n])
  <2> HIDE DEF R
  <2> QED BY <1>3, <1>9, <1>10
<1>12. R(n - 1) \in FSM /\ R(n - 1).state = "read-segm" /\ R(n - 1).remct = 1
       /\ R(n - 1).aout = P(n - 1)
  BY <1>7, <1>10
<1>13. a[n] = CheckFinish([R(n - 1) EXCEPT !.aout = Append(@, buf[n]), !.remct = 0])
  <2> HIDE DEF R
  <2> QED BY <1>1, <1>10, <1>11, <1>12, LastByte
<1>14. P(n) = Append(P(n - 1), buf[n])
  BY <1>5, <1>10
<1>15. [R(n - 1) EXCEPT !.aout = Append(@, buf[n]), !.remct = 0] =
         [f EXCEPT !.remct = 0, !.aout = P(n)]
  BY <1>14 DEF FSM
<1> HIDE DEF R
<1> QED BY <1>3, <1>6, <1>13, <1>15

-----------------------------------------------------------------------------
(* What WRITE-RECORD cuts a sequence into (SelfSync).                      *)

LEMMA LeastExists ==
  ASSUME NEW T \in SUBSET Nat, T # {}
  PROVE  Min(T) \in T /\ \A n \in T : Min(T) <= n
<1>1. PICK R : IsWellFoundedOn(R, Nat) /\ \A m, n \in Nat : n < m => <<n, m>> \in R
  BY Descends
<1>2. PICK m \in T : \A n \in T : <<n, m>> \notin R
  BY <1>1, WFMin
<1>3. \A n \in T : ~(n < m) /\ n \in Nat /\ m \in Nat
  BY <1>1, <1>2
<1>4. \E x \in T : \A n \in T : x <= n
  BY <1>2, <1>3
<1> QED BY <1>4 DEF Min

Ends(s, start, max, e) == e = SegmentEnd(s, start, max)

(* A segment ends in front of the first start sequence, if it does not get *)
(* too long before.                                                        *)
LEMMA SegmentEnds ==
  ASSUME NEW s \in Seq(Nat), NEW start \in Nat, NEW max \in Nat,
         NEW e, Ends(s, start, max, e)
  PROVE  /\ e \in Nat /\ e <= start + max /\ e <= Len(s) + 1
         /\ start > Len(s) => e = Len(s) + 1
         /\ start <= Len(s) => e >= start
         /\ \A p \in start .. e - 1 : p < Len(s) => ~(s[p] = FE /\ s[p + 1] = FD)
         /\ e <= Len(s) /\ e < start + max =>
              e < Len(s) /\ s[e] = FE /\ s[e + 1] = FD
<1> DEFINE F == FindStartSeq(s, start)
           T == {start + max, Len(s) + 1} \cup F
<1>1. PICK n \in Nat : n = Len(s)
  OBVIOUS
<1>2. \A p : p \in F <=> p \in start .. n - 1 /\ s[p] = FE /\ s[p + 1] = FD
  BY <1>1 DEF FindStartSeq
<1> HIDE DEF F
<1>3. T \in SUBSET Nat /\ T # {} /\ start + max \in T /\ n + 1 \in T /\ F \subseteq T
  BY <1>1, <1>2
<1>4. \A x \in T : x = start + max \/ x = n + 1 \/ x \in F
  BY <1>1
<1>5. e = Min(T)
  BY DEF Ends, SegmentEnd, F
<1> HIDE DEF T
<1>6. e \in T /\ \A x \in T : e <= x
  BY <1>3, <1>5, LeastExists
<1>7. e \in Nat /\ e <= start + max /\ e <= n + 1
  BY <1>3, <1>6
<1>8. ASSUME start > n PROVE e = n + 1
  <2>1. \A x \in F : FALSE
    BY <1>2, <1>8
  <2> QED BY <1>4, <1>6, <1>7, <1>8, <2>1
<1>9. ASSUME start <= n PROVE e >= start
  BY <1>2, <1>4, <1>6, <1>9
<1>10. ASSUME NEW p \in start .. e - 1, p < n, s[p] = FE, s[p + 1] = FD PROVE FALSE
  <2>0. p \in start .. n - 1
    BY <1>7, <1>10
  <2>1. p \in F
    BY <1>2, <1>10, <2>0
  <2>2. e <= p /\ p <= e - 1 /\ p \in Nat
    BY <1>3, <1>6, <1>7, <2>1
  <2> QED BY <1>7, <2>2
<1>11. ASSUME e <= n, e < start + max PROVE e < n /\ s[e] = FE /\ s[e + 1] = FD
  <2>1. e \in F
    BY <1>4, <1>6, <1>7, <1>11
  <2> QED BY <1>2, <1>7, <2>1
<1> QED BY <1>1, <1>7, <1>8, <1>9, <1>10, <1>11

(* The two bytes of a count, and the count they are read as.               *)
LEMMA DivMod ==
  ASSUME NEW n \in Nat, NEW b \in Nat, b > 0
  PROVE  /\ n % b \in Nat /\ n % b < b /\ n \div b \in Nat
         /\ n = b * (n \div b) + (n % b)
OBVIOUS

LEMMA DivLess ==
  ASSUME NEW q \in Nat, NEW b \in Nat, NEW r \in Nat, b > 0, b * q + r <= b * b - 1
  PROVE  q < b
<1> SUFFICES ASSUME q >= b PROVE FALSE
  OBVIOUS
<1>1. b * q >= b * b
  <2>1. PICK d \in Nat : q = b + d
    <3>1. q - b \in Nat /\ q = b + (q - b)
      OBVIOUS
    <3> QED BY <3>1
  <2>2. b * q = b * b + b * d
    BY <2>1
  <2>3. b * d \in Nat /\ b * b \in Nat
    OBVIOUS
  <2> QED BY <2>2, <2>3
<1>2. b * q \in Nat /\ b * b \in Nat
  OBVIOUS
<1> QED BY <1>1, <1>2

(* A long segment has a count that two bytes below BASE can say.           *)
LEMMA LongCount ==
  /\ MaxLong \in Nat /\ MaxLong >= 1
  /\ \A n \in Nat : n <= MaxLong =>
       /\ n % Base \in Nat /\ n % Base < Base /\ n \div Base \in Nat /\ n \div Base < Base
       /\ (n % Base) + (n \div Base) * Base = n
<1>1. Base \in Nat /\ Base >= 2
  BY Framing
<1>2. PICK d \in Nat : Base = 2 + d
  <2>1. Base - 2 \in Nat /\ Base = 2 + (Base - 2)
    BY <1>1
  <2> QED BY <2>1
<1>3. Base * Base = 4 + 4 * d + d * d /\ d * d \in Nat
  BY <1>2
<1>4. Base * Base \in Nat /\ MaxLong = Base * Base - 1 /\ MaxLong \in Nat /\ MaxLong >= 1
  BY <1>2, <1>3 DEF MaxLong
<1>5. ASSUME NEW n \in Nat, n <= MaxLong
      PROVE  /\ n % Base \in Nat /\ n % Base < Base /\ n \div Base \in Nat /\ n \div Base < Base
             /\ (n % Base) + (n \div Base) * Base = n
  <2>1. PICK q, r, b : /\ q = n \div Base /\ r = n % Base /\ b = Base
                       /\ q \in Nat /\ r \in Nat /\ b \in Nat /\ b > 0 /\ r < b
                       /\ n = b * q + r
    <3>1. /\ n \div Base \in Nat /\ n % Base \in Nat /\ n % Base < Base
          /\ n = Base * (n \div Base) + (n % Base) /\ Base > 0
      BY <1>1, DivMod
    <3> QED BY <1>1, <3>1
  <2>2. b * q + r <= b * b - 1
    BY <1>4, <1>5, <2>1
  <2>3. q < b
    BY <2>1, <2>2, DivLess
  <2>4. r + q * b = n
    BY <2>1
  <2> QED BY <2>1, <2>3, <2>4
<1> QED BY <1>4, <1>5

(* One long segment and what follows it.                                   *)
SegmentOf(s, start, seg) ==
  LET e == SegmentEnd(s, start, MaxLong)  nb == e - start
  IN <<nb % Base, nb \div Base>> \o Bytes(s, start, e)
       \o (IF e > Len(s) THEN <<>> ELSE seg[NextStart(start, e, MaxLong)])

Segmenting(s, seg) == seg = [start \in Nat |-> SegmentOf(s, start, seg)]

LEMMA NextStarts ==
  ASSUME NEW s \in Seq(Nat), NEW start \in Nat, start <= Len(s), NEW max \in Nat, max >= 1,
         NEW e, Ends(s, start, max, e), e <= Len(s)
  PROVE  /\ NextStart(start, e, max) \in Nat
         /\ NextStart(start, e, max) > start
         /\ NextStart(start, e, max) <= Len(s) + 1
<1>1. PICK n \in Nat : n = Len(s)
  OBVIOUS
<1>2. /\ e \in Nat /\ e <= start + max /\ e >= start
      /\ e < start + max => e < n
  BY <1>1, SegmentEnds
<1>3. CASE e - start < max
  BY <1>1, <1>2, <1>3 DEF NextStart
<1>4. CASE ~(e - start < max)
  BY <1>1, <1>2, <1>4 DEF NextStart
<1> QED BY <1>3, <1>4

(* The equation of LongSegments has a solution, by induction from the end. *)
LEMMA SegmentingExists ==
  ASSUME NEW s \in Seq(Nat)
  PROVE  \E seg : Segmenting(s, seg)
<1>1. PICK n \in Nat : n = Len(s)
  OBVIOUS
<1> DEFINE D(k) == { j \in Nat : j + k > n }
           Upto(k, r) == r = [i \in D(k) |-> SegmentOf(s, i, r)]
           S == { k \in Nat : \E r : Upto(k, r) }
<1>2. ASSUME NEW i \in Nat, NEW r, NEW t,
             i <= n /\ SegmentEnd(s, i, MaxLong) <= n =>
               r[NextStart(i, SegmentEnd(s, i, MaxLong), MaxLong)] =
               t[NextStart(i, SegmentEnd(s, i, MaxLong), MaxLong)]
      PROVE  SegmentOf(s, i, r) = SegmentOf(s, i, t)
  <2>1. PICK e : e = SegmentEnd(s, i, MaxLong)
    OBVIOUS
  <2>2. e \in Nat /\ (i > n => e > n)
    <3>1. PICK max \in Nat : max = MaxLong
      BY LongCount
    <3>2. e \in Nat /\ (i > Len(s) => e = Len(s) + 1)
      <4>1. Ends(s, i, max, e)
        BY <2>1, <3>1 DEF Ends
      <4> QED BY <4>1, SegmentEnds
    <3> QED BY <1>1, <3>2
  <2>3. CASE e > n
    BY <1>1, <2>1, <2>3 DEF SegmentOf
  <2>4. CASE e <= n /\ i <= n
    BY <1>1, <1>2, <2>1, <2>4 DEF SegmentOf
  <2> QED BY <1>1, <2>2, <2>3, <2>4
<1>3. 0 \in S
  <2>1. PICK r : r = [i \in D(0) |-> SegmentOf(s, i, 0)]
    OBVIOUS
  <2>2. ASSUME NEW i \in D(0) PROVE SegmentOf(s, i, 0) = SegmentOf(s, i, r)
    <3>1. i \in Nat /\ ~(i <= n)
      BY <1>1
    <3> QED BY <1>2, <3>1
  <2> HIDE DEF D
  <2>3. r = [i \in D(0) |-> SegmentOf(s, i, r)]
    BY <2>1, <2>2
  <2> QED BY <2>3
<1>4. ASSUME NEW k \in Nat, k \in S PROVE k + 1 \in S
  <2>1. PICK r : r = [i \in D(k) |-> SegmentOf(s, i, r)]
    <3> HIDE DEF D
    <3> QED BY <1>4
  <2>2. PICK t : t = [i \in D(k + 1) |-> IF i \in D(k) THEN r[i] ELSE SegmentOf(s, i, r)]
    OBVIOUS
  <2>3. ASSUME NEW i \in D(k + 1) PROVE t[i] = SegmentOf(s, i, t)
    <3>1. t[i] = SegmentOf(s, i, r)
      <4> HIDE DEF D
      <4> QED BY <2>1, <2>2
    <3>2. ASSUME i <= n, SegmentEnd(s, i, MaxLong) <= n,
                 NEW j, j = NextStart(i, SegmentEnd(s, i, MaxLong), MaxLong)
          PROVE  r[j] = t[j]
      <4>1. j \in Nat /\ j > i
        <5>1. PICK e : e = SegmentEnd(s, i, MaxLong)
          OBVIOUS
        <5>2. Ends(s, i, MaxLong, e) /\ e <= Len(s) /\ i <= Len(s)
          BY <1>1, <3>2, <5>1 DEF Ends
        <5>3. j = NextStart(i, e, MaxLong)
          BY <3>2, <5>1
        <5> QED BY <5>2, <5>3, LongCount, NextStarts
      <4>2. j \in D(k) /\ j \in D(k + 1)
        BY <1>1, <4>1
      <4> HIDE DEF D
      <4> QED BY <2>2, <4>2
    <3>3. SegmentOf(s, i, r) = SegmentOf(s, i, t)
      BY <1>2, <3>2
    <3> QED BY <3>1, <3>3
  <2> HIDE DEF D
  <2>4. t = [i \in D(k + 1) |-> t[i]]
    BY <2>2
  <2>5. t = [i \in D(k + 1) |-> SegmentOf(s, i, t)]
    BY <2>3, <2>4
  <2> QED BY <2>5
<1> HIDE DEF S
<1>5. \A k \in Nat : k \in S
  BY <1>3, <1>4, Induction
<1>6. n + 1 \in S /\ D(n + 1) = Nat
  BY <1>1, <1>5
<1> HIDE DEF D
<1>7. PICK r : r = [i \in D(n + 1) |-> SegmentOf(s, i, r)]
  BY <1>6 DEF S
<1> QED BY <1>6, <1>7 DEF Segmenting

(* LongSegments satisfies its equation.                                    *)
LEMMA LongSegmentsIs ==
  ASSUME NEW s \in Seq(Nat), NEW start \in Nat, NEW e, e = SegmentEnd(s, start, MaxLong)
  PROVE  LongSegments(s, start) =
           <<(e - start) % Base, (e - start) \div Base>> \o Bytes(s, start, e)
             \o (IF e > Len(s) THEN <<>> ELSE LongSegments(s, NextStart(start, e, MaxLong)))
<1>1. PICK seg : seg = CHOOSE r : Segmenting(s, r)
  OBVIOUS
<1>2. Segmenting(s, seg)
  BY <1>1, SegmentingExists
<1>3. \A i : LongSegments(s, i) = seg[i]
  BY <1>1 DEF LongSegments, Segmenting, SegmentOf
<1>4. seg[start] = SegmentOf(s, start, seg)
  BY <1>2 DEF Segmenting
<1> QED BY <1>3, <1>4 DEF SegmentOf

-----------------------------------------------------------------------------
(* A record (SelfSync).                                                    *)

LEMMA PartOf ==
  ASSUME NEW s \in Seq(Nat), NEW a \in Nat, NEW b \in Nat, 1 <= a, a <= b + 1, b <= Len(s)
  PROVE  /\ SubSeq(s, a, b) \in Seq(Nat) /\ Len(SubSeq(s, a, b)) = b + 1 - a
         /\ \A i \in 1 .. b + 1 - a : SubSeq(s, a, b)[i] = s[a + i - 1]
<1>1. \A i \in a .. b : s[i] \in Nat
  OBVIOUS
<1>2. b - a + 1 = b + 1 - a /\ a \in Int /\ b \in Int
  OBVIOUS
<1>3. /\ SubSeq(s, a, b) \in Seq(Nat)
      /\ Len(SubSeq(s, a, b)) = IF a <= b THEN b - a + 1 ELSE 0
      /\ \A i \in 1 .. b - a + 1 : SubSeq(s, a, b)[i] = s[a + i - 1]
  BY <1>1, <1>2, SubSeqProperties
<1> QED BY <1>2, <1>3

(* Two sequences one after the other, and how to tell them apart again.    *)
LEMMA Joined ==
  ASSUME NEW x \in Seq(Nat), NEW y \in Seq(Nat)
  PROVE  /\ x \o y \in Seq(Nat) /\ Len(x \o y) = Len(x) + Len(y)
         /\ \A i \in 1 .. Len(x) : (x \o y)[i] = x[i]
         /\ \A i \in 1 .. Len(y) : (x \o y)[Len(x) + i] = y[i]
OBVIOUS

LEMMA JoinedParts ==
  ASSUME NEW x \in Seq(Nat), NEW y \in Seq(Nat)
  PROVE  /\ SubSeq(x \o y, 1, Len(x)) = x
         /\ SubSeq(x \o y, Len(x) + 1, Len(x) + Len(y)) = y
<1>1. PICK z : z = x \o y
  OBVIOUS
<1>2. PICK j, k \in Nat : j = Len(x) /\ k = Len(y)
  OBVIOUS
<1>3. /\ z \in Seq(Nat) /\ Len(z) = j + k /\ \A i \in 1 .. j : z[i] = x[i]
      /\ \A i \in 1 .. k : z[j + i] = y[i]
  BY <1>1, <1>2, Joined
<1>4. SubSeq(z, 1, j) = x
  <2>1. /\ SubSeq(z, 1, j) \in Seq(Nat) /\ Len(SubSeq(z, 1, j)) = j + 1 - 1
        /\ \A i \in 1 .. j + 1 - 1 : SubSeq(z, 1, j)[i] = z[1 + i - 1]
    BY <1>3, PartOf
  <2>2. j + 1 - 1 = j /\ \A i \in 1 .. j : 1 + i - 1 = i
    OBVIOUS
  <2> QED BY <1>2, <1>3, <2>1, <2>2, SeqEqual
<1>5. SubSeq(z, j + 1, j + k) = y
  <2>1. /\ SubSeq(z, j + 1, j + k) \in Seq(Nat)
        /\ Len(SubSeq(z, j + 1, j + k)) = (j + k) + 1 - (j + 1)
        /\ \A i \in 1 .. (j + k) + 1 - (j + 1) : SubSeq(z, j + 1, j + k)[i] = z[(j + 1) + i - 1]
    <3>1. j + 1 \in Nat /\ j + k \in Nat /\ 1 <= j + 1 /\ j + 1 <= (j + k) + 1
      OBVIOUS
    <3> QED BY <1>3, <3>1, PartOf
  <2>2. (j + k) + 1 - (j + 1) = k /\ \A i \in 1 .. k : (j + 1) + i - 1 = j + i
    OBVIOUS
  <2>3. PICK t : t = SubSeq(z, j + 1, j + k)
    OBVIOUS
  <2>4. t \in Seq(Nat) /\ Len(t) = k /\ \A i \in 1 .. k : t[i] = z[j + i]
    BY <2>1, <2>2, <2>3, Zenon
  <2>5. \A i \in 1 .. k : t[i] = y[i]
    BY <1>3, <2>4
  <2>6. t = y
    BY <1>2, <2>4, <2>5, SeqEqual
  <2> QED BY <2>3, <2>6
<1> QED BY <1>1, <1>2, <1>4, <1>5

(* S is what is cut into segments of the message M, and C its checksum.    *)
Framed(m, c, s) ==
  /\ m \in Seq(Nat) /\ c \in Seq(Nat) /\ s \in Seq(Nat)
  /\ c = Crc(<<Len(m)>> \o m)
  /\ Len(s) = HeaderLen + Len(m)
  /\ SubSeq(s, 1, CrcLen) = c /\ s[HeaderLen] = Len(m)
  /\ SubSeq(s, HeaderLen + 1, Len(s)) = m

Sendable(m) ==
  /\ m \in Seq(Nat)
  /\ Crc(<<Len(m)>> \o m) \in Seq(Nat) /\ Len(Crc(<<Len(m)>> \o m)) = CrcLen

(* Checksum, length and message make the sequence that is segmented.       *)
LEMMA FramedIs ==
  ASSUME NEW m, Sendable(m)
  PROVE  \E c : Framed(m, c, Crc(<<Len(m)>> \o m) \o <<Len(m)>> \o m)
<1>1. PICK c : c = Crc(<<Len(m)>> \o m)
  OBVIOUS
<1>2. c \in Seq(Nat) /\ Len(c) = CrcLen /\ m \in Seq(Nat) /\ Len(m) \in Nat
  BY <1>1 DEF Sendable
<1>3. PICK l : l = <<Len(m)>>
  OBVIOUS
<1>4. l \in Seq(Nat) /\ Len(l) = 1 /\ l[1] = Len(m)
  BY <1>2, <1>3
<1>5. PICK h : h = c \o l
  OBVIOUS
<1>6. /\ h \in Seq(Nat) /\ Len(h) = HeaderLen /\ h[HeaderLen] = Len(m)
      /\ SubSeq(h, 1, CrcLen) = c
  <2>1. /\ h \in Seq(Nat) /\ Len(h) = CrcLen + 1 /\ SubSeq(h, 1, CrcLen) = c
        /\ \A i \in 1 .. 1 : h[CrcLen + i] = l[i]
    <3>1. /\ c \o l \in Seq(Nat) /\ Len(c \o l) = Len(c) + Len(l)
          /\ \A i \in 1 .. Len(l) : (c \o l)[Len(c) + i] = l[i]
      BY <1>2, <1>4, Joined
    <3>2. SubSeq(c \o l, 1, Len(c)) = c
      BY <1>2, <1>4, JoinedParts
    <3> QED BY <1>2, <1>4, <1>5, <3>1, <3>2
  <2> QED BY <1>4, <2>1, Framing
<1>7. PICK s : s = h \o m
  OBVIOUS
<1>8. /\ s \in Seq(Nat) /\ Len(s) = HeaderLen + Len(m)
      /\ \A i \in 1 .. HeaderLen : s[i] = h[i]
      /\ SubSeq(s, 1, HeaderLen) = h /\ SubSeq(s, HeaderLen + 1, Len(s)) = m
  <2>1. /\ h \o m \in Seq(Nat) /\ Len(h \o m) = Len(h) + Len(m)
        /\ \A i \in 1 .. Len(h) : (h \o m)[i] = h[i]
    BY <1>2, <1>6, Joined
  <2>2. /\ SubSeq(h \o m, 1, Len(h)) = h
        /\ SubSeq(h \o m, Len(h) + 1, Len(h) + Len(m)) = m
    BY <1>2, <1>6, JoinedParts
  <2> QED BY <1>6, <1>7, <2>1, <2>2
<1>9. s[HeaderLen] = Len(m)
  BY <1>6, <1>8, Framing
<1>10. SubSeq(s, 1, CrcLen) = c
  <2>1. /\ SubSeq(s, 1, CrcLen) \in Seq(Nat) /\ Len(SubSeq(s, 1, CrcLen)) = CrcLen + 1 - 1
        /\ \A i \in 1 .. CrcLen + 1 - 1 : SubSeq(s, 1, CrcLen)[i] = s[1 + i - 1]
    <3>1. CrcLen \in Nat /\ 1 \in Nat /\ 1 <= CrcLen + 1 /\ CrcLen <= Len(s)
      BY <1>2, <1>8, Framing
    <3> QED BY <1>8, <3>1, PartOf
  <2>2. /\ Len(SubSeq(h, 1, CrcLen)) = CrcLen + 1 - 1
        /\ \A i \in 1 .. CrcLen + 1 - 1 : SubSeq(h, 1, CrcLen)[i] = h[1 + i - 1]
    <3>1. CrcLen \in Nat /\ 1 \in Nat /\ 1 <= CrcLen + 1 /\ CrcLen <= Len(h)
      BY <1>6, Framing
    <3> QED BY <1>6, <3>1, PartOf
  <2>3. \A i \in 1 .. CrcLen : s[1 + i - 1] = h[1 + i - 1]
    BY <1>8, Framing
  <2>4. CrcLen + 1 - 1 = CrcLen
    BY Framing
  <2>5. \A i \in 1 .. CrcLen : SubSeq(s, 1, CrcLen)[i] = c[i]
    BY <1>6, <2>1, <2>2, <2>3, <2>4
  <2> QED BY <1>2, <2>1, <2>4, <2>5, SeqEqual
<1>11. s = c \o l \o m
  BY <1>5, <1>7
<1>12. Framed(m, c, s)
  BY <1>1, <1>2, <1>8, <1>9, <1>10 DEF Framed
<1>13. Framed(m, c, Crc(<<Len(m)>> \o m) \o <<Len(m)>> \o m)
  <2> HIDE <1>11
  <2>1. s = Crc(<<Len(m)>> \o m) \o <<Len(m)>> \o m
    BY <1>1, <1>3, <1>11, Zenon
  <2> QED BY <1>12, <2>1, Zenon
<1> QED BY <1>13

(* The machine has sent the message m, and is ready for the next record.   *)
SentOn(g, sends, m) == g \in FSM /\ g.state = "start" /\ g.sent = Append(sends, m)

(* It has read what comes before position i, and waits for a long segment. *)
HasRead(g, sends, c, s, i) ==
  /\ g \in FSM /\ g.state = "read-long-count" /\ g.sent = sends
  /\ g.nel = Len(s) /\ g.crcv = c /\ g.aout = SubSeq(s, 1, i - 1)

(* E is the end of a segment of s that begins at START.                    *)
EndOf(s, start, max, e) ==
  /\ e \in Nat /\ e >= start /\ e <= Len(s) + 1 /\ e <= start + max
  /\ e <= Len(s) /\ e < start + max => e < Len(s) /\ s[e] = FE /\ s[e + 1] = FD

(* The header is taken out of the first segment.                           *)
LEMMA HeaderTaken ==
  ASSUME NEW m, NEW c, NEW s, Framed(m, c, s), NEW e \in Nat, e >= 1, e <= Len(s) + 1,
         NEW g \in FSM, g.aout = SubSeq(s, 1, e - 1),
         \/ g.nel = 0 /\ e - 1 >= HeaderLen
         \/ g.nel = Len(s) /\ g.crcv = c
  PROVE  /\ ~(g.nel = 0 /\ Len(g.aout) < HeaderLen)
         /\ Len(g.aout) = e - 1
         /\ \E h \in FSM : /\ WithHeader(g) = h /\ h.nel = Len(s) /\ h.crcv = c
                           /\ h.aout = g.aout /\ h.need = g.need /\ h.sent = g.sent
<1>1. /\ m \in Seq(Nat) /\ c \in Seq(Nat) /\ s \in Seq(Nat)
      /\ Len(s) = HeaderLen + Len(m) /\ SubSeq(s, 1, CrcLen) = c /\ s[HeaderLen] = Len(m)
  BY DEF Framed
<1>2. PICK n, l, k \in Nat : /\ n = Len(s) /\ l = HeaderLen /\ k = CrcLen /\ l = k + 1
                            /\ k >= 1 /\ n = l + Len(m) /\ n >= 1
  <2>1. Len(m) \in Nat /\ Len(s) \in Nat
    BY <1>1
  <2> QED BY <1>1, <2>1, Framing
<1>3. PICK d \in Nat : e = d + 1
  <2>1. e - 1 \in Nat /\ e = (e - 1) + 1
    OBVIOUS
  <2> QED BY <2>1
<1>4. PICK x : x = g.aout
  OBVIOUS
<1>5. /\ x \in Seq(Nat) /\ Len(x) = d /\ \A i \in 1 .. d : x[i] = s[i]
  <2>1. g.aout = SubSeq(s, 1, d)
    <3>1. e - 1 = d
      BY <1>3
    <3> QED BY <3>1
  <2>2. /\ SubSeq(s, 1, d) \in Seq(Nat) /\ Len(SubSeq(s, 1, d)) = d + 1 - 1
        /\ \A i \in 1 .. d + 1 - 1 : SubSeq(s, 1, d)[i] = s[1 + i - 1]
    <3>1. d <= Len(s) /\ 1 \in Nat /\ 1 <= d + 1
      BY <1>1, <1>2, <1>3
    <3> QED BY <1>1, <3>1, PartOf
  <2>3. d + 1 - 1 = d /\ \A i \in 1 .. d : 1 + i - 1 = i
    OBVIOUS
  <2> QED BY <1>4, <2>1, <2>2, <2>3
<1>6. Len(g.aout) = e - 1
  BY <1>3, <1>4, <1>5
<1>7. CASE g.nel = 0 /\ e - 1 >= HeaderLen
  <2>1. d >= l
    BY <1>2, <1>3, <1>7
  <2>2. SubSeq(x, 1, k) = c
    <3>1. /\ SubSeq(x, 1, k) \in Seq(Nat) /\ Len(SubSeq(x, 1, k)) = k + 1 - 1
          /\ \A i \in 1 .. k + 1 - 1 : SubSeq(x, 1, k)[i] = x[1 + i - 1]
      <4>1. k <= Len(x) /\ 1 \in Nat /\ 1 <= k + 1
        BY <1>2, <1>5, <2>1
      <4> QED BY <1>5, <4>1, PartOf
    <3>2. /\ SubSeq(s, 1, k) \in Seq(Nat) /\ Len(SubSeq(s, 1, k)) = k + 1 - 1
          /\ \A i \in 1 .. k + 1 - 1 : SubSeq(s, 1, k)[i] = s[1 + i - 1]
      <4>1. k <= Len(s) /\ 1 \in Nat /\ 1 <= k + 1
        BY <1>1, <1>2
      <4> QED BY <1>1, <4>1, PartOf
    <3>3. k + 1 - 1 = k /\ \A i \in 1 .. k : 1 + i - 1 = i /\ i \in 1 .. d
      BY <1>2, <2>1
    <3>4. \A i \in 1 .. k : SubSeq(x, 1, k)[i] = SubSeq(s, 1, k)[i]
      BY <1>5, <3>1, <3>2, <3>3
    <3>5. SubSeq(x, 1, k) = SubSeq(s, 1, k)
      BY <3>1, <3>2, <3>3, <3>4, SeqEqual
    <3> QED BY <1>1, <1>2, <3>5
  <2>3. x[l] = Len(m)
    BY <1>1, <1>2, <1>5, <2>1
  <2>4. PICK h : h = [g EXCEPT !.crcv = c, !.nel = n]
    OBVIOUS
  <2>5. /\ h \in FSM /\ h.nel = n /\ h.crcv = c
        /\ h.aout = g.aout /\ h.need = g.need /\ h.sent = g.sent
    BY <1>1, <1>2, <2>4 DEF FSM
  <2>6. SubSeq(g.aout, 1, CrcLen) = c /\ HeaderLen + g.aout[HeaderLen] = n
    BY <1>1, <1>2, <1>4, <2>2, <2>3
  <2>7. WithHeader(g) = h
    BY <1>7, <2>4, <2>6 DEF WithHeader
  <2>8. ~(Len(g.aout) < HeaderLen)
    BY <1>2, <1>4, <1>5, <2>1
  <2> QED BY <1>2, <1>6, <2>5, <2>7, <2>8
<1>8. CASE g.nel = Len(s) /\ g.crcv = c
  <2>1. g.nel # 0
    <3>1. n # 0
      BY <1>2
    <3> QED BY <1>2, <1>8, <3>1, Zenon
  <2>2. WithHeader(g) = g
    BY <2>1 DEF WithHeader
  <2> QED BY <1>6, <1>8, <2>1, <2>2
<1> QED BY <1>7, <1>8

(* The bytes of a segment are read; and its end is dealt with.             *)
ReadTo(h, s, start, max, e) ==
  /\ h.nel = Len(s) /\ h.aout = SubSeq(s, 1, e - 1) /\ Len(h.aout) = e - 1
  /\ (h.need => e - start < max) /\ (e - start < max => h.need)

ReadOn(h, s, start, max, e, k) ==
  /\ Restored(h) = k /\ k.sent = h.sent /\ k.nel = h.nel /\ k.crcv = h.crcv
  /\ k.aout = IF e <= Len(s) THEN SubSeq(s, 1, NextStart(start, e, max) - 1) ELSE s

(* The start sequence that ended a segment is put back.                    *)
LEMMA PutBack ==
  ASSUME NEW s \in Seq(Nat), NEW start \in Nat, start >= 1, NEW max \in Nat, max >= 1,
         NEW e, EndOf(s, start, max, e),
         NEW h \in FSM, ReadTo(h, s, start, max, e)
  PROVE  \E k \in FSM : ReadOn(h, s, start, max, e, k)
<1> USE DEF ReadTo, ReadOn
<1>1. PICK n \in Nat : n = Len(s)
  OBVIOUS
<1>2. /\ e \in Nat /\ e >= start /\ e <= n + 1 /\ e <= start + max
      /\ e <= n /\ e < start + max => e < n /\ s[e] = FE /\ s[e + 1] = FD
  BY <1>1 DEF EndOf
<1>3. CASE e <= n /\ e - start < max
  <2>1. e < n /\ s[e] = FE /\ s[e + 1] = FD /\ e >= 1 /\ e + 1 <= Len(s)
    BY <1>1, <1>2, <1>3
  <2>2. NextStart(start, e, max) - 1 = e + 1
    <3>1. NextStart(start, e, max) = e + 2
      BY <1>3 DEF NextStart
    <3> QED BY <1>2, <3>1
  <2>3. PICK d \in Nat : d = e - 1 /\ e = d + 1 /\ e + 1 = d + 2 /\ d + 2 <= Len(s)
    BY <1>2, <2>1
  <2>4. PICK x, y : x = SubSeq(s, 1, d) /\ y = SubSeq(s, 1, d + 2)
    OBVIOUS
  <2>5. x \in Seq(Nat) /\ Len(x) = d /\ \A i \in 1 .. d : x[i] = s[i]
    <3>1. /\ SubSeq(s, 1, d) \in Seq(Nat) /\ Len(SubSeq(s, 1, d)) = d + 1 - 1
          /\ \A i \in 1 .. d + 1 - 1 : SubSeq(s, 1, d)[i] = s[1 + i - 1]
      <4>1. d <= Len(s) /\ 1 \in Nat /\ 1 <= d + 1
        BY <2>3
      <4> QED BY <4>1, PartOf
    <3>2. d + 1 - 1 = d /\ \A i \in 1 .. d : 1 + i - 1 = i
      OBVIOUS
    <3> QED BY <2>4, <3>1, <3>2
  <2>6. y \in Seq(Nat) /\ Len(y) = d + 2 /\ \A i \in 1 .. d + 2 : y[i] = s[i]
    <3>1. /\ SubSeq(s, 1, d + 2) \in Seq(Nat) /\ Len(SubSeq(s, 1, d + 2)) = (d + 2) + 1 - 1
          /\ \A i \in 1 .. (d + 2) + 1 - 1 : SubSeq(s, 1, d + 2)[i] = s[1 + i - 1]
      <4>1. d + 2 \in Nat /\ d + 2 <= Len(s) /\ 1 \in Nat /\ 1 <= (d + 2) + 1
        BY <2>3
      <4> QED BY <4>1, PartOf
    <3>2. (d + 2) + 1 - 1 = d + 2 /\ \A i \in 1 .. d + 2 : 1 + i - 1 = i
      OBVIOUS
    <3> QED BY <2>4, <3>1, <3>2
  <2>7. PICK z : z = <<FE, FD>>
    OBVIOUS
  <2>8. z \in Seq(Nat) /\ Len(z) = 2 /\ z[1] = FE /\ z[2] = FD
    BY <2>7, Framing
  <2>9. PICK v : v = x \o z
    OBVIOUS
  <2>10. /\ v \in Seq(Nat) /\ Len(v) = d + 2 /\ \A i \in 1 .. d : v[i] = s[i]
         /\ \A i \in 1 .. 2 : v[d + i] = z[i]
    <3>1. /\ x \o z \in Seq(Nat) /\ Len(x \o z) = Len(x) + Len(z)
          /\ \A i \in 1 .. Len(x) : (x \o z)[i] = x[i]
          /\ \A i \in 1 .. Len(z) : (x \o z)[Len(x) + i] = z[i]
      BY <2>5, <2>8, Joined
    <3> QED BY <2>5, <2>8, <2>9, <3>1
  <2>11. v = y
    <3>1. v[d + 1] = s[d + 1] /\ v[d + 2] = s[d + 2]
      <4>1. v[d + 1] = z[1] /\ v[d + 2] = z[2]
        BY <2>10
      <4>2. s[d + 1] = FE /\ s[d + 2] = FD
        BY <2>1, <2>3
      <4> QED BY <2>8, <4>1, <4>2
    <3>2. ASSUME NEW i \in 1 .. d + 2 PROVE v[i] = y[i]
      <4>1. i \in 1 .. d \/ i = d + 1 \/ i = d + 2
        OBVIOUS
      <4> QED BY <2>6, <2>10, <3>1, <4>1
    <3> QED BY <2>6, <2>10, <3>2, SeqEqual
  <2>12. h.need /\ Len(h.aout) < h.nel
    BY <1>1, <1>2, <1>3
  <2>13. h.aout \o <<FE, FD>> = y
    <3>1. h.aout = x
      BY <2>3, <2>4
    <3> QED BY <2>7, <2>9, <2>11, <3>1
  <2>14. PICK k : k = [h EXCEPT !.aout = y]
    OBVIOUS
  <2>15. /\ k \in FSM /\ k.sent = h.sent /\ k.nel = h.nel /\ k.crcv = h.crcv /\ k.aout = y
    BY <2>6, <2>14 DEF FSM
  <2>16. Restored(h) = k
    BY <2>12, <2>13, <2>14 DEF Restored
  <2>17. k.aout = SubSeq(s, 1, NextStart(start, e, max) - 1)
    BY <2>2, <2>3, <2>4, <2>15
  <2> QED BY <1>1, <1>3, <2>15, <2>16, <2>17
<1>4. CASE e <= n /\ ~(e - start < max)
  <2>1. NextStart(start, e, max) = e /\ Restored(h) = h
    BY <1>4 DEF NextStart, Restored
  <2> QED BY <1>1, <1>4, <2>1
<1>5. CASE ~(e <= n)
  <2>1. e - 1 = n
    BY <1>2, <1>5
  <2>2. h.aout = s
    BY <1>1, <2>1, SubSeqFull
  <2>3. Restored(h) = h
    BY <1>1, <2>1 DEF Restored
  <2> QED BY <1>1, <1>5, <2>2, <2>3
<1> QED BY <1>3, <1>4, <1>5

(* At the end of a segment; the first one holds the header.                *)
LEMMA SegmentEnded ==
  ASSUME NEW m, NEW c, NEW s, Framed(m, c, s),
         NEW start \in Nat, start >= 1, NEW max \in Nat, max >= 1,
         NEW e, EndOf(s, start, max, e),
         NEW g \in FSM, g.remct = 0, g.aout = SubSeq(s, 1, e - 1),
         g.need => e - start < max, e - start < max => g.need,
         \/ g.nel = 0 /\ e - 1 >= HeaderLen
         \/ g.nel = Len(s) /\ g.crcv = c
  PROVE  IF e <= Len(s) /\ NextStart(start, e, max) <= Len(s)
           THEN HasRead(CheckFinish(g), g.sent, c, s, NextStart(start, e, max))
           ELSE SentOn(CheckFinish(g), g.sent, m)
<1>1. /\ m \in Seq(Nat) /\ c \in Seq(Nat) /\ s \in Seq(Nat) /\ Len(m) \in Nat
      /\ Len(s) = HeaderLen + Len(m) /\ c = Crc(<<Len(m)>> \o m)
      /\ SubSeq(s, HeaderLen + 1, Len(s)) = m
  BY DEF Framed
<1>2. PICK n \in Nat : n = Len(s)
  BY <1>1
<1>3. /\ e \in Nat /\ e >= start /\ e <= n + 1 /\ e <= start + max
      /\ e <= n /\ e < start + max => e < n
  BY <1>2 DEF EndOf
<1>4. /\ ~(g.nel = 0 /\ Len(g.aout) < HeaderLen)
      /\ Len(g.aout) = e - 1
      /\ \E h \in FSM : /\ WithHeader(g) = h /\ h.nel = Len(s) /\ h.crcv = c
                        /\ h.aout = g.aout /\ h.need = g.need /\ h.sent = g.sent
  <2>1. e >= 1 /\ e <= Len(s) + 1
    BY <1>2, <1>3
  <2> QED BY <1>3, <2>1, HeaderTaken
<1>5. PICK h \in FSM : /\ WithHeader(g) = h /\ h.nel = Len(s) /\ h.crcv = c
                       /\ h.aout = g.aout /\ h.need = g.need /\ h.sent = g.sent
  BY <1>4
<1>6. \E k \in FSM : ReadOn(h, s, start, max, e, k)
  <2>1. h.aout = SubSeq(s, 1, e - 1) /\ Len(h.aout) = e - 1 /\ h.nel = Len(s)
    BY <1>4, <1>5, Zenon
  <2>2. (h.need => e - start < max) /\ (e - start < max => h.need)
    BY <1>5, Zenon
  <2>3. s \in Seq(Nat) /\ h \in FSM
    BY <1>1, <1>5
  <2>4. ReadTo(h, s, start, max, e)
    BY <2>1, <2>2, Zenon DEF ReadTo
  <2> QED BY <2>3, <2>4, PutBack
<1>7. PICK k \in FSM :
           /\ Restored(h) = k /\ k.sent = h.sent /\ k.nel = h.nel /\ k.crcv = h.crcv
           /\ k.aout = IF e <= Len(s) THEN SubSeq(s, 1, NextStart(start, e, max) - 1) ELSE s
  BY <1>6, Zenon DEF ReadOn
<1>12. k.nel = n /\ k.crcv = c /\ k.sent = g.sent
  BY <1>2, <1>5, <1>7
<1>8. CheckFinish(g) = IF Len(k.aout) < k.nel THEN [k EXCEPT !.state = "read-long-count"]
                                              ELSE Finish(k)
  BY <1>4, <1>5, <1>7 DEF CheckFinish
<1>9. PICK i : i = NextStart(start, e, max)
  OBVIOUS
<1>10. CASE e <= n /\ i <= n
  <2>1. i \in Nat /\ i >= 1
    BY <1>3, <1>9 DEF NextStart
  <2>2. Len(k.aout) = i - 1
    <3>1. PICK d \in Nat : d = i - 1 /\ d <= Len(s)
      BY <1>2, <1>10, <2>1
    <3>2. Len(SubSeq(s, 1, d)) = d + 1 - 1
      <4>1. 1 \in Nat /\ 1 <= d + 1
        OBVIOUS
      <4> QED BY <1>1, <3>1, <4>1, PartOf
    <3>3. k.aout = SubSeq(s, 1, d)
      BY <1>2, <1>7, <1>9, <1>10, <3>1
    <3> QED BY <3>1, <3>2, <3>3
  <2>3. Len(k.aout) < k.nel
    BY <1>10, <1>12, <2>1, <2>2
  <2>4. PICK q : q = [k EXCEPT !.state = "read-long-count"]
    OBVIOUS
  <2>5. /\ q \in FSM /\ q.state = "read-long-count" /\ q.sent = g.sent /\ q.nel = Len(s)
        /\ q.crcv = c /\ q.aout = k.aout
    BY <1>5, <1>7, <2>4 DEF FSM
  <2>6. CheckFinish(g) = q
    BY <1>8, <2>3, <2>4
  <2>7. q.aout = SubSeq(s, 1, i - 1)
    BY <1>2, <1>7, <1>9, <1>10, <2>5
  <2> QED BY <1>2, <1>9, <1>10, <2>5, <2>6, <2>7 DEF HasRead
<1>11. CASE ~(e <= n /\ i <= n)
  <2>1. k.aout = s
    <3>1. CASE e <= n
      <4>1. i - 1 = n
        BY <1>3, <1>9, <1>11, <3>1 DEF NextStart
      <4> QED BY <1>1, <1>2, <1>7, <1>9, <3>1, <4>1, SubSeqFull
    <3>2. CASE ~(e <= n)
      BY <1>2, <1>7, <3>2
    <3> QED BY <3>1, <3>2
  <2>2. ~(Len(k.aout) < k.nel)
    BY <1>2, <1>12, <2>1
  <2>3. SubSeq(k.aout, HeaderLen + 1, Len(k.aout)) = m
    BY <1>1, <2>1
  <2>4. k.nel - HeaderLen = Len(m)
    BY <1>1, <1>2, <1>12, Framing
  <2>5. Crc(<<k.nel - HeaderLen>> \o m) = k.crcv
    <3>1. Crc(<<k.nel - HeaderLen>> \o m) = Crc(<<Len(m)>> \o m)
      BY <2>4, Zenon
    <3> QED BY <1>1, <1>5, <1>7, <3>1
  <2>6. Finish(k) = [k EXCEPT !.state = "start", !.sent = Append(@, m)]
    BY <2>3, <2>5 DEF Finish
  <2>7. CheckFinish(g) = Finish(k)
    BY <1>8, <2>2
  <2>8. Finish(k) \in FSM
    BY FinishAfter DEF After
  <2>9. Finish(k).state = "start" /\ Finish(k).sent = Append(g.sent, m)
    BY <1>5, <1>7, <2>6 DEF FSM
  <2> QED BY <1>2, <1>9, <1>11, <2>7, <2>8, <2>9 DEF SentOn
<1> QED BY <1>10, <1>11

(* The bytes of a segment, and where it ends.                              *)
CutOut(s, start, max, e, b) ==
  /\ EndOf(s, start, max, e)
  /\ b \in Seq(Nat) /\ Len(b) = e - start
  /\ \A j \in 1 .. e - start - 1 : ~(b[j] = FE /\ b[j + 1] = FD)
  /\ SubSeq(s, 1, start - 1) \in Seq(Nat)
  /\ SubSeq(s, 1, start - 1) \o b = SubSeq(s, 1, e - 1)

(* The bytes of a segment hold no start sequence.                          *)
LEMMA SegmentBytes ==
  ASSUME NEW s \in Seq(Nat), NEW start \in Nat, start >= 1, start <= Len(s) + 1,
         NEW max \in Nat, NEW e, Ends(s, start, max, e)
  PROVE  CutOut(s, start, max, e, Bytes(s, start, e))
<1>0. /\ e \in Nat /\ e <= start + max /\ e <= Len(s) + 1
      /\ start > Len(s) => e = Len(s) + 1
      /\ start <= Len(s) => e >= start
      /\ \A p \in start .. e - 1 : p < Len(s) => ~(s[p] = FE /\ s[p + 1] = FD)
      /\ e <= Len(s) /\ e < start + max =>
           e < Len(s) /\ s[e] = FE /\ s[e + 1] = FD
  BY SegmentEnds
<1>1. PICK n \in Nat : n = Len(s)
  OBVIOUS
<1>2. /\ e \in Nat /\ e <= start + max /\ e <= n + 1
      /\ start > n => e = n + 1
      /\ start <= n => e >= start
      /\ \A p \in start .. e - 1 : p < n => ~(s[p] = FE /\ s[p + 1] = FD)
      /\ e <= n /\ e < start + max => e < n /\ s[e] = FE /\ s[e + 1] = FD
  BY <1>0, <1>1, Zenon
<1>3. e >= start
  BY <1>1, <1>2
<1>4. EndOf(s, start, max, e)
  BY <1>1, <1>2, <1>3 DEF EndOf
<1>5. PICK a, d \in Nat : a = start - 1 /\ start = a + 1 /\ d = e - 1 /\ e = d + 1 /\ a <= d /\ d <= n
  <2>1. /\ start - 1 \in Nat /\ start = (start - 1) + 1 /\ e - 1 \in Nat /\ e = (e - 1) + 1
        /\ start - 1 <= e - 1 /\ e - 1 <= n
    BY <1>2, <1>3
  <2> QED BY <2>1
<1>6. PICK b : b = SubSeq(s, start, d)
  OBVIOUS
<1>7. Bytes(s, start, e) = b
  BY <1>5, <1>6 DEF Bytes
<1>8. /\ b \in Seq(Nat) /\ Len(b) = e - start
      /\ \A i \in 1 .. e - start : b[i] = s[start + i - 1]
  <2>1. /\ SubSeq(s, start, d) \in Seq(Nat) /\ Len(SubSeq(s, start, d)) = d + 1 - start
        /\ \A i \in 1 .. d + 1 - start : SubSeq(s, start, d)[i] = s[start + i - 1]
    <3>1. start <= d + 1 /\ d <= Len(s)
      BY <1>1, <1>5
    <3> QED BY <3>1, PartOf
  <2>2. d + 1 - start = e - start
    BY <1>5
  <2> QED BY <1>6, <2>1, <2>2
<1>9. ASSUME NEW j \in 1 .. e - start - 1 PROVE ~(b[j] = FE /\ b[j + 1] = FD)
  <2>0. e \in Nat /\ e <= n + 1 /\ e >= start
    BY <1>2, <1>3
  <2>1. /\ j \in 1 .. e - start /\ j + 1 \in 1 .. e - start
        /\ start + (j + 1) - 1 = (start + j - 1) + 1
        /\ start + j - 1 \in start .. e - 1 /\ start + j - 1 < n
    BY <2>0
  <2>2. ~(s[start + j - 1] = FE /\ s[(start + j - 1) + 1] = FD)
    BY <1>2, <2>1
  <2>3. b[j] = s[start + j - 1] /\ b[j + 1] = s[(start + j - 1) + 1]
    <3>1. b[j] = s[start + j - 1] /\ b[j + 1] = s[start + (j + 1) - 1]
      BY <1>8, <2>1
    <3> QED BY <2>1, <3>1
  <2> QED BY <2>2, <2>3
<1>10. SubSeq(s, 1, a) \in Seq(Nat)
  <2>1. 1 \in Nat /\ 1 <= a + 1 /\ a <= Len(s)
    BY <1>1, <1>5
  <2> QED BY <2>1, PartOf
<1>11. SubSeq(s, 1, a) \o SubSeq(s, a + 1, d) = SubSeq(s, 1, d)
  <2>1. 1 \in 1 .. Len(s) + 1 /\ a \in 1 - 1 .. Len(s) /\ d \in a .. Len(s)
    BY <1>1, <1>5
  <2> QED BY <2>1, ConcatAdjacentSubSeq
<1>12. SubSeq(s, 1, start - 1) = SubSeq(s, 1, a) /\ SubSeq(s, 1, e - 1) = SubSeq(s, 1, d)
       /\ b = SubSeq(s, a + 1, d)
  BY <1>5, <1>6
<1>13. /\ SubSeq(s, 1, start - 1) \in Seq(Nat)
       /\ SubSeq(s, 1, start - 1) \o b = SubSeq(s, 1, e - 1)
  BY <1>10, <1>11, <1>12
<1> HIDE <1>7
<1>14. CutOut(s, start, max, e, b)
  BY <1>4, <1>8, <1>9, <1>13 DEF CutOut
<1> QED BY <1>7, <1>14, Zenon

(* What the machine makes of a segment that is well begun.                 *)
Goes(h, sends, m, c, s, start, e, max) ==
  IF e <= Len(s) /\ NextStart(start, e, max) <= Len(s)
    THEN HasRead(h, sends, c, s, NextStart(start, e, max))
    ELSE SentOn(h, sends, m)

(* A segment of e - start bytes is about to be read.                       *)
Ready(f, c, s, start, max, e) ==
  /\ f \in FSM /\ f.state = "read-segm" /\ f.remct = e - start
  /\ f.aout = SubSeq(s, 1, start - 1)
  /\ (f.need => e - start < max) /\ (e - start < max => f.need)
  /\ \/ f.nel = 0 /\ e - 1 >= HeaderLen
     \/ f.nel = Len(s) /\ f.crcv = c

(* The segment is read, and the machine is ready for what follows it.      *)
LEMMA SegmentTaken ==
  ASSUME NEW m, NEW c, NEW s, Framed(m, c, s),
         NEW start \in Nat, start >= 1, start <= Len(s) + 1, NEW max \in Nat, max >= 1,
         NEW e, Ends(s, start, max, e), NEW f, Ready(f, c, s, start, max, e)
  PROVE  Goes(InhaleAll(CheckFinish(f), Bytes(s, start, e)), f.sent, m, c, s, start, e, max)
<1>1. s \in Seq(Nat) /\ f \in FSM
  BY DEF Framed, Ready
<1>2. PICK b : b = Bytes(s, start, e)
  OBVIOUS
<1>3. /\ EndOf(s, start, max, e)
      /\ b \in Seq(Nat) /\ Len(b) = e - start
      /\ \A j \in 1 .. e - start - 1 : ~(b[j] = FE /\ b[j + 1] = FD)
      /\ SubSeq(s, 1, start - 1) \in Seq(Nat)
      /\ SubSeq(s, 1, start - 1) \o b = SubSeq(s, 1, e - 1)
  <2>1. CutOut(s, start, max, e, Bytes(s, start, e))
    BY <1>1, SegmentBytes
  <2> QED BY <1>2, <2>1, Zenon DEF CutOut
<1>4. e \in Nat /\ e >= start
  BY <1>3 DEF EndOf
<1>5. PICK x : x = SubSeq(s, 1, e - 1)
  OBVIOUS
<1>6. f.aout \o b = x /\ x \in Seq(Nat)
  <2>1. SubSeq(s, 1, start - 1) \o b \in Seq(Nat)
    BY <1>3, Joined
  <2> QED BY <1>3, <1>5, <2>1 DEF Ready
<1>7. PICK g : g = [f EXCEPT !.remct = 0, !.aout = x]
  OBVIOUS
<1>8. /\ g \in FSM /\ g.remct = 0 /\ g.aout = x /\ g.need = f.need /\ g.sent = f.sent
      /\ g.nel = f.nel /\ g.crcv = f.crcv
  BY <1>1, <1>6, <1>7 DEF FSM
<1>9. Goes(CheckFinish(g), f.sent, m, c, s, start, e, max)
  <2>1. /\ g.aout = SubSeq(s, 1, e - 1)
        /\ (g.need => e - start < max) /\ (e - start < max => g.need)
        /\ \/ g.nel = 0 /\ e - 1 >= HeaderLen
           \/ g.nel = Len(s) /\ g.crcv = c
    BY <1>5, <1>8, Zenon DEF Ready
  <2>2. IF e <= Len(s) /\ NextStart(start, e, max) <= Len(s)
          THEN HasRead(CheckFinish(g), g.sent, c, s, NextStart(start, e, max))
          ELSE SentOn(CheckFinish(g), g.sent, m)
    BY <1>3, <1>8, <2>1, SegmentEnded
  <2> QED BY <1>8, <2>2 DEF Goes
<1>10. CASE e = start
  <2>1. b = <<>>
    BY <1>3, <1>4, <1>10, EmptySeq
  <2>2. f.remct = 0
    BY <1>4, <1>10 DEF Ready
  <2>3. g = f
    <3>1. x = f.aout
      BY <1>5, <1>10 DEF Ready
    <3> QED BY <1>1, <1>7, <2>2, <3>1 DEF FSM
  <2>4. CheckFinish(f) \in FSM
    BY <1>1, CheckFinishAfter DEF After
  <2>5. InhaleAll(CheckFinish(f), b) = CheckFinish(g)
    BY <2>1, <2>3, <2>4, InhaleNone
  <2> QED BY <1>2, <1>9, <2>5
<1>11. CASE e # start
  <2>1. b # <<>> /\ f.remct # 0 /\ f.remct = Len(b) /\ f.state = "read-segm"
    <3>1. e - start # 0 /\ Len(b) # 0
      BY <1>3, <1>4, <1>11
    <3> QED BY <1>3, <3>1, EmptySeq DEF Ready
  <2>2. CheckFinish(f) = f
    BY <2>1 DEF CheckFinish
  <2>3. \A j \in 1 .. Len(b) - 1 : ~(b[j] = FE /\ b[j + 1] = FD)
    BY <1>3
  <2>4. InhaleAll(f, b) = CheckFinish([f EXCEPT !.remct = 0, !.aout = f.aout \o b])
    BY <1>1, <1>3, <2>1, <2>3, SegmentRead
  <2>5. InhaleAll(f, b) = CheckFinish(g)
    BY <1>6, <1>7, <2>4
  <2> QED BY <1>2, <1>9, <2>2, <2>5
<1> QED BY <1>10, <1>11

(* Induction over the places where long segments begin, from the last one. *)
Follows(s, start, max, P) ==
  \A e : Ends(s, start, max, e) /\ e <= Len(s) => NextStart(start, e, max) \in P

LEMMA FromTheEnd ==
  ASSUME NEW s \in Seq(Nat), NEW max \in Nat, max >= 1, NEW P,
         \A i \in 1 .. Len(s) + 1 : Follows(s, i, max, P) => i \in P
  PROVE  \A i \in 1 .. Len(s) + 1 : i \in P
<1>1. PICK n \in Nat : n = Len(s)
  OBVIOUS
<1> DEFINE S == { k \in Nat : \A i \in 1 .. n + 1 : i + k >= n + 1 => i \in P }
<1>2. ASSUME NEW i \in 1 .. n + 1, NEW e, Ends(s, i, max, e), e <= Len(s)
      PROVE  /\ i <= n
             /\ NextStart(i, e, max) \in 1 .. n + 1 /\ NextStart(i, e, max) > i
  <2>1. i \in Nat /\ (i > Len(s) => e = Len(s) + 1) /\ e \in Nat
    BY <1>2, SegmentEnds
  <2>2. i <= n
    BY <1>1, <1>2, <2>1
  <2>3. /\ NextStart(i, e, max) \in Nat /\ NextStart(i, e, max) > i
        /\ NextStart(i, e, max) <= Len(s) + 1
    BY <1>1, <1>2, <2>1, <2>2, NextStarts
  <2> QED BY <1>1, <2>1, <2>2, <2>3
<1>3. 0 \in S
  <2>1. ASSUME NEW i \in 1 .. n + 1, i + 0 >= n + 1 PROVE i \in P
    <3>1. i = n + 1
      BY <2>1
    <3>2. Follows(s, i, max, P)
      <4> SUFFICES ASSUME NEW e, Ends(s, i, max, e), e <= Len(s) PROVE FALSE
        BY Zenon DEF Follows
      <4> QED BY <1>2, <3>1
    <3> QED BY <1>1, <3>2
  <2> QED BY <2>1
<1>4. ASSUME NEW k \in Nat, k \in S PROVE k + 1 \in S
  <2>1. ASSUME NEW i \in 1 .. n + 1, i + (k + 1) >= n + 1 PROVE i \in P
    <3>1. Follows(s, i, max, P)
      <4> SUFFICES ASSUME NEW e, Ends(s, i, max, e), e <= Len(s)
                   PROVE  NextStart(i, e, max) \in P
        BY Zenon DEF Follows
      <4>1. PICK j \in 1 .. n + 1 : j = NextStart(i, e, max) /\ j > i
        BY <1>2
      <4>2. j + k >= n + 1
        BY <2>1, <4>1
      <4>3. j \in P
        BY <1>4, <4>2
      <4> QED BY <4>1, <4>3
    <3> QED BY <1>1, <3>1
  <2> QED BY <2>1
<1> HIDE DEF S
<1>5. n \in S
  BY <1>3, <1>4, Induction
<1>6. ASSUME NEW i \in 1 .. n + 1 PROVE i \in P
  <2>1. i + n >= n + 1
    OBVIOUS
  <2> QED BY <1>5, <2>1 DEF S
<1> QED BY <1>1, <1>6

(* A long segment: its count in two bytes, its bytes, and the rest.        *)
LongSplit(s, start, e, lo, hi, rest) ==
  /\ lo \in Nat /\ hi \in Nat /\ lo < Base /\ hi < Base /\ lo + hi * Base = e - start
  /\ LongSegments(s, start) = <<lo, hi>> \o Bytes(s, start, e) \o rest
  /\ e > Len(s) => rest = <<>>
  /\ e <= Len(s) => rest = LongSegments(s, NextStart(start, e, MaxLong))

(* The long segments are one segment and the long segments after it.       *)
LEMMA LongSplits ==
  ASSUME NEW s \in Seq(Nat), NEW start \in 1 .. Len(s) + 1, NEW e, Ends(s, start, MaxLong, e)
  PROVE  \E lo, hi, rest : LongSplit(s, start, e, lo, hi, rest)
<1>1. start \in Nat /\ start >= 1 /\ start <= Len(s) + 1 /\ MaxLong \in Nat
  BY LongCount
<1>2. e \in Nat /\ e >= start /\ e <= start + MaxLong
  <2>1. CutOut(s, start, MaxLong, e, Bytes(s, start, e))
    BY <1>1, SegmentBytes
  <2> QED BY <2>1 DEF CutOut, EndOf
<1>3. PICK nb \in Nat : nb = e - start /\ nb <= MaxLong
  <2>1. e - start \in Nat /\ e - start <= MaxLong
    BY <1>1, <1>2
  <2> QED BY <2>1
<1>4. PICK lo, hi : lo = nb % Base /\ hi = nb \div Base
  OBVIOUS
<1>5. lo \in Nat /\ hi \in Nat /\ lo < Base /\ hi < Base /\ lo + hi * Base = e - start
  <2>1. /\ nb % Base \in Nat /\ nb % Base < Base /\ nb \div Base \in Nat /\ nb \div Base < Base
        /\ (nb % Base) + (nb \div Base) * Base = nb
    BY <1>3, LongCount
  <2> QED BY <1>3, <1>4, <2>1, Zenon
<1>6. PICK rest : rest = IF e > Len(s) THEN <<>>
                                     ELSE LongSegments(s, NextStart(start, e, MaxLong))
  OBVIOUS
<1>7. LongSegments(s, start) = <<lo, hi>> \o Bytes(s, start, e) \o rest
  <2>1. LongSegments(s, start) =
           <<(e - start) % Base, (e - start) \div Base>> \o Bytes(s, start, e)
             \o (IF e > Len(s) THEN <<>> ELSE LongSegments(s, NextStart(start, e, MaxLong)))
    <3>1. e = SegmentEnd(s, start, MaxLong)
      BY DEF Ends
    <3> HIDE <1>3
    <3> QED BY <1>1, <3>1, LongSegmentsIs
  <2> QED BY <1>3, <1>4, <1>6, <2>1, Zenon
<1>8. /\ e > Len(s) => rest = <<>>
      /\ e <= Len(s) => rest = LongSegments(s, NextStart(start, e, MaxLong))
  BY <1>2, <1>6
<1> HIDE <1>3, <1>4, <1>6
<1>9. LongSplit(s, start, e, lo, hi, rest)
  BY <1>5, <1>7, <1>8, Zenon DEF LongSplit
<1> QED BY <1>9

LEMMA LongSegmentsType ==
  ASSUME NEW s \in Seq(Nat)
  PROVE  \A start \in 1 .. Len(s) + 1 :
           LongSegments(s, start) \in Seq(Nat) /\ LongSegments(s, start) # <<>>
<1> DEFINE P == { i \in Nat : LongSegments(s, i) \in Seq(Nat) /\ LongSegments(s, i) # <<>> }
<1>1. ASSUME NEW i \in 1 .. Len(s) + 1, Follows(s, i, MaxLong, P) PROVE i \in P
  <2>1. PICK e : Ends(s, i, MaxLong, e)
    BY DEF Ends
  <2>2. PICK lo, hi, rest : LongSplit(s, i, e, lo, hi, rest)
    BY <2>1, LongSplits
  <2>3. i \in Nat /\ i >= 1 /\ i <= Len(s) + 1 /\ MaxLong \in Nat
    BY LongCount
  <2>4. PICK b : b = Bytes(s, i, e) /\ b \in Seq(Nat) /\ e \in Nat
    <3>1. CutOut(s, i, MaxLong, e, Bytes(s, i, e))
      BY <2>1, <2>3, SegmentBytes
    <3> QED BY <3>1 DEF CutOut, EndOf
  <2>5. rest \in Seq(Nat)
    <3>1. CASE e > Len(s)
      BY <2>2, <3>1 DEF LongSplit
    <3>2. CASE e <= Len(s)
      <4>1. NextStart(i, e, MaxLong) \in P
        BY <1>1, <2>1, <3>2 DEF Follows
      <4> QED BY <2>2, <3>2, <4>1 DEF LongSplit
    <3> QED BY <2>4, <3>1, <3>2
  <2>6. PICK t : t = <<lo, hi>>
    OBVIOUS
  <2>7. t \in Seq(Nat) /\ Len(t) = 2
    <3>1. lo \in Nat /\ hi \in Nat
      BY <2>2 DEF LongSplit
    <3> QED BY <2>6, <3>1
  <2>8. PICK u \in Seq(Nat) : u = t \o b /\ Len(u) = 2 + Len(b)
    <3>1. t \o b \in Seq(Nat) /\ Len(t \o b) = Len(t) + Len(b)
      BY <2>4, <2>7, Joined
    <3> QED BY <2>7, <3>1
  <2>9. u \o rest \in Seq(Nat) /\ Len(u \o rest) # 0
    <3>1. u \o rest \in Seq(Nat) /\ Len(u \o rest) = Len(u) + Len(rest)
      BY <2>5, <2>8, Joined
    <3>2. Len(u) >= 2 /\ Len(u) \in Nat /\ Len(rest) \in Nat
      BY <2>4, <2>5, <2>8
    <3> QED BY <3>1, <3>2
  <2>10. LongSegments(s, i) = u \o rest
    BY <2>2, <2>4, <2>6, <2>8, Zenon DEF LongSplit
  <2>11. u \o rest # <<>>
    BY <2>9
  <2> QED BY <2>3, <2>9, <2>10, <2>11
<1> HIDE DEF P
<1>2. \A i \in 1 .. Len(s) + 1 : i \in P
  BY <1>1, LongCount, FromTheEnd
<1> QED BY <1>2 DEF P

LEMMA TwoBytes ==
  ASSUME NEW a \in Nat, NEW b \in Nat
  PROVE  /\ <<a>> \in Seq(Nat) /\ <<b>> \in Seq(Nat) /\ <<a, b>> \in Seq(Nat)
         /\ <<a, b>> = <<a>> \o <<b>>
<1>1. PICK x, y, z : x = <<a>> /\ y = <<b>> /\ z = <<a, b>>
  OBVIOUS
<1>2. /\ x \in Seq(Nat) /\ Len(x) = 1 /\ x[1] = a
      /\ y \in Seq(Nat) /\ Len(y) = 1 /\ y[1] = b
      /\ z \in Seq(Nat) /\ Len(z) = 2 /\ z[1] = a /\ z[2] = b
  BY <1>1
<1>3. PICK v : v = x \o y
  OBVIOUS
<1>4. /\ v \in Seq(Nat) /\ Len(v) = 2 /\ v[1] = a /\ v[2] = b
  <2>1. /\ x \o y \in Seq(Nat) /\ Len(x \o y) = Len(x) + Len(y)
        /\ \A i \in 1 .. Len(x) : (x \o y)[i] = x[i]
        /\ \A i \in 1 .. Len(y) : (x \o y)[Len(x) + i] = y[i]
    BY <1>2, Joined
  <2> QED BY <1>2, <1>3, <2>1
<1>5. \A i \in 1 .. Len(z) : z[i] = v[i]
  <2>1. \A i \in 1 .. Len(z) : i = 1 \/ i = 2
    BY <1>2
  <2> QED BY <1>2, <1>4, <2>1
<1>6. z = v
  BY <1>2, <1>4, <1>5, SeqEqual
<1> QED BY <1>1, <1>2, <1>3, <1>6, Zenon

(* The count of a long segment.                                            *)
LEMMA LongCountRead ==
  ASSUME NEW g \in FSM, g.state = "read-long-count",
         NEW lo \in Nat, NEW hi \in Nat, lo < Base, hi < Base
  PROVE  \E f \in FSM :
           /\ InhaleAll(g, <<lo, hi>>) = CheckFinish(f)
           /\ f.state = "read-segm" /\ f.remct = lo + hi * Base
           /\ (f.need => lo + hi * Base < MaxLong) /\ (lo + hi * Base < MaxLong => f.need)
           /\ f.aout = g.aout /\ f.nel = g.nel /\ f.crcv = g.crcv /\ f.sent = g.sent
<1>1. PICK nb \in Nat : nb = lo + hi * Base
  <2>1. \A x, y \in Nat : x * y \in Nat
    OBVIOUS
  <2>2. hi * Base \in Nat
    BY <2>1, Framing
  <2> QED BY <2>2
<1>2. PICK need \in BOOLEAN : need = (nb < MaxLong)
  <2>1. (nb < MaxLong) \in BOOLEAN
    OBVIOUS
  <2> QED BY <2>1, Zenon
<1>3. PICK h : h = [g EXCEPT !.remct = lo, !.state = "read-long-count-2"]
  OBVIOUS
<1>4. /\ h \in FSM /\ h.state = "read-long-count-2" /\ h.remct = lo
      /\ h.aout = g.aout /\ h.nel = g.nel /\ h.crcv = g.crcv /\ h.sent = g.sent
  BY <1>3 DEF FSM
<1>5. PICK f : f = [h EXCEPT !.state = "read-segm", !.remct = nb, !.need = need]
  OBVIOUS
<1>6. /\ f \in FSM /\ f.state = "read-segm" /\ f.remct = nb /\ f.need = need
      /\ f.aout = g.aout /\ f.nel = g.nel /\ f.crcv = g.crcv /\ f.sent = g.sent
  BY <1>4, <1>5 DEF FSM
<1>7. Inhale(g, lo) = h
  BY <1>3 DEF Inhale
<1>8. Inhale(h, hi) = CheckFinish(f)
  <2>1. Inhale(h, hi) = SegmInit(h, h.remct + hi * Base)
    BY <1>4 DEF Inhale
  <2>2. SegmInit(h, nb) = CheckFinish(f)
    BY <1>2, <1>5, Zenon DEF SegmInit
  <2> QED BY <1>1, <1>4, <2>1, <2>2, Zenon
<1>9. InhaleAll(g, <<lo, hi>>) = CheckFinish(f)
  <2>1. <<lo>> \in Seq(Nat) /\ <<hi>> \in Seq(Nat) /\ <<lo, hi>> = <<lo>> \o <<hi>>
    BY TwoBytes
  <2>2. InhaleAll(g, <<lo>> \o <<hi>>) = InhaleAll(InhaleAll(g, <<lo>>), <<hi>>)
    BY <2>1, InhaleConcat
  <2>3. InhaleAll(g, <<lo>>) = h /\ InhaleAll(h, <<hi>>) = CheckFinish(f)
    BY <1>4, <1>7, <1>8, InhaleOne
  <2> QED BY <2>1, <2>2, <2>3, Zenon
<1>10. /\ (f.need => lo + hi * Base < MaxLong) /\ (lo + hi * Base < MaxLong => f.need)
       /\ f.remct = lo + hi * Base
  BY <1>1, <1>2, <1>6, Zenon
<1> QED BY <1>6, <1>9, <1>10

(* Two parts and a third.                                                  *)
LEMMA InhaleThree ==
  ASSUME NEW f \in FSM, NEW x \in Seq(Nat), NEW y \in Seq(Nat), NEW z \in Seq(Nat)
  PROVE  InhaleAll(f, x \o y \o z) = InhaleAll(InhaleAll(InhaleAll(f, x), y), z)
<1>1. PICK v : v = x \o y /\ v \in Seq(Nat)
  BY Joined
<1>2. InhaleAll(f, v \o z) = InhaleAll(InhaleAll(f, v), z)
  BY <1>1, InhaleConcat
<1>3. InhaleAll(f, x \o y) = InhaleAll(InhaleAll(f, x), y)
  BY InhaleConcat
<1> QED BY <1>1, <1>2, <1>3, Zenon

(* Where a long segment is due, or the message is complete.                *)
Due(g, sends, m, c, s, i) ==
  \/ i <= Len(s) /\ HasRead(g, sends, c, s, i)
  \/ i = Len(s) + 1 /\ SentOn(g, sends, m)

(* The count of a long segment, and then the segment.                      *)
LEMMA LongRead ==
  ASSUME NEW m, NEW c, NEW s, Framed(m, c, s), NEW sends,
         NEW i \in Nat, i >= 1, i <= Len(s), NEW e, Ends(s, i, MaxLong, e),
         NEW g, HasRead(g, sends, c, s, i),
         NEW lo, NEW hi, NEW rest, LongSplit(s, i, e, lo, hi, rest)
  PROVE  LET h == InhaleAll(InhaleAll(g, <<lo, hi>>), Bytes(s, i, e))
         IN Goes(h, sends, m, c, s, i, e, MaxLong)
<1>1. /\ g \in FSM /\ g.state = "read-long-count" /\ g.sent = sends
      /\ g.nel = Len(s) /\ g.crcv = c /\ g.aout = SubSeq(s, 1, i - 1)
  BY DEF HasRead
<1>2. lo \in Nat /\ hi \in Nat /\ lo < Base /\ hi < Base /\ lo + hi * Base = e - i
  BY DEF LongSplit
<1>3. PICK f \in FSM :
           /\ InhaleAll(g, <<lo, hi>>) = CheckFinish(f)
           /\ f.state = "read-segm" /\ f.remct = lo + hi * Base
           /\ (f.need => lo + hi * Base < MaxLong) /\ (lo + hi * Base < MaxLong => f.need)
           /\ f.aout = g.aout /\ f.nel = g.nel /\ f.crcv = g.crcv /\ f.sent = g.sent
  BY <1>1, <1>2, LongCountRead
<1>4. Ready(f, c, s, i, MaxLong, e)
  BY <1>1, <1>2, <1>3, Zenon DEF Ready
<1>5. i <= Len(s) + 1 /\ MaxLong \in Nat /\ MaxLong >= 1
  <2>1. Len(s) \in Nat
    BY DEF Framed
  <2> QED BY <2>1, LongCount
<1>6. Goes(InhaleAll(CheckFinish(f), Bytes(s, i, e)), f.sent, m, c, s, i, e, MaxLong)
  <2>1. e = SegmentEnd(s, i, MaxLong)
    BY DEF Ends
  <2> HIDE <1>1, <1>2, <1>3
  <2> QED BY <1>4, <1>5, <2>1, SegmentTaken
<1> QED BY <1>1, <1>3, <1>6, Zenon

(* All long segments, from wherever one is due.                            *)
LEMMA LongSegmentsRead ==
  ASSUME NEW m, NEW c, NEW s, Framed(m, c, s), NEW sends
  PROVE  \A i \in 1 .. Len(s) + 1 : \A g :
           Due(g, sends, m, c, s, i) => SentOn(InhaleAll(g, LongSegments(s, i)), sends, m)
<1> DEFINE P == { i \in Nat : \A g :
             Due(g, sends, m, c, s, i) => SentOn(InhaleAll(g, LongSegments(s, i)), sends, m) }
<1>1. s \in Seq(Nat)
  BY DEF Framed
<1>2. ASSUME NEW i \in 1 .. Len(s) + 1, Follows(s, i, MaxLong, P),
             NEW g, Due(g, sends, m, c, s, i)
      PROVE  SentOn(InhaleAll(g, LongSegments(s, i)), sends, m)
  <2>1. PICK e : Ends(s, i, MaxLong, e)
    BY DEF Ends
  <2>2. PICK lo, hi, rest : LongSplit(s, i, e, lo, hi, rest)
    BY <1>1, <2>1, LongSplits
  <2>3. i \in Nat /\ i >= 1 /\ i <= Len(s) + 1 /\ MaxLong \in Nat
    BY <1>1, LongCount
  <2>4. CutOut(s, i, MaxLong, e, Bytes(s, i, e))
    BY <1>1, <2>1, <2>3, SegmentBytes
  <2>5. PICK b : b = Bytes(s, i, e) /\ b \in Seq(Nat) /\ e \in Nat /\ e <= Len(s) + 1
    BY <2>4 DEF CutOut, EndOf
  <2>6. /\ lo \in Nat /\ hi \in Nat /\ lo < Base /\ hi < Base /\ lo + hi * Base = e - i
        /\ LongSegments(s, i) = <<lo, hi>> \o b \o rest
        /\ e > Len(s) => rest = <<>>
        /\ e <= Len(s) => rest = LongSegments(s, NextStart(i, e, MaxLong))
    BY <2>2, <2>5, Zenon DEF LongSplit
  <2>7. <<lo, hi>> \in Seq(Nat)
    BY <2>6
  <2>8. g \in FSM
    BY <1>2 DEF Due, HasRead, SentOn
  <2>9. e <= Len(s) => NextStart(i, e, MaxLong) \in P
                       /\ NextStart(i, e, MaxLong) \in 1 .. Len(s) + 1
    <3> SUFFICES ASSUME e <= Len(s)
                 PROVE  NextStart(i, e, MaxLong) \in P
                        /\ NextStart(i, e, MaxLong) \in 1 .. Len(s) + 1
      OBVIOUS
    <3>1. NextStart(i, e, MaxLong) \in P
      BY <1>2, <2>1 DEF Follows
    <3>2. i <= Len(s)
      <4>1. i > Len(s) => e = Len(s) + 1
        BY <1>1, <2>1, <2>3, SegmentEnds
      <4> QED BY <1>1, <2>3, <4>1
    <3>3. /\ NextStart(i, e, MaxLong) \in Nat /\ NextStart(i, e, MaxLong) > i
          /\ NextStart(i, e, MaxLong) <= Len(s) + 1
      BY <1>1, <2>1, <2>3, <3>2, LongCount, NextStarts
    <3> QED BY <2>3, <3>1, <3>3
  <2>10. rest \in Seq(Nat)
    <3>1. e <= Len(s) \/ e > Len(s)
      BY <1>1, <2>5
    <3>2. CASE e <= Len(s)
      <4>1. LongSegments(s, NextStart(i, e, MaxLong)) \in Seq(Nat)
        BY <1>1, <2>9, <3>2, LongSegmentsType
      <4> QED BY <2>6, <3>2, <4>1
    <3>3. CASE e > Len(s)
      BY <2>6, <3>3
    <3> QED BY <3>1, <3>2, <3>3
  <2>11. InhaleAll(g, LongSegments(s, i)) =
           InhaleAll(InhaleAll(InhaleAll(g, <<lo, hi>>), b), rest)
    <3>1. InhaleAll(g, <<lo, hi>> \o b \o rest) =
            InhaleAll(InhaleAll(InhaleAll(g, <<lo, hi>>), b), rest)
      <4>1. b \in Seq(Nat)
        BY <2>5, Zenon
      <4>2. PICK a \in Seq(Nat) : a = <<lo, hi>>
        BY <2>7, Zenon
      <4>3. a \in Seq(Nat)
        BY <4>2, Zenon
      <4>4. InhaleAll(g, a \o b \o rest) = InhaleAll(InhaleAll(InhaleAll(g, a), b), rest)
        BY <2>8, <2>10, <4>1, <4>3, InhaleThree, SMT
      <4> QED BY <4>2, <4>4, Zenon
    <3>2. LongSegments(s, i) = <<lo, hi>> \o b \o rest
      BY <2>6, Zenon
    <3> QED BY <3>1, <3>2, Zenon
  <2>12. PICK h : h = InhaleAll(InhaleAll(g, <<lo, hi>>), b)
    OBVIOUS
  <2>13. CASE i <= Len(s) /\ HasRead(g, sends, c, s, i)
    <3>1. Goes(h, sends, m, c, s, i, e, MaxLong)
      BY <2>1, <2>2, <2>3, <2>5, <2>12, <2>13, LongRead
    <3>2. CASE e > Len(s)
      <4>1. SentOn(h, sends, m)
        BY <1>1, <2>5, <3>1, <3>2 DEF Goes
      <4>2. h \in FSM /\ rest = <<>>
        BY <2>6, <3>2, <4>1 DEF SentOn
      <4>3. InhaleAll(h, rest) = h
        BY <4>2, InhaleNone
      <4> QED BY <2>11, <2>12, <4>1, <4>3, Zenon
    <3>3. CASE e <= Len(s)
      <4>1. PICK j : j = NextStart(i, e, MaxLong) /\ j \in P /\ j \in 1 .. Len(s) + 1
        BY <2>9, <3>3
      <4>2. Due(h, sends, m, c, s, j)
        <5>1. CASE j <= Len(s)
          BY <3>1, <3>3, <4>1, <5>1 DEF Goes, Due
        <5>2. CASE ~(j <= Len(s))
          <6>1. j = Len(s) + 1
            BY <1>1, <4>1, <5>2
          <6>2. SentOn(h, sends, m)
            BY <3>1, <4>1, <5>2 DEF Goes
          <6> QED BY <6>1, <6>2 DEF Due
        <5> QED BY <5>1, <5>2
      <4>3. SentOn(InhaleAll(h, LongSegments(s, j)), sends, m)
        BY <4>1, <4>2
      <4> HIDE DEF P
      <4> QED BY <2>6, <2>11, <2>12, <3>3, <4>1, <4>3, Zenon
    <3> QED BY <1>1, <2>5, <3>2, <3>3
  <2>14. CASE i = Len(s) + 1 /\ SentOn(g, sends, m)
    <3>1. e = Len(s) + 1
      <4>1. i > Len(s)
        BY <1>1, <2>14
      <4> QED BY <1>1, <2>1, <2>3, <4>1, SegmentEnds
    <3>2. b = <<>>
      <4>1. e - i = 0
        BY <2>3, <2>14, <3>1
      <4>2. Len(b) = 0
        BY <2>4, <2>5, <4>1 DEF CutOut
      <4> QED BY <2>5, <4>2, EmptySeq
    <3>3. lo = 0 /\ hi = 0
      <4>1. lo + hi * Base = 0
        BY <2>3, <2>6, <2>14, <3>1
      <4>2. PICK d \in Nat : Base = d + 1
        <5>1. Base - 1 \in Nat /\ Base = (Base - 1) + 1
          BY Framing
        <5> QED BY <5>1
      <4>3. hi * Base = hi * d + hi /\ hi * d \in Nat
        BY <2>6, <4>2
      <4> QED BY <2>6, <4>1, <4>3
    <3>4. g.state = "start"
      BY <2>14 DEF SentOn
    <3>5. Inhale(g, 0) = g
      <4>1. 0 # FE
        BY Framing
      <4>2. Inhale(g, 0) = [g EXCEPT !.state = "start"]
        BY <3>4, <4>1 DEF Inhale, StartWith
      <4> QED BY <2>8, <3>4, <4>2 DEF FSM
    <3>6. InhaleAll(g, <<0, 0>>) = g
      <4>1. <<0>> \in Seq(Nat) /\ <<0, 0>> = <<0>> \o <<0>>
        BY TwoBytes
      <4>2. InhaleAll(g, <<0>>) = g
        BY <2>8, <3>5, InhaleOne
      <4> QED BY <2>8, <4>1, <4>2, InhaleConcat
    <3>7. rest = <<>>
      <4>1. e > Len(s)
        BY <1>1, <3>1
      <4> QED BY <2>6, <4>1
    <3>8. InhaleAll(g, <<>>) = g
      BY <2>8, InhaleNone
    <3> QED BY <2>11, <2>14, <3>2, <3>3, <3>6, <3>7, <3>8, Zenon
  <2> QED BY <1>2, <2>13, <2>14 DEF Due
<1>3. ASSUME NEW i \in 1 .. Len(s) + 1, Follows(s, i, MaxLong, P) PROVE i \in P
  BY <1>2, <1>3
<1> HIDE DEF P
<1>4. \A i \in 1 .. Len(s) + 1 : i \in P
  BY <1>1, <1>3, LongCount, FromTheEnd
<1> QED BY <1>4 DEF P

(* A machine that is stuck stays so.                                       *)
Stuck(g) == g \in FSM /\ g.state \in {"endless", "error"}

LEMMA StuckStays ==
  ASSUME NEW g, Stuck(g), NEW buf \in Seq(Nat)
  PROVE  InhaleAll(g, buf) = g
<1>1. PICK n \in Nat : n = Len(buf)
  OBVIOUS
<1>2. g \in FSM /\ g.state \in {"endless", "error"}
  BY DEF Stuck
<1>3. PICK a : Inhaling(g, buf, a)
  BY InhalingExists
<1>4. a[0] = g /\ \A i \in 1 .. n : a[i] = Inhale(a[i - 1], buf[i])
  BY <1>1, <1>3, InhalingStep
<1>5. \A b : Inhale(g, b) = g
  <2>1. /\ g.state # "start" /\ g.state # "check-start-fd" /\ g.state # "check-version"
        /\ g.state # "read-short-count" /\ g.state # "read-segm" /\ g.state # "check-segm-fd"
        /\ g.state # "read-long-count" /\ g.state # "read-long-count-2"
    BY <1>2
  <2> QED BY <1>2, <2>1 DEF Inhale
<1> DEFINE S == { i \in Nat : i <= n => a[i] = g }
<1>6. 0 \in S
  BY <1>4
<1>7. ASSUME NEW i \in Nat, i \in S PROVE i + 1 \in S
  <2> SUFFICES ASSUME i + 1 <= n PROVE a[i + 1] = g
    OBVIOUS
  <2>1. i + 1 \in 1 .. n /\ (i + 1) - 1 = i /\ i <= n
    BY <1>1
  <2>2. a[i] = g
    BY <1>7, <2>1
  <2>3. a[i + 1] = Inhale(a[i], buf[i + 1])
    BY <1>4, <2>1
  <2> QED BY <1>5, <2>2, <2>3
<1> HIDE DEF S
<1>8. n \in S
  BY <1>6, <1>7, Induction
<1>9. a[n] = g
  BY <1>8 DEF S
<1> QED BY <1>1, <1>2, <1>3, <1>9, InhaleAllIs

(* The start sequence, the version and the count of the short segment.     *)
LEMMA StartRead ==
  ASSUME NEW f \in FSM, f.state \in {"start", "check-version"}, NEW n \in Nat, n < Base
  PROVE  \E g \in FSM :
           /\ InhaleAll(f, <<FE, FD, Version, n>>) = g
           /\ g.state = "read-segm" /\ g.remct = n /\ g.nel = 0 /\ g.aout = <<>>
           /\ (g.need => n < MaxShort) /\ (n < MaxShort => g.need)
           /\ g.sent = f.sent
<1>1. FE \in Nat /\ FD \in Nat /\ Version \in Nat /\ FE # Version
  BY Framing
<1>2. PICK buf : buf = <<FE, FD, Version, n>>
  OBVIOUS
<1>3. /\ buf \in Seq(Nat) /\ Len(buf) = 4
      /\ buf[1] = FE /\ buf[2] = FD /\ buf[3] = Version /\ buf[4] = n
  BY <1>1, <1>2
<1>4. PICK a : Inhaling(f, buf, a)
  BY <1>3, InhalingExists
<1>5. /\ a[0] = f /\ a[1] = Inhale(f, FE) /\ a[2] = Inhale(a[1], FD)
      /\ a[3] = Inhale(a[2], Version) /\ a[4] = Inhale(a[3], n)
      /\ InhaleAll(f, buf) = a[4]
  <2>1. a[0] = f /\ \A i \in 1 .. 4 : a[i] = Inhale(a[i - 1], buf[i])
    <3>1. a[0] = f /\ \A i \in 1 .. Len(buf) : a[i] = Inhale(a[i - 1], buf[i])
      <4>1. buf \in Seq(Nat)
        BY <1>3
      <4> QED BY <1>4, <4>1, InhalingStep
    <3> QED BY <1>3, <3>1, Zenon
  <2>2. a[1] = Inhale(a[1 - 1], buf[1]) /\ a[2] = Inhale(a[2 - 1], buf[2])
        /\ a[3] = Inhale(a[3 - 1], buf[3]) /\ a[4] = Inhale(a[4 - 1], buf[4])
    BY <2>1
  <2>3. 1 - 1 = 0 /\ 2 - 1 = 1 /\ 3 - 1 = 2 /\ 4 - 1 = 3
    OBVIOUS
  <2>4. InhaleAll(f, buf) = a[4]
    BY <1>3, <1>4, InhaleAllIs
  <2> QED BY <1>3, <2>1, <2>2, <2>3, <2>4, Zenon
<1>6. a[1] = [f EXCEPT !.state = "check-start-fd"]
  BY <1>1, <1>5 DEF Inhale, StartWith
<1>7. a[1] \in FSM /\ a[1].state = "check-start-fd" /\ a[1].sent = f.sent
  BY <1>6 DEF FSM
<1>8. a[2] = [a[1] EXCEPT !.state = "check-version"]
  BY <1>5, <1>7 DEF Inhale
<1>9. a[2] \in FSM /\ a[2].state = "check-version" /\ a[2].sent = f.sent
  BY <1>7, <1>8 DEF FSM
<1>10. a[3] = [a[2] EXCEPT !.state = "read-short-count"]
  BY <1>5, <1>9 DEF Inhale
<1>11. a[3] \in FSM /\ a[3].state = "read-short-count" /\ a[3].sent = f.sent
  BY <1>9, <1>10 DEF FSM
<1>12. PICK h : h = a[3]
  OBVIOUS
<1>13. PICK need \in BOOLEAN : need = (n < MaxShort)
  <2>1. (n < MaxShort) \in BOOLEAN
    OBVIOUS
  <2> QED BY <2>1, Zenon
<1>14. PICK g : g = [h EXCEPT !.state = "read-segm", !.remct = n, !.need = need,
                              !.nel = 0, !.aout = <<>>]
  OBVIOUS
<1>15. /\ g \in FSM /\ g.state = "read-segm" /\ g.remct = n /\ g.nel = 0 /\ g.aout = <<>>
       /\ g.need = need /\ g.sent = f.sent
  <2>1. h \in FSM /\ h.sent = f.sent
    BY <1>11, <1>12
  <2> QED BY <1>14, <2>1, EmptyBytes DEF FSM
<1>16. StufferInit(h, n) = g
  BY <1>13, <1>14, Zenon DEF StufferInit
<1>17. a[4] = g
  <2>1. Inhale(h, n) = StufferInit(h, n)
    BY <1>11, <1>12 DEF Inhale
  <2> QED BY <1>5, <1>12, <1>16, <2>1, Zenon
<1>18. (g.need => n < MaxShort) /\ (n < MaxShort => g.need)
  BY <1>13, <1>15, Zenon
<1> QED BY <1>2, <1>5, <1>15, <1>17, <1>18, Zenon

(* A first segment that does not hold the header: the machine waits for    *)
(* the end of a segment that has none, or fails.                           *)
LEMMA ShortHeader ==
  ASSUME NEW g \in FSM, g.state = "read-segm", g.nel = 0, g.aout = <<>>,
         NEW b \in Seq(Nat), g.remct = Len(b), Len(b) < HeaderLen,
         \A j \in 1 .. Len(b) - 1 : ~(b[j] = FE /\ b[j + 1] = FD),
         NEW rest \in Seq(Nat), rest # <<>>
  PROVE  /\ Stuck(InhaleAll(InhaleAll(g, b), rest))
         /\ InhaleAll(InhaleAll(g, b), rest).sent = g.sent
<1>1. CASE b = <<>>
  <2>1. g.remct = 0 /\ InhaleAll(g, b) = g
    BY <1>1, InhaleNone, EmptySeq
  <2>2. PICK x, y : /\ x \in Nat /\ y \in Seq(Nat) /\ <<x>> \in Seq(Nat)
                    /\ rest = <<x>> \o y
    <3>1. rest = <<Head(rest)>> \o Tail(rest) /\ Head(rest) \in Nat /\ Tail(rest) \in Seq(Nat)
      <4>1. Head(rest) \in Nat /\ Tail(rest) \in Seq(Nat)
        BY HeadTailProperties
      <4>2. rest = <<Head(rest)>> \o Tail(rest)
        OBVIOUS
      <4> QED BY <4>1, <4>2
    <3>2. PICK x, y : x = Head(rest) /\ y = Tail(rest)
      OBVIOUS
    <3>3. x \in Nat /\ y \in Seq(Nat) /\ rest = <<x>> \o y
      BY <3>1, <3>2, Zenon
    <3> HIDE <3>2
    <3>4. <<x>> \in Seq(Nat)
      BY <3>3
    <3> QED BY <3>3, <3>4, Zenon
  <2>3. PICK v : v = Append(g.aout, x) /\ v \in Seq(Nat)
    <3>1. g.aout \in Seq(Nat)
      BY FSMFields
    <3>2. x \in Nat
      BY <2>2, Zenon
    <3>3. Append(g.aout, x) \in Seq(Nat)
      BY <3>1, <3>2, AppendProperties
    <3> QED BY <3>3
  <2>4. PICK h : h = [g EXCEPT !.aout = v, !.state = "endless"]
    OBVIOUS
  <2>5. h \in FSM /\ h.state = "endless" /\ h.sent = g.sent
    BY <2>3, <2>4 DEF FSM
  <2>6. Inhale(g, x) = h
    <3>1. Stuff(g, x) = h
      BY <2>1, <2>3, <2>4 DEF Stuff, FSM
    <3>2. ReadSegm(g, x) = Stuff(g, x)
      BY <2>1 DEF ReadSegm
    <3> QED BY <3>1, <3>2 DEF Inhale
  <2>7. InhaleAll(g, <<x>> \o y) = InhaleAll(InhaleAll(g, <<x>>), y)
    BY <2>2, InhaleConcat
  <2>8. InhaleAll(g, <<x>>) = h
    BY <2>2, <2>6, InhaleOne
  <2>9. Stuck(h)
    BY <2>5 DEF Stuck
  <2>10. InhaleAll(h, y) = h
    BY <2>2, <2>9, StuckStays
  <2> HIDE <2>4
  <2> QED BY <2>1, <2>2, <2>5, <2>7, <2>8, <2>9, <2>10, Zenon
<1>2. CASE b # <<>>
  <2>1. PICK k : k = [g EXCEPT !.remct = 0, !.aout = g.aout \o b]
    OBVIOUS
  <2>2. g.aout \o b = b
    BY ConcatEmptySeq
  <2>3. InhaleAll(g, b) = CheckFinish(k)
    BY <1>2, <2>1, SegmentRead
  <2>4. k \in FSM /\ k.remct = 0 /\ k.nel = 0 /\ k.aout = b /\ k.sent = g.sent
    BY <2>1, <2>2 DEF FSM
  <2>5. PICK h : h = [k EXCEPT !.state = "error"]
    OBVIOUS
  <2>6. CheckFinish(k) = h
    BY <2>4, <2>5 DEF CheckFinish
  <2>7. h \in FSM /\ h.state = "error" /\ h.sent = g.sent
    BY <2>4, <2>5 DEF FSM
  <2>8. Stuck(h)
    BY <2>7 DEF Stuck
  <2>9. InhaleAll(h, rest) = h
    BY <2>8, StuckStays
  <2> QED BY <2>3, <2>6, <2>7, <2>8, <2>9, Zenon
<1> QED BY <1>1, <1>2

(* What the machine makes of a record: it sends the message on, unless a   *)
(* start sequence begins in the header.                                    *)
HeaderWhole(m) ==
  SegmentEnd(Crc(<<Len(m)>> \o m) \o <<Len(m)>> \o m, 1, MaxShort) > HeaderLen

(* A record is read to its end, and one more message has been sent, or the *)
(* machine is stuck: a start sequence stands among its length and checksum.*)
LEMMA RecordRead ==
  ASSUME NEW m, Sendable(m), NEW f \in FSM, f.state \in {"start", "check-version"}
  PROVE  /\ Record(m) \in Seq(Nat)
         /\ HeaderWhole(m) => SentOn(InhaleAll(f, Record(m)), f.sent, m)
         /\ ~HeaderWhole(m) => /\ Stuck(InhaleAll(f, Record(m)))
                               /\ InhaleAll(f, Record(m)).sent = f.sent
<1>1. PICK s : s = Crc(<<Len(m)>> \o m) \o <<Len(m)>> \o m
  OBVIOUS
<1>2. PICK c : Framed(m, c, s)
  BY <1>1, FramedIs
<1>3. PICK e : e = SegmentEnd(s, 1, MaxShort)
  OBVIOUS
<1>4. Ends(s, 1, MaxShort, e)
  BY <1>3 DEF Ends
<1>5. HeaderWhole(m) <=> e > HeaderLen
  BY <1>1, <1>3 DEF HeaderWhole
<1>6. PICK b : b = Bytes(s, 1, e)
  OBVIOUS
<1>7. PICK rest : rest = IF e > Len(s) THEN <<>>
                                       ELSE LongSegments(s, NextStart(1, e, MaxShort))
  OBVIOUS
<1>8. PICK start : start = <<FE, FD, Version, e - 1>>
  OBVIOUS
<1>9. Record(m) = start \o b \o rest
  BY <1>1, <1>3, <1>6, <1>7, <1>8, Zenon DEF Record
<1> HIDE <1>1, <1>3
<1>10. s \in Seq(Nat) /\ Len(s) \in Nat /\ Len(s) >= HeaderLen
  <2>1. s \in Seq(Nat) /\ m \in Seq(Nat) /\ Len(s) = HeaderLen + Len(m)
    BY <1>2 DEF Framed
  <2>2. Len(m) \in Nat /\ HeaderLen \in Nat
    BY <2>1, Framing
  <2> QED BY <2>1, <2>2
<1>11. /\ 1 \in Nat /\ 1 <= Len(s) + 1 /\ 1 <= Len(s) /\ MaxShort \in Nat /\ MaxShort >= 1
       /\ HeaderLen \in Nat /\ HeaderLen >= 2 /\ MaxShort = Base - 1
       /\ Base \in Nat
  BY <1>10, Framing
<1>12. CutOut(s, 1, MaxShort, e, b)
  BY <1>4, <1>6, <1>10, <1>11, SegmentBytes
<1>13. e \in Nat /\ e >= 1 /\ e <= 1 + MaxShort /\ e <= Len(s) + 1
       /\ b \in Seq(Nat) /\ Len(b) = e - 1
       /\ \A j \in 1 .. e - 1 - 1 : ~(b[j] = FE /\ b[j + 1] = FD)
  BY <1>12 DEF CutOut, EndOf
<1>14. PICK n \in Nat : n = e - 1 /\ n < Base /\ e = n + 1
  <2>1. e - 1 \in Nat /\ e - 1 < Base /\ e = (e - 1) + 1
    BY <1>11, <1>13
  <2> QED BY <2>1
<1>15. start \in Seq(Nat)
  <2>1. FE \in Nat /\ FD \in Nat /\ Version \in Nat /\ start = <<FE, FD, Version, n>>
    BY <1>8, <1>14, Framing
  <2> QED BY <2>1
<1>16. ASSUME e <= Len(s)
       PROVE  /\ NextStart(1, e, MaxShort) \in 1 .. Len(s) + 1
              /\ rest = LongSegments(s, NextStart(1, e, MaxShort))
              /\ rest \in Seq(Nat) /\ rest # <<>>
  <2>1. /\ NextStart(1, e, MaxShort) \in Nat /\ NextStart(1, e, MaxShort) > 1
        /\ NextStart(1, e, MaxShort) <= Len(s) + 1
    BY <1>4, <1>10, <1>11, <1>16, NextStarts
  <2>2. NextStart(1, e, MaxShort) \in 1 .. Len(s) + 1
    BY <1>10, <2>1
  <2>3. rest = LongSegments(s, NextStart(1, e, MaxShort))
    <3>1. ~(e > Len(s))
      BY <1>10, <1>13, <1>16
    <3> QED BY <1>7, <3>1
  <2>4. LongSegments(s, NextStart(1, e, MaxShort)) \in Seq(Nat)
        /\ LongSegments(s, NextStart(1, e, MaxShort)) # <<>>
    BY <1>10, <2>2, LongSegmentsType
  <2> QED BY <2>2, <2>3, <2>4
<1>17. rest \in Seq(Nat)
  <2>1. CASE e > Len(s)
    BY <1>7, <2>1
  <2> QED BY <1>10, <1>13, <1>16, <2>1
<1>18. InhaleAll(f, Record(m)) = InhaleAll(InhaleAll(InhaleAll(f, start), b), rest)
  <2>1. InhaleAll(f, start \o b \o rest) = InhaleAll(InhaleAll(InhaleAll(f, start), b), rest)
    BY <1>13, <1>15, <1>17, InhaleThree
  <2> QED BY <1>9, <2>1, Zenon
<1>19. PICK g \in FSM :
           /\ InhaleAll(f, start) = g
           /\ g.state = "read-segm" /\ g.remct = n /\ g.nel = 0 /\ g.aout = <<>>
           /\ (g.need => n < MaxShort) /\ (n < MaxShort => g.need)
           /\ g.sent = f.sent
  <2>1. start = <<FE, FD, Version, n>>
    BY <1>8, <1>14
  <2>2. \E g \in FSM :
           /\ InhaleAll(f, <<FE, FD, Version, n>>) = g
           /\ g.state = "read-segm" /\ g.remct = n /\ g.nel = 0 /\ g.aout = <<>>
           /\ (g.need => n < MaxShort) /\ (n < MaxShort => g.need)
           /\ g.sent = f.sent
    BY <1>14, StartRead
  <2> QED BY <2>1, <2>2, Zenon
<1>20. PICK h : h = InhaleAll(g, b)
  OBVIOUS
<1>21. Record(m) \in Seq(Nat)
  <2>1. PICK u : u = start \o b /\ u \in Seq(Nat)
    BY <1>13, <1>15, Joined
  <2>2. u \o rest \in Seq(Nat)
    BY <1>17, <2>1, Joined
  <2> QED BY <1>9, <2>1, <2>2, Zenon
<1>22. CASE e > HeaderLen
  <2>1. n # 0 /\ n >= HeaderLen
    BY <1>11, <1>14, <1>22
  <2>2. CheckFinish(g) = g
    BY <1>19, <2>1 DEF CheckFinish
  <2>3. Ready(g, c, s, 1, MaxShort, e)
    <3>1. SubSeq(s, 1, 1 - 1) = <<>>
      <4>1. 1 - 1 = 0 /\ 0 < 1
        OBVIOUS
      <4> QED BY <4>1, SubSeqEmpty
    <3>2. g.remct = e - 1 /\ e - 1 >= HeaderLen
      BY <1>14, <1>19, <2>1
    <3>3. (g.need => e - 1 < MaxShort) /\ (e - 1 < MaxShort => g.need)
      BY <1>14, <1>19, Zenon
    <3> QED BY <1>19, <3>1, <3>2, <3>3, Zenon DEF Ready
  <2>4. Goes(h, f.sent, m, c, s, 1, e, MaxShort)
    <3>1. Goes(InhaleAll(CheckFinish(g), Bytes(s, 1, e)), g.sent, m, c, s, 1, e, MaxShort)
      BY <1>2, <1>4, <1>10, <1>11, <2>3, SegmentTaken
    <3> QED BY <1>6, <1>19, <1>20, <2>2, <3>1, Zenon
  <2>5. SentOn(InhaleAll(h, rest), f.sent, m)
    <3>1. CASE e > Len(s)
      <4>1. SentOn(h, f.sent, m)
        BY <1>10, <1>13, <2>4, <3>1 DEF Goes
      <4>2. h \in FSM /\ rest = <<>>
        BY <1>7, <3>1, <4>1 DEF SentOn
      <4> QED BY <4>1, <4>2, InhaleNone
    <3>2. CASE e <= Len(s)
      <4>1. PICK j : /\ j = NextStart(1, e, MaxShort) /\ j \in 1 .. Len(s) + 1
                     /\ rest = LongSegments(s, j)
        BY <1>16, <3>2
      <4>2. Due(h, f.sent, m, c, s, j)
        <5>1. CASE j <= Len(s)
          BY <2>4, <3>2, <4>1, <5>1 DEF Goes, Due
        <5>2. CASE ~(j <= Len(s))
          <6>1. j = Len(s) + 1
            BY <1>10, <4>1, <5>2
          <6>2. SentOn(h, f.sent, m)
            BY <2>4, <4>1, <5>2 DEF Goes
          <6> QED BY <6>1, <6>2 DEF Due
        <5> QED BY <5>1, <5>2
      <4>3. SentOn(InhaleAll(h, LongSegments(s, j)), f.sent, m)
        BY <1>2, <4>1, <4>2, LongSegmentsRead
      <4> QED BY <4>1, <4>3, Zenon
    <3> QED BY <1>10, <1>13, <3>1, <3>2
  <2> QED BY <1>5, <1>18, <1>19, <1>20, <1>21, <1>22, <2>5, Zenon
<1>23. CASE ~(e > HeaderLen)
  <2>1. e <= Len(s) /\ Len(b) < HeaderLen /\ g.remct = Len(b)
    BY <1>10, <1>11, <1>13, <1>14, <1>19, <1>23
  <2>2. \A j \in 1 .. Len(b) - 1 : ~(b[j] = FE /\ b[j + 1] = FD)
    BY <1>13
  <2>3. rest \in Seq(Nat) /\ rest # <<>>
    BY <1>16, <2>1
  <2>4. /\ Stuck(InhaleAll(h, rest))
        /\ InhaleAll(h, rest).sent = g.sent
    BY <1>13, <1>19, <1>20, <2>1, <2>2, <2>3, ShortHeader
  <2> QED BY <1>5, <1>18, <1>19, <1>20, <1>21, <1>23, <2>4, Zenon
<1> QED BY <1>22, <1>23

-----------------------------------------------------------------------------
(* A stream of records (SelfSync).                                         *)

Flattening(many, n, fl) ==
  fl = [i \in 1 .. n |-> IF i = 1 THEN many[i] ELSE fl[i - 1] \o many[i]]

(* FlattenSeq of many records, one after the other.                        *)
LEMMA FlatteningExists ==
  ASSUME NEW many
  PROVE  \A n \in Nat : \E fl : Flattening(many, n, fl)
<1> DEFINE S == { n \in Nat : \E fl : Flattening(many, n, fl) }
<1>1. 0 \in S
  <2>1. PICK a : a = [i \in 1 .. 0 |-> 0]
    OBVIOUS
  <2>2. a = [i \in 1 .. 0 |-> IF i = 1 THEN many[i] ELSE a[i - 1] \o many[i]]
    BY <2>1
  <2> QED BY <2>2 DEF Flattening
<1>2. ASSUME NEW n \in Nat, n \in S PROVE n + 1 \in S
  <2>1. PICK a : a = [i \in 1 .. n |-> IF i = 1 THEN many[i] ELSE a[i - 1] \o many[i]]
    BY <1>2 DEF Flattening
  <2> DEFINE Of(x, i) == IF i = 1 THEN many[i] ELSE x[i - 1] \o many[i]
  <2>2. PICK e : e = [i \in 1 .. n + 1 |-> IF i = n + 1 THEN Of(a, i) ELSE a[i]]
    OBVIOUS
  <2>3. ASSUME NEW i \in 1 .. n + 1 PROVE e[i] = Of(e, i)
    <3>1. e[i] = Of(a, i)
      <4>1. CASE i = n + 1
        <5> HIDE DEF Of
        <5> QED BY <2>2, <4>1
      <4>2. CASE i # n + 1
        <5>1. i \in 1 .. n
          BY <4>2
        <5>2. a[i] = Of(a, i)
          BY <2>1, <5>1
        <5> HIDE DEF Of
        <5> QED BY <2>2, <4>2, <5>2
      <4> QED BY <4>1, <4>2
    <3>2. CASE i = 1
      BY <3>1, <3>2
    <3>3. CASE i # 1
      <4>1. i - 1 \in 1 .. n + 1 /\ i - 1 # n + 1
        BY <3>3
      <4>2. e[i - 1] = a[i - 1]
        <5> HIDE DEF Of
        <5> QED BY <2>2, <4>1
      <4> QED BY <3>1, <4>2
    <3> QED BY <3>2, <3>3
  <2>4. e = [i \in 1 .. n + 1 |-> e[i]]
    <3> HIDE DEF Of
    <3> QED BY <2>2
  <2>5. e = [i \in 1 .. n + 1 |-> Of(e, i)]
    <3> HIDE DEF Of
    <3> QED BY <2>3, <2>4
  <2>6. Flattening(many, n + 1, e)
    BY <2>5 DEF Flattening
  <2> QED BY <2>6
<1> HIDE DEF S
<1>3. \A n \in Nat : n \in S
  BY <1>1, <1>2, Induction
<1> QED BY <1>3 DEF S

(* What is flattened of the first i sequences.                             *)
Parts(many, upto) ==
  /\ upto[0] = <<>>
  /\ \A i \in 1 .. Len(many) : upto[i] = upto[i - 1] \o many[i]
  /\ upto[Len(many)] = FlattenSeq(many)

LEMMA PartsExist ==
  ASSUME NEW many \in Seq(Seq(Nat))
  PROVE  \E upto : Parts(many, upto)
<1>1. PICK n \in Nat : n = Len(many)
  OBVIOUS
<1>2. \A i \in 1 .. n : many[i] \in Seq(Nat)
  BY <1>1
<1>3. PICK fl : fl = CHOOSE f : f = [i \in 1 .. n |-> IF i = 1 THEN many[i] ELSE f[i - 1] \o many[i]]
  OBVIOUS
<1>4. fl = [i \in 1 .. n |-> IF i = 1 THEN many[i] ELSE fl[i - 1] \o many[i]]
  <2>1. \E f : f = [i \in 1 .. n |-> IF i = 1 THEN many[i] ELSE f[i - 1] \o many[i]]
    BY FlatteningExists DEF Flattening
  <2> QED BY <1>3, <2>1
<1>5. PICK upto : upto = [i \in 0 .. n |-> IF i = 0 THEN <<>> ELSE fl[i]]
  OBVIOUS
<1>6. upto[0] = <<>>
  BY <1>5
<1>7. ASSUME NEW i \in 1 .. n PROVE upto[i] = upto[i - 1] \o many[i]
  <2>1. i \in 0 .. n /\ i # 0 /\ i - 1 \in 0 .. n
    OBVIOUS
  <2>2. upto[i] = fl[i]
    BY <1>5, <2>1
  <2>3. CASE i = 1
    <3>1. fl[i] = many[i]
      BY <1>4, <2>3
    <3>2. upto[i - 1] = <<>>
      BY <1>6, <2>3
    <3>3. many[i] \in Seq(Nat)
      BY <1>2
    <3>4. <<>> \o many[i] = many[i]
      BY <3>3, ConcatEmptySeq
    <3> QED BY <2>2, <3>1, <3>2, <3>4, Zenon
  <2>4. CASE i # 1
    <3>1. fl[i] = fl[i - 1] \o many[i]
      BY <1>4, <2>4
    <3>2. upto[i - 1] = fl[i - 1]
      <4>1. i - 1 # 0
        BY <2>4
      <4> QED BY <1>5, <2>1, <4>1
    <3> QED BY <2>2, <3>1, <3>2, Zenon
  <2> QED BY <2>3, <2>4
<1>8. upto[n] = FlattenSeq(many)
  <2>1. CASE n = 0
    <3>1. FlattenSeq(many) = many
      BY <1>1, <2>1 DEF FlattenSeq
    <3>2. many = <<>>
      BY <1>1, <2>1, EmptySeq
    <3> QED BY <1>6, <2>1, <3>1, <3>2
  <2>2. CASE n # 0
    <3>1. FlattenSeq(many) = fl[n]
      BY <1>1, <1>3, <2>2 DEF FlattenSeq
    <3>2. n \in 0 .. n
      OBVIOUS
    <3>3. upto[n] = fl[n]
      <4> HIDE <1>3
      <4> QED BY <1>5, <2>2, <3>2
    <3> QED BY <3>1, <3>3
  <2> QED BY <2>1, <2>2
<1>9. Parts(many, upto)
  BY <1>1, <1>6, <1>7, <1>8 DEF Parts
<1> QED BY <1>9

(* No byte takes back what is sent on.                                     *)
LEMMA NothingTakenBack ==
  ASSUME NEW f \in FSM, NEW buf \in Seq(Nat)
  PROVE  After(f, InhaleAll(f, buf))
<1>1. PICK n \in Nat : n = Len(buf)
  OBVIOUS
<1>2. PICK a : Inhaling(f, buf, a)
  BY InhalingExists
<1>3. /\ a[0] = f /\ \A i \in 1 .. n : a[i] = Inhale(a[i - 1], buf[i])
      /\ \A i \in 1 .. n : buf[i] \in Nat
      /\ \A i \in 0 .. n : a[i] \in FSM
      /\ InhaleAll(f, buf) = a[n]
  <2>1. a[0] = f /\ \A i \in 1 .. Len(buf) : a[i] = Inhale(a[i - 1], buf[i])
    <3>1. buf \in Seq(Nat)
      OBVIOUS
    <3>2. a[0] = f
      BY <1>2, <3>1, InhalingStep
    <3>3. \A i \in 1 .. Len(buf) : a[i] = Inhale(a[i - 1], buf[i])
      BY <1>2, <3>1, InhalingStep
    <3> QED BY <3>2, <3>3
  <2>2. (\A i \in 0 .. Len(buf) : a[i] \in FSM) /\ InhaleAll(f, buf) = a[Len(buf)]
    BY <1>2, InhaleAllIs
  <2>3. \A i \in 1 .. Len(buf) : buf[i] \in Nat
    OBVIOUS
  <2> QED BY <1>1, <2>1, <2>2, <2>3, Zenon
<1> DEFINE S == { i \in Nat : i <= n => After(f, a[i]) }
<1>4. 0 \in S
  BY <1>3, AfterSame
<1>5. ASSUME NEW i \in Nat, i \in S PROVE i + 1 \in S
  <2> SUFFICES ASSUME i + 1 <= n PROVE After(f, a[i + 1])
    OBVIOUS
  <2>1. i + 1 \in 1 .. n /\ (i + 1) - 1 = i /\ i <= n /\ i \in 0 .. n
    BY <1>1
  <2>2. After(f, a[i]) /\ a[i] \in FSM /\ buf[i + 1] \in Nat
    BY <1>3, <1>5, <2>1
  <2>3. a[i + 1] = Inhale(a[i], buf[i + 1])
    BY <1>3, <2>1
  <2>4. After(a[i], a[i + 1])
    BY <2>2, <2>3, InhaleAfter
  <2> QED BY <2>2, <2>4, AfterTwo
<1> HIDE DEF S
<1>6. n \in S
  BY <1>4, <1>5, Induction
<1>7. After(f, a[n])
  BY <1>6 DEF S
<1> QED BY <1>3, <1>7, Zenon

(* A stream is a sequence of messages that can be sent.                    *)
Stream(str) == str \in Seq(Seq(Nat)) /\ \A i \in 1 .. Len(str) : Sendable(str[i])

Records(str) == [i \in DOMAIN str |-> Record(str[i])]

LEMMA RecordsType ==
  ASSUME NEW str, Stream(str)
  PROVE  /\ Records(str) \in Seq(Seq(Nat)) /\ Len(Records(str)) = Len(str)
         /\ \A i \in 1 .. Len(str) : Records(str)[i] = Record(str[i])
<1>1. str \in Seq(Seq(Nat)) /\ Len(str) \in Nat /\ DOMAIN str = 1 .. Len(str)
  BY DEF Stream
<1>2. \A i \in 1 .. Len(str) : Record(str[i]) \in Seq(Nat)
  <2>1. FreshFSM \in FSM /\ FreshFSM.state \in {"start", "check-version"}
    <3>1. <<>> \in Seq(Nat) /\ <<>> \in Seq(Seq(Nat))
      OBVIOUS
    <3> QED BY <3>1 DEF FreshFSM, FSM
  <2> QED BY <2>1, RecordRead DEF Stream
<1>3. Records(str) = [i \in 1 .. Len(str) |-> Record(str[i])]
  BY <1>1 DEF Records
<1>4. PICK n \in Nat : n = Len(str)
  BY <1>1
<1>5. PICK r : r = [i \in 1 .. n |-> Record(str[i])]
  OBVIOUS
<1>6. r \in Seq(Seq(Nat)) /\ Len(r) = n /\ \A i \in 1 .. n : r[i] = Record(str[i])
  <2>1. \A i \in 1 .. n : Record(str[i]) \in Seq(Nat)
    BY <1>2, <1>4
  <2>2. r \in [1 .. n -> Seq(Nat)]
    BY <1>5, <2>1
  <2> QED BY <1>5, <2>2
<1> QED BY <1>3, <1>4, <1>5, <1>6, Zenon

(* What a stream makes the machine send: the messages, up to the first one *)
(* that it is stuck at.                                                    *)
LEMMA StreamRead ==
  ASSUME NEW str, Stream(str)
  PROVE  /\ FlattenSeq(Records(str)) \in Seq(Nat)
         /\ \E k \in 0 .. Len(str) :
              InhaleAll(FreshFSM, FlattenSeq(Records(str))).sent = SubSeq(str, 1, k)
         /\ (\A i \in 1 .. Len(str) : HeaderWhole(str[i])) =>
              InhaleAll(FreshFSM, FlattenSeq(Records(str))).sent = str
<1>1. PICK n \in Nat : n = Len(str)
  BY DEF Stream
<1>2. str \in Seq(Seq(Nat)) /\ \A i \in 1 .. n : Sendable(str[i]) /\ str[i] \in Seq(Nat)
  BY <1>1 DEF Stream
<1>3. PICK r : r = Records(str)
  OBVIOUS
<1>4. r \in Seq(Seq(Nat)) /\ Len(r) = n /\ \A i \in 1 .. n : r[i] = Record(str[i])
  BY <1>1, <1>3, RecordsType
<1>5. PICK upto : Parts(r, upto)
  BY <1>4, PartsExist
<1>6. /\ upto[0] = <<>> /\ upto[n] = FlattenSeq(r)
      /\ \A i \in 1 .. n : upto[i] = upto[i - 1] \o r[i]
  BY <1>4, <1>5, Zenon DEF Parts
<1> DEFINE g(i) == InhaleAll(FreshFSM, upto[i])
           whole == \A i \in 1 .. n : HeaderWhole(str[i])
           Good(i) == /\ g(i) \in FSM /\ g(i).state \in {"start", "check-version"}
                      /\ g(i).sent = SubSeq(str, 1, i)
           Bad(i) == Stuck(g(i)) /\ ~whole /\ \E k \in 0 .. i : g(i).sent = SubSeq(str, 1, k)
           S == { i \in Nat : i <= n => upto[i] \in Seq(Nat) /\ (Good(i) \/ Bad(i)) }
<1>7. FreshFSM \in FSM /\ FreshFSM.state = "check-version" /\ FreshFSM.sent = <<>>
  <2>1. <<>> \in Seq(Nat) /\ <<>> \in Seq(Seq(Nat))
    OBVIOUS
  <2> QED BY <2>1 DEF FreshFSM, FSM
<1>8. 0 \in S
  <2>1. g(0) = FreshFSM
    BY <1>6, <1>7, InhaleNone
  <2>2. SubSeq(str, 1, 0) = <<>>
    BY SubSeqEmpty
  <2>3. upto[0] \in Seq(Nat)
    BY <1>6, EmptyBytes
  <2> QED BY <1>7, <2>1, <2>2, <2>3
<1>9. ASSUME NEW i \in Nat, i \in S PROVE i + 1 \in S
  <2> SUFFICES ASSUME i + 1 <= n
               PROVE  upto[i + 1] \in Seq(Nat) /\ (Good(i + 1) \/ Bad(i + 1))
    OBVIOUS
  <2>1. i + 1 \in 1 .. n /\ (i + 1) - 1 = i /\ i <= n /\ i \in 0 .. n
    BY <1>1
  <2>2. upto[i] \in Seq(Nat) /\ (Good(i) \/ Bad(i))
    <3> HIDE DEF Good, Bad
    <3> QED BY <1>9, <2>1
  <2>3. PICK m : m = str[i + 1] /\ Sendable(m) /\ r[i + 1] = Record(m) /\ m \in Seq(Nat)
    BY <1>2, <1>4, <2>1
  <2>4. upto[i + 1] = upto[i] \o Record(m)
    BY <1>6, <2>1, <2>3, Zenon
  <2>5. Record(m) \in Seq(Nat)
    BY <1>7, <2>3, RecordRead
  <2>6. upto[i + 1] \in Seq(Nat)
    BY <2>2, <2>4, <2>5, Joined
  <2>7. g(i + 1) = InhaleAll(g(i), Record(m))
    BY <1>7, <2>2, <2>4, <2>5, InhaleConcat
  <2>8. PICK x, y : x = g(i) /\ y = g(i + 1)
    OBVIOUS
  <2>9. y = InhaleAll(x, Record(m))
    BY <2>7, <2>8
  <2>10. SubSeq(str, 1, i + 1) = Append(SubSeq(str, 1, i), m)
    <3>1. SubSeq(str, 1, i + 1) = SubSeq(str, 1, i) \o <<str[i + 1]>>
      <4>1. 1 \in 1 .. Len(str) /\ i + 1 \in 1 .. Len(str) /\ (i + 1) - 1 = i
        BY <1>1, <2>1
      <4> QED BY <1>2, <4>1, SubSeqRecursiveSecond
    <3>2. SubSeq(str, 1, i) \in Seq(Seq(Nat))
      BY <1>1, <1>2, <2>1
    <3>3. Append(SubSeq(str, 1, i), m) = SubSeq(str, 1, i) \o <<m>>
      BY <2>3, <3>2, AppendIsConcat
    <3> QED BY <2>3, <3>1, <3>3, Zenon
  <2>11. CASE Good(i)
    <3>1. x \in FSM /\ x.state \in {"start", "check-version"} /\ x.sent = SubSeq(str, 1, i)
      BY <2>8, <2>11, Zenon
    <3>2. CASE HeaderWhole(m)
      <4>1. SentOn(y, x.sent, m)
        BY <2>3, <2>9, <3>1, <3>2, RecordRead
      <4>2. y \in FSM /\ y.state = "start" /\ y.sent = SubSeq(str, 1, i + 1)
        BY <2>10, <3>1, <4>1 DEF SentOn
      <4> HIDE <2>8, <2>9
      <4>3. Good(i + 1)
        BY <2>8, <4>2
      <4> HIDE DEF Good, Bad
      <4> QED BY <2>6, <4>3
    <3>3. CASE ~HeaderWhole(m)
      <4>1. Stuck(y) /\ y.sent = x.sent
        BY <2>3, <2>9, <3>1, <3>3, RecordRead
      <4>2. ~whole
        BY <2>1, <2>3, <3>3
      <4>3. i \in 0 .. i + 1 /\ y.sent = SubSeq(str, 1, i)
        BY <3>1, <4>1
      <4>4. Bad(i + 1)
        <5> HIDE DEF whole
        <5> QED BY <2>8, <4>1, <4>2, <4>3, Zenon
      <4> HIDE DEF Good, Bad
      <4> QED BY <2>6, <4>4
    <3> QED BY <3>2, <3>3
  <2>12. CASE Bad(i)
    <3>1. Stuck(x) /\ ~whole /\ \E k \in 0 .. i : x.sent = SubSeq(str, 1, k)
      <4> HIDE DEF whole
      <4> QED BY <2>8, <2>12, Zenon
    <3>2. y = x
      BY <2>5, <2>9, <3>1, StuckStays
    <3>3. \E k \in 0 .. i + 1 : y.sent = SubSeq(str, 1, k)
      BY <3>1, <3>2
    <3>4. Bad(i + 1)
      <4> HIDE DEF whole
      <4> QED BY <2>8, <3>1, <3>2, <3>3, Zenon
    <3> HIDE DEF Good, Bad
    <3> QED BY <2>6, <3>4
  <2> HIDE DEF Good, Bad
  <2> QED BY <2>2, <2>11, <2>12
<1> HIDE DEF S
<1>10. n \in S
  BY <1>8, <1>9, Induction
<1>11. upto[n] \in Seq(Nat) /\ (Good(n) \/ Bad(n))
  <2> HIDE DEF Good, Bad
  <2> QED BY <1>10 DEF S
<1>12. \E k \in 0 .. n : g(n).sent = SubSeq(str, 1, k)
  <2>1. n \in 0 .. n
    OBVIOUS
  <2> QED BY <1>11, <2>1
<1>13. whole => g(n).sent = str
  <2>1. SubSeq(str, 1, n) = str
    BY <1>1, <1>2, SubSeqFull
  <2> HIDE DEF whole
  <2> QED BY <1>11, <2>1
<1>14. g(n) = InhaleAll(FreshFSM, FlattenSeq(Records(str)))
       /\ upto[n] = FlattenSeq(Records(str))
  BY <1>3, <1>6, Zenon
<1> QED BY <1>1, <1>11, <1>12, <1>13, <1>14, Zenon

(* The beginning of a stream.                                              *)
LEMMA BeginningRead ==
  ASSUME NEW str, Stream(str), NEW x \in Seq(Nat), NEW y \in Seq(Nat),
         FlattenSeq(Records(str)) = x \o y
  PROVE  IsPrefix(InhaleAll(FreshFSM, x).sent, str)
<1>1. FreshFSM \in FSM
  <2>1. <<>> \in Seq(Nat) /\ <<>> \in Seq(Seq(Nat))
    OBVIOUS
  <2> QED BY <2>1 DEF FreshFSM, FSM
<1>2. PICK g : g = InhaleAll(FreshFSM, x) /\ g \in FSM
  BY <1>1, NothingTakenBack DEF After
<1>3. PICK h : h = InhaleAll(g, y) /\ h \in FSM /\ Begins(g.sent, h.sent)
  BY <1>2, NothingTakenBack DEF After
<1>4. h = InhaleAll(FreshFSM, FlattenSeq(Records(str)))
  <2>1. InhaleAll(FreshFSM, x \o y) = InhaleAll(InhaleAll(FreshFSM, x), y)
    BY <1>1, InhaleConcat
  <2> QED BY <1>2, <1>3, <2>1, Zenon
<1>5. PICK k \in 0 .. Len(str) : h.sent = SubSeq(str, 1, k)
  BY <1>4, StreamRead, Zenon
<1>6. PICK n \in Nat : n = Len(str)
  BY DEF Stream
<1>7. str \in Seq(Seq(Nat)) /\ g.sent \in Seq(Seq(Nat))
  BY <1>2, FSMFields DEF Stream
<1>8. PICK l \in Nat : l = Len(g.sent)
  BY <1>7
<1>9. PICK u : u = SubSeq(str, 1, k)
  OBVIOUS
<1>10. u \in Seq(Seq(Nat)) /\ Len(u) = k /\ \A i \in 1 .. k : u[i] = str[i]
  <2>1. k \in Nat /\ k <= n
    BY <1>6
  <2>2. \A i \in 1 .. k : str[i] \in Seq(Nat)
    BY <1>6, <1>7, <2>1
  <2>3. /\ SubSeq(str, 1, k) \in Seq(Seq(Nat))
        /\ Len(SubSeq(str, 1, k)) = IF 1 <= k THEN k - 1 + 1 ELSE 0
        /\ \A i \in 1 .. k - 1 + 1 : SubSeq(str, 1, k)[i] = str[1 + i - 1]
    BY <2>1, <2>2, SubSeqProperties
  <2>4. k - 1 + 1 = k /\ (~(1 <= k) => k = 0) /\ \A i \in 1 .. k : 1 + i - 1 = i
    BY <2>1
  <2> QED BY <1>9, <2>3, <2>4
<1>11. l <= k /\ \A i \in 1 .. l : g.sent[i] = str[i]
  <2>1. Begins(g.sent, u)
    BY <1>3, <1>5, <1>9, Zenon
  <2>2. Len(g.sent) <= Len(u) /\ \A i \in 1 .. Len(g.sent) : u[i] = g.sent[i]
    BY <2>1 DEF Begins
  <2>3. l <= k
    BY <1>8, <1>10, <2>2
  <2> QED BY <1>8, <1>10, <2>2, <2>3
<1>12. SubSeq(g.sent, 1, l) = SubSeq(str, 1, l) /\ l <= n
  <2>1. PICK v, t : v = g.sent /\ t = SubSeq(str, 1, l)
    OBVIOUS
  <2>2. k \in Nat /\ k <= n /\ l <= n
    BY <1>6, <1>11
  <2>3. \A i \in 1 .. l : str[i] \in Seq(Nat)
    BY <1>6, <1>7, <2>2
  <2>4. t \in Seq(Seq(Nat)) /\ Len(t) = l /\ \A i \in 1 .. l : t[i] = str[i]
    <3>1. /\ SubSeq(str, 1, l) \in Seq(Seq(Nat))
          /\ Len(SubSeq(str, 1, l)) = IF 1 <= l THEN l - 1 + 1 ELSE 0
          /\ \A i \in 1 .. l - 1 + 1 : SubSeq(str, 1, l)[i] = str[1 + i - 1]
      BY <2>3, SubSeqProperties
    <3>2. l - 1 + 1 = l /\ (~(1 <= l) => l = 0) /\ \A i \in 1 .. l : 1 + i - 1 = i
      OBVIOUS
    <3> QED BY <2>1, <3>1, <3>2
  <2>5. v \in Seq(Seq(Nat)) /\ Len(v) = l /\ \A i \in 1 .. l : v[i] = str[i]
    BY <1>7, <1>8, <1>11, <2>1
  <2>6. v = t
    BY <2>4, <2>5, SeqEqual
  <2>7. SubSeq(v, 1, l) = v
    BY <2>5, SubSeqFull
  <2> QED BY <2>1, <2>2, <2>6, <2>7, Zenon
<1> QED BY <1>2, <1>6, <1>8, <1>12, Zenon DEF IsPrefix

-----------------------------------------------------------------------------
(* The packets of the stream (StreamDecoder).                              *)

(* What has been read: data[i] is the packet with the number i, pre[i] the *)
(* bytes of the first i packets; all bytes but those still on the wire.    *)
Packets(data, pre) ==
  /\ data \in [Nat -> Seq(Nat)] /\ pre \in [Nat -> Seq(Nat)]
  /\ pre[0] = <<>> /\ \A i \in 1 .. ctr : pre[i] = pre[i - 1] \o data[i]
  /\ \A i \in 0 .. ctr : \E y \in Seq(Nat) : FlattenSeq(Records(sent)) = pre[i] \o y
  /\ wire \in Seq(Nat) /\ FlattenSeq(Records(sent)) = pre[ctr] \o wire
  /\ \A d \in delivers \cup queue \cup atFsm : \E i \in 1 .. ctr : d = <<i, data[i]>>

(* How many packets are decoded, and that they are the first ones.         *)
Decoded(data, pre, done) ==
  /\ done <= ctr /\ fsm = InhaleAll(FreshFSM, pre[done])
  /\ IF atFsm = {} THEN waitIx = done + 1
                   ELSE /\ waitIx = done + 2 /\ done + 1 <= ctr
                        /\ atFsm = {<<done + 1, data[done + 1]>>}
  /\ atFsm # {} => next = 0 /\ mode = "busy"
  /\ next \in {0, 1} /\ (next = 1 => mode = "busy")

(* The machine has failed: the decoder stays busy for ever.                *)
Stopped(pre, done) ==
  /\ done <= ctr /\ fsm.sent = InhaleAll(FreshFSM, pre[done]).sent
  /\ atFsm = {} /\ next = 0 /\ mode = "busy"

Progress(data, pre, done) == Decoded(data, pre, done) \/ Stopped(pre, done)

StreamInv ==
  /\ ctr \in Nat /\ sent \in Streams
  /\ \E data, pre : \E done \in Nat : Packets(data, pre) /\ Progress(data, pre, done)

(* Every stream the runs send is one the lemmas above are about.           *)
LEMMA StreamsAre == \A str \in Streams : Stream(str)
<1> SUFFICES ASSUME NEW str \in Streams PROVE Stream(str)
  OBVIOUS
<1>1. /\ str \in Seq(Seq(Nat))
      /\ \A i \in DOMAIN str : Crc(<<Len(str[i])>> \o str[i]) \in Seq(Nat)
                               /\ Len(Crc(<<Len(str[i])>> \o str[i])) = CrcLen
  BY StreamsAssumption
<1>2. ASSUME NEW i \in 1 .. Len(str) PROVE Sendable(str[i])
  <2>1. i \in DOMAIN str /\ str[i] \in Seq(Nat)
    BY <1>1
  <2> QED BY <1>1, <2>1 DEF Sendable
<1> QED BY <1>1, <1>2 DEF Stream

LEMMA FreshType == FreshFSM \in FSM
<1>1. <<>> \in Seq(Nat) /\ <<>> \in Seq(Seq(Nat))
  OBVIOUS
<1> QED BY <1>1 DEF FreshFSM, FSM

(* Nothing is sent yet, and nothing decoded.                               *)
LEMMA StreamBegins == Init => StreamInv
<1> SUFFICES ASSUME Init PROVE StreamInv
  OBVIOUS
<1>1. /\ sent \in Streams /\ wire = FlattenSeq(Records(sent)) /\ ctr = 0
      /\ delivers = {} /\ queue = {} /\ atFsm = {} /\ mode = "waiting" /\ waitIx = 1
      /\ next = 0 /\ fsm = FreshFSM
  BY DEF Init, Records
<1>2. wire \in Seq(Nat)
  BY <1>1, StreamsAre, StreamRead
<1>3. <<>> \o wire = wire
  BY <1>2, ConcatEmptySeq
<1>4. PICK none : none = [i \in Nat |-> <<>>]
  OBVIOUS
<1>5. none \in [Nat -> Seq(Nat)] /\ none[0] = <<>>
  BY <1>4, EmptyBytes
<1>6. Packets(none, none)
  <2>1. \A i \in 0 .. ctr : i = 0
    BY <1>1
  <2>2. \A i \in 1 .. ctr : FALSE
    BY <1>1
  <2>3. FlattenSeq(Records(sent)) = none[0] \o wire
    BY <1>1, <1>3, <1>5, Zenon
  <2> QED BY <1>1, <1>2, <1>5, <2>1, <2>2, <2>3 DEF Packets
<1>7. InhaleAll(FreshFSM, none[0]) = FreshFSM
  BY <1>5, FreshType, InhaleNone
<1>8. Decoded(none, none, 0)
  BY <1>1, <1>7 DEF Decoded
<1>9. \E data, pre : \E done \in Nat : Packets(data, pre) /\ Progress(data, pre, done)
  BY <1>6, <1>8 DEF Progress
<1> QED BY <1>1, <1>9 DEF StreamInv

LEMMA ThreeParts ==
  \A x, y, z \in Seq(Nat) : x \o (y \o z) = (x \o y) \o z
OBVIOUS

(* READ takes the front of the wire and leaves the rest.                   *)
LEMMA CutInTwo ==
  ASSUME NEW s \in Seq(Nat), NEW n \in Nat, n <= Len(s)
  PROVE  /\ SubSeq(s, 1, n) \in Seq(Nat) /\ SubSeq(s, n + 1, Len(s)) \in Seq(Nat)
         /\ SubSeq(s, 1, n) \o SubSeq(s, n + 1, Len(s)) = s
<1>1. PICK k \in Nat : k = Len(s)
  OBVIOUS
<1>2. n <= k /\ 1 <= n + 1 /\ n + 1 <= k + 1 /\ n + 1 \in Nat /\ 1 \in Nat
  BY <1>1
<1>3. SubSeq(s, 1, n) \in Seq(Nat)
  BY <1>2, PartOf
<1>4. SubSeq(s, n + 1, k) \in Seq(Nat)
  BY <1>1, <1>2, PartOf
<1>5. SubSeq(s, 1, n) \o SubSeq(s, n + 1, k) = SubSeq(s, 1, k)
  <2>1. 1 \in 1 .. Len(s) + 1 /\ n \in 1 - 1 .. Len(s) /\ k \in n .. Len(s)
    BY <1>1, <1>2
  <2> QED BY <2>1, ConcatAdjacentSubSeq
<1>6. SubSeq(s, 1, k) = s
  BY <1>1, SubSeqFull
<1> QED BY <1>1, <1>3, <1>4, <1>5, <1>6, Zenon

(* A packet is read.                                                       *)
LEMMA ReadKeeps ==
  ASSUME StreamInv, NEW n \in Nat, Read(n)
  PROVE  StreamInv'
<1>1. PICK data, pre : \E done \in Nat : Packets(data, pre) /\ Progress(data, pre, done)
  BY DEF StreamInv
<1>2. PICK done \in Nat : Packets(data, pre) /\ Progress(data, pre, done)
  BY <1>1
<1>3. ctr \in Nat /\ sent \in Streams
  BY DEF StreamInv
<1>4. /\ 0 < n /\ n <= Len(wire) /\ ctr' = ctr + 1
      /\ delivers' = delivers \cup {<<ctr + 1, SubSeq(wire, 1, n)>>}
      /\ wire' = SubSeq(wire, n + 1, Len(wire))
      /\ UNCHANGED <<sent, mode, waitIx, queue, atFsm, next, fsm>>
  BY DEF Read
<1>5. PICK p, rest : p = SubSeq(wire, 1, n) /\ rest = SubSeq(wire, n + 1, Len(wire))
  OBVIOUS
<1>6. wire \in Seq(Nat) /\ data \in [Nat -> Seq(Nat)] /\ pre \in [Nat -> Seq(Nat)]
  BY <1>2 DEF Packets
<1>7. p \in Seq(Nat) /\ rest \in Seq(Nat) /\ p \o rest = wire
  <2>1. n <= Len(wire) /\ wire \in Seq(Nat)
    BY <1>4, <1>6
  <2> QED BY <1>5, <2>1, CutInTwo
<1>8. PICK k \in Nat : k = ctr + 1 /\ k - 1 = ctr /\ k # 0
  <2>1. ctr + 1 \in Nat /\ (ctr + 1) - 1 = ctr /\ ctr + 1 # 0
    BY <1>3
  <2> QED BY <2>1
<1>9. PICK q : q = pre[ctr] \o p /\ q \in Seq(Nat)
  <2>1. pre[ctr] \in Seq(Nat)
    BY <1>3, <1>6
  <2>2. pre[ctr] \o p \in Seq(Nat)
    BY <1>7, <2>1, Joined
  <2> QED BY <2>2
<1>10. PICK data1, pre1 : data1 = [data EXCEPT ![k] = p] /\ pre1 = [pre EXCEPT ![k] = q]
  OBVIOUS
<1>11. /\ data1 \in [Nat -> Seq(Nat)] /\ pre1 \in [Nat -> Seq(Nat)]
       /\ data1[k] = p /\ pre1[k] = q
       /\ \A i \in Nat : i # k => data1[i] = data[i] /\ pre1[i] = pre[i]
  BY <1>6, <1>7, <1>9, <1>10
<1> HIDE <1>5, <1>10
<1>12. \A i \in 0 .. ctr : i \in Nat /\ i # k
  BY <1>3, <1>8
<1>13. \A i \in 0 .. k : i = k \/ i \in 0 .. ctr
  BY <1>3, <1>8
<1>14. PICK whole : whole = FlattenSeq(Records(sent))
  OBVIOUS
<1>15. whole = q \o rest
  <2>1. whole = pre[ctr] \o wire
    BY <1>2, <1>14, Zenon DEF Packets
  <2>2. pre[ctr] \o (p \o rest) = (pre[ctr] \o p) \o rest
    <3>1. pre[ctr] \in Seq(Nat)
      BY <1>3, <1>6
    <3>2. p \in Seq(Nat) /\ rest \in Seq(Nat)
      BY <1>7
    <3> QED BY <3>1, <3>2, ThreeParts, Zenon
  <2> QED BY <1>7, <1>9, <2>1, <2>2, Zenon
<1>16. FlattenSeq(Records(sent))' = whole
  BY <1>4, <1>14
<1>17. Packets(data1, pre1)'
  <2>1. pre1[0] = <<>>
    <3>1. pre[0] = <<>>
      BY <1>2 DEF Packets
    <3> QED BY <1>8, <1>11, <3>1
  <2>2. ASSUME NEW i \in 1 .. k PROVE pre1[i] = pre1[i - 1] \o data1[i]
    <3>1. CASE i = k
      <4>1. pre1[k - 1] = pre[ctr]
        BY <1>3, <1>8, <1>11, <1>12
      <4> QED BY <1>9, <1>11, <3>1, <4>1, Zenon
    <3>2. CASE i # k
      <4>1. i \in 1 .. ctr /\ i \in Nat /\ i - 1 \in Nat /\ i - 1 # k
        BY <1>3, <1>8, <3>2
      <4>2. pre[i] = pre[i - 1] \o data[i]
        BY <1>2, <4>1 DEF Packets
      <4>3. pre1[i] = pre[i] /\ pre1[i - 1] = pre[i - 1] /\ data1[i] = data[i]
        BY <1>11, <3>2, <4>1
      <4> QED BY <4>2, <4>3, Zenon
    <3> QED BY <3>1, <3>2
  <2>3. ASSUME NEW i \in 0 .. k PROVE \E y \in Seq(Nat) : whole = pre1[i] \o y
    <3>1. CASE i = k
      <4>1. whole = pre1[i] \o rest
        BY <1>11, <1>15, <3>1, Zenon
      <4> QED BY <1>7, <4>1, Zenon
    <3>2. CASE i # k
      <4>1. i \in 0 .. ctr /\ i \in Nat
        BY <1>12, <1>13, <3>2
      <4>2. PICK y \in Seq(Nat) : whole = pre[i] \o y
        BY <1>2, <1>14, <4>1, Zenon DEF Packets
      <4>3. pre1[i] = pre[i]
        BY <1>11, <3>2, <4>1
      <4> QED BY <4>2, <4>3, Zenon
    <3> QED BY <3>1, <3>2
  <2>4. wire' \in Seq(Nat) /\ whole = pre1[k] \o wire'
    <3>1. wire' = rest
      BY <1>4, <1>5
    <3> QED BY <1>7, <1>11, <1>15, <3>1, Zenon
  <2>5. ASSUME NEW d \in (delivers \cup queue \cup atFsm)'
        PROVE  \E i \in 1 .. k : d = <<i, data1[i]>>
    <3>1. CASE d = <<k, p>>
      <4>1. k \in 1 .. k
        BY <1>8
      <4>2. d = <<k, data1[k]>>
        BY <1>11, <3>1
      <4> QED BY <4>1, <4>2
    <3>2. CASE d \in delivers \cup queue \cup atFsm
      <4>1. PICK i \in 1 .. ctr : d = <<i, data[i]>>
        BY <1>2, <3>2 DEF Packets
      <4>2. i \in 1 .. k /\ i \in Nat /\ i # k
        BY <1>3, <1>8, <4>1
      <4>3. data1[i] = data[i]
        BY <1>11, <4>2
      <4>4. d = <<i, data1[i]>>
        BY <4>1, <4>3, Zenon
      <4> QED BY <4>2, <4>4
    <3>3. d = <<k, p>> \/ d \in delivers \cup queue \cup atFsm
      <4>1. <<ctr + 1, SubSeq(wire, 1, n)>> = <<k, p>>
        BY <1>5, <1>8
      <4> QED BY <1>4, <2>5, <4>1
    <3> QED BY <3>1, <3>2, <3>3
  <2>6. ctr' = k
    BY <1>4, <1>8
  <2> QED BY <1>11, <1>16, <2>1, <2>2, <2>3, <2>4, <2>5, <2>6, Zenon DEF Packets
<1>18. Progress(data1, pre1, done)'
  <2>1. done <= ctr /\ done \in 0 .. ctr
    BY <1>2, <1>3 DEF Progress, Decoded, Stopped
  <2>2. done <= ctr' /\ pre1[done] = pre[done]
    <3>1. done <= ctr'
      BY <1>3, <1>4, <2>1
    <3>2. pre1[done] = pre[done]
      BY <1>11, <1>12, <2>1
    <3> QED BY <3>1, <3>2, Zenon
  <2>3. UNCHANGED <<mode, waitIx, atFsm, next, fsm>>
    BY <1>4
  <2>4. CASE Decoded(data, pre, done)
    <3>1. done + 1 <= ctr => done + 1 <= ctr' /\ data1[done + 1] = data[done + 1]
      <4>1. done + 1 <= ctr => done + 1 \in Nat /\ done + 1 # k
        BY <1>3, <1>8
      <4>2. done + 1 <= ctr => done + 1 <= ctr'
        BY <1>3, <1>4, <2>1
      <4>3. done + 1 <= ctr => data1[done + 1] = data[done + 1]
        BY <1>11, <4>1
      <4> QED BY <4>2, <4>3, Zenon
    <3>2. fsm' = InhaleAll(FreshFSM, pre1[done])
      BY <2>2, <2>3, <2>4, Zenon DEF Decoded
    <3>3. IF atFsm' = {} THEN waitIx' = done + 1
                         ELSE /\ waitIx' = done + 2 /\ done + 1 <= ctr'
                              /\ atFsm' = {<<done + 1, data1[done + 1]>>}
      BY <2>3, <2>4, <3>1, Zenon DEF Decoded
    <3>4. /\ atFsm' # {} => next' = 0 /\ mode' = "busy"
          /\ next' \in {0, 1} /\ (next' = 1 => mode' = "busy")
      BY <2>3, <2>4 DEF Decoded
    <3>5. Decoded(data1, pre1, done)'
      BY <2>2, <3>2, <3>3, <3>4, Zenon DEF Decoded
    <3> QED BY <3>5 DEF Progress
  <2>5. CASE Stopped(pre, done)
    <3>1. Stopped(pre1, done)'
      BY <2>2, <2>3, <2>5, Zenon DEF Stopped
    <3> QED BY <3>1 DEF Progress
  <2> QED BY <1>2, <2>4, <2>5 DEF Progress
<1>19. ctr' \in Nat /\ sent' \in Streams
  BY <1>3, <1>4, <1>8
<1> QED BY <1>17, <1>18, <1>19, Zenon DEF StreamInv

(* Steps that move packets, and decode one perhaps.                        *)
LEMMA MoveKeeps ==
  ASSUME NEW data, NEW pre, Packets(data, pre), UNCHANGED <<sent, wire, ctr>>,
         (delivers \cup queue \cup atFsm)' \subseteq delivers \cup queue \cup atFsm
  PROVE  Packets(data, pre)'
BY DEF Packets

(* The tasks of packets, in any order, and the runs of the machine.        *)
LEMMA DeliverKeeps ==
  ASSUME StreamInv, NEW d \in delivers, Deliver(d)
  PROVE  StreamInv'
<1>1. PICK data, pre : \E done \in Nat : Packets(data, pre) /\ Progress(data, pre, done)
  BY DEF StreamInv
<1>2. PICK done \in Nat : Packets(data, pre) /\ Progress(data, pre, done)
  BY <1>1
<1>3. UNCHANGED <<sent, wire, ctr, next, fsm>> /\ delivers' = delivers \ {d}
  BY DEF Deliver
<1>4. PICK i \in 1 .. ctr : d = <<i, data[i]>>
  BY <1>2 DEF Packets
<1>5. CASE /\ mode = "waiting" /\ d[1] = waitIx
           /\ atFsm' = atFsm \cup {d}
           /\ mode' = "busy" /\ waitIx' = waitIx + 1
           /\ UNCHANGED queue
  <2>1. Packets(data, pre)'
    <3>1. (delivers \cup queue \cup atFsm)' \subseteq delivers \cup queue \cup atFsm
      BY <1>3, <1>5
    <3> QED BY <1>2, <1>3, <3>1, MoveKeeps
  <2>2. atFsm = {} /\ next = 0 /\ waitIx = done + 1 /\ Decoded(data, pre, done)
    BY <1>2, <1>5 DEF Progress, Decoded, Stopped
  <2>3. d = <<done + 1, data[done + 1]>> /\ done + 1 <= ctr
    <3>1. i = done + 1
      BY <1>4, <1>5, <2>2
    <3>2. i <= ctr
      BY DEF StreamInv
    <3> QED BY <1>4, <3>1, <3>2
  <2>4. /\ atFsm' = {<<done + 1, data[done + 1]>>} /\ waitIx' = done + 2
        /\ next' = 0 /\ mode' = "busy" /\ ctr' = ctr /\ fsm' = fsm
    BY <1>3, <1>5, <2>2, <2>3
  <2>5. Decoded(data, pre, done)'
    BY <2>2, <2>3, <2>4 DEF Decoded
  <2>6. ctr' \in Nat /\ sent' \in Streams
    BY <1>3 DEF StreamInv
  <2> QED BY <2>1, <2>5, <2>6, Zenon DEF StreamInv, Progress
<1>6. CASE /\ queue' = queue \cup {d}
           /\ UNCHANGED <<mode, waitIx, atFsm>>
  <2>1. Packets(data, pre)'
    <3>1. (delivers \cup queue \cup atFsm)' \subseteq delivers \cup queue \cup atFsm
      BY <1>3, <1>6
    <3> QED BY <1>2, <1>3, <3>1, MoveKeeps
  <2>2. Progress(data, pre, done)'
    BY <1>2, <1>3, <1>6 DEF Progress, Decoded, Stopped
  <2>3. ctr' \in Nat /\ sent' \in Streams
    BY <1>3 DEF StreamInv
  <2> QED BY <2>1, <2>2, <2>3, Zenon DEF StreamInv
<1> QED BY <1>5, <1>6 DEF Deliver

LEMMA RunKeeps ==
  ASSUME StreamInv, NEW d \in atFsm, Run(d)
  PROVE  StreamInv'
<1>1. PICK data, pre : \E done \in Nat : Packets(data, pre) /\ Progress(data, pre, done)
  BY DEF StreamInv
<1>2. PICK done \in Nat : Packets(data, pre) /\ Progress(data, pre, done)
  BY <1>1
<1>3. /\ atFsm' = atFsm \ {d}
      /\ \/ fsm' = InhaleAll(fsm, d[2]) /\ next' = next + 1
         \/ fsm' = [InhaleAll(fsm, d[2]) EXCEPT !.sent = fsm.sent] /\ next' = next
      /\ UNCHANGED <<sent, wire, ctr, delivers, mode, waitIx, queue>>
  BY DEF Run
<1>4. /\ atFsm = {<<done + 1, data[done + 1]>>} /\ waitIx = done + 2 /\ done + 1 <= ctr
      /\ next = 0 /\ mode = "busy" /\ fsm = InhaleAll(FreshFSM, pre[done]) /\ done <= ctr
  BY <1>2 DEF Progress, Decoded, Stopped
<1>5. d = <<done + 1, data[done + 1]>> /\ d[2] = data[done + 1] /\ atFsm' = {}
  BY <1>3, <1>4
<1>6. Packets(data, pre)'
  <2>1. (delivers \cup queue \cup atFsm)' \subseteq delivers \cup queue \cup atFsm
    BY <1>3
  <2> QED BY <1>2, <1>3, <2>1, MoveKeeps
<1>7. InhaleAll(fsm, d[2]) = InhaleAll(FreshFSM, pre[done + 1])
  <2>1. data[done + 1] \in Seq(Nat) /\ pre[done] \in Seq(Nat)
    BY <1>2 DEF Packets
  <2>2. pre[done + 1] = pre[done] \o data[done + 1]
    <3>1. done + 1 \in 1 .. ctr /\ (done + 1) - 1 = done
      BY <1>4 DEF StreamInv
    <3> QED BY <1>2, <3>1 DEF Packets
  <2>3. InhaleAll(FreshFSM, pre[done] \o data[done + 1]) =
          InhaleAll(InhaleAll(FreshFSM, pre[done]), data[done + 1])
    BY <2>1, FreshType, InhaleConcat
  <2> QED BY <1>4, <1>5, <2>2, <2>3, Zenon
<1>8. ctr' \in Nat /\ sent' \in Streams /\ done + 1 \in Nat
  BY <1>3 DEF StreamInv
<1>9. CASE fsm' = InhaleAll(fsm, d[2]) /\ next' = next + 1
  <2>1. next' \in {0, 1} /\ mode' = "busy" /\ waitIx' = (done + 1) + 1 /\ done + 1 <= ctr'
    BY <1>3, <1>4, <1>9
  <2>2. fsm' = InhaleAll(FreshFSM, pre[done + 1])
    BY <1>7, <1>9, Zenon
  <2>3. Decoded(data, pre, done + 1)'
    BY <1>5, <2>1, <2>2, Zenon DEF Decoded
  <2> QED BY <1>6, <1>8, <2>3, Zenon DEF StreamInv, Progress
<1>10. CASE fsm' = [InhaleAll(fsm, d[2]) EXCEPT !.sent = fsm.sent] /\ next' = next
  <2>1. InhaleAll(fsm, d[2]) \in FSM
    <3>1. pre[done] \in Seq(Nat) /\ d[2] \in Seq(Nat)
      BY <1>2, <1>5 DEF Packets
    <3>2. fsm \in FSM
      BY <1>4, <3>1, FreshType, NothingTakenBack DEF After
    <3> QED BY <3>1, <3>2, NothingTakenBack DEF After
  <2>2. fsm'.sent = fsm.sent
    <3>1. PICK f \in FSM : f = InhaleAll(fsm, d[2])
      BY <2>1
    <3>2. [f EXCEPT !.sent = fsm.sent].sent = fsm.sent
      BY DEF FSM
    <3> QED BY <1>10, <3>1, <3>2
  <2>3. fsm'.sent = InhaleAll(FreshFSM, pre[done]).sent
    BY <1>4, <2>2, Zenon
  <2>4. next' = 0 /\ mode' = "busy" /\ done <= ctr'
    BY <1>3, <1>4, <1>10
  <2>5. Stopped(pre, done)'
    BY <1>5, <2>3, <2>4, Zenon DEF Stopped
  <2> QED BY <1>6, <1>8, <2>5, Zenon DEF StreamInv, Progress
<1> QED BY <1>3, <1>9, <1>10

LEMMA NextKeeps ==
  ASSUME StreamInv, Next1
  PROVE  StreamInv'
<1>1. PICK data, pre : \E done \in Nat : Packets(data, pre) /\ Progress(data, pre, done)
  BY DEF StreamInv
<1>2. PICK done \in Nat : Packets(data, pre) /\ Progress(data, pre, done)
  BY <1>1
<1>3. next > 0 /\ next' = next - 1 /\ UNCHANGED <<sent, wire, ctr, delivers, fsm>>
  BY DEF Next1
<1>4. /\ next = 1 /\ atFsm = {} /\ mode = "busy" /\ waitIx = done + 1
      /\ Decoded(data, pre, done)
  BY <1>2, <1>3 DEF Progress, Decoded, Stopped
<1>5. ctr' \in Nat /\ sent' \in Streams /\ ctr \in Nat
  BY <1>3 DEF StreamInv
<1>6. ASSUME NEW d \in queue, d[1] = waitIx, atFsm' = atFsm \cup {d},
             queue' = queue \ {d}, waitIx' = waitIx + 1, UNCHANGED mode
      PROVE  StreamInv'
  <2>1. Packets(data, pre)'
    <3>1. (delivers \cup queue \cup atFsm)' \subseteq delivers \cup queue \cup atFsm
      BY <1>3, <1>6
    <3> QED BY <1>2, <1>3, <3>1, MoveKeeps
  <2>2. PICK i \in 1 .. ctr : d = <<i, data[i]>>
    BY <1>2 DEF Packets
  <2>3. i = done + 1 /\ i <= ctr
    BY <1>4, <1>5, <1>6, <2>2
  <2>4. /\ atFsm' = {<<done + 1, data[done + 1]>>} /\ waitIx' = done + 2
        /\ next' = 0 /\ mode' = "busy" /\ ctr' = ctr /\ fsm' = fsm /\ done + 1 <= ctr
    BY <1>3, <1>4, <1>6, <2>2, <2>3
  <2>5. Decoded(data, pre, done)'
    BY <1>4, <2>4 DEF Decoded
  <2> QED BY <1>5, <2>1, <2>5, Zenon DEF StreamInv, Progress
<1>7. ASSUME mode' = "waiting", UNCHANGED <<waitIx, queue, atFsm>>
      PROVE  StreamInv'
  <2>1. Packets(data, pre)'
    <3>1. (delivers \cup queue \cup atFsm)' \subseteq delivers \cup queue \cup atFsm
      BY <1>3, <1>7
    <3> QED BY <1>2, <1>3, <3>1, MoveKeeps
  <2>2. next' = 0
    BY <1>3, <1>4
  <2>3. Decoded(data, pre, done)'
    BY <1>3, <1>4, <1>7, <2>2 DEF Decoded
  <2> QED BY <1>5, <2>1, <2>3, Zenon DEF StreamInv, Progress
<1> QED BY <1>6, <1>7 DEF Next1

(* The invariant holds throughout.                                         *)
LEMMA StreamStays ==
  ASSUME StreamInv, UNCHANGED vars
  PROVE  StreamInv'
<1>1. PICK data, pre : \E done \in Nat : Packets(data, pre) /\ Progress(data, pre, done)
  BY DEF StreamInv
<1>2. PICK done \in Nat : Packets(data, pre) /\ Progress(data, pre, done)
  BY <1>1
<1>3. UNCHANGED <<sent, wire, ctr, delivers, mode, waitIx, queue, atFsm, next, fsm>>
  BY DEF vars
<1>4. Packets(data, pre)'
  BY <1>2, <1>3, MoveKeeps
<1>5. Progress(data, pre, done)'
  BY <1>2, <1>3 DEF Progress, Decoded, Stopped
<1>6. ctr' \in Nat /\ sent' \in Streams
  BY <1>3 DEF StreamInv
<1> QED BY <1>4, <1>5, <1>6, Zenon DEF StreamInv

(* What is sent on is always the beginning of what was written, however    *)
(* the stream was cut into packets, and in whatever order they came.       *)
THEOREM DecodesInOrder == MCSpec => []DecodedInOrder
<1>1. MCInit => StreamInv
  BY StreamBegins DEF MCInit
<1>2. StreamInv /\ [MCNext]_all => StreamInv'
  <2> SUFFICES ASSUME StreamInv, [MCNext]_all PROVE StreamInv'
    OBVIOUS
  <2>1. Next \/ UNCHANGED vars
    BY DEF MCNext, all
  <2>2. ASSUME Reads PROVE StreamInv'
    <3>1. PICK n \in Sizes : Read(Min({n, Len(wire)}))
      BY <2>2 DEF Reads
    <3>2. Len(wire) \in Nat /\ n \in Nat
      BY StreamsAssumption DEF StreamInv, Packets
    <3>3. Min({n, Len(wire)}) \in Nat
      BY <3>2, LeastExists
    <3> QED BY <3>1, <3>3, ReadKeeps
  <2>3. ASSUME Handle PROVE StreamInv'
    BY <2>3, DeliverKeeps, RunKeeps, NextKeeps DEF Handle
  <2>4. ASSUME Quiet PROVE StreamInv'
    BY <2>4, StreamStays DEF Quiet
  <2> QED BY <2>1, <2>2, <2>3, <2>4, StreamStays DEF Next
<1>3. StreamInv => DecodedInOrder
  <2> SUFFICES ASSUME StreamInv PROVE DecodedInOrder
    OBVIOUS
  <2>1. PICK data, pre : \E done \in Nat : Packets(data, pre) /\ Progress(data, pre, done)
    BY DEF StreamInv
  <2>2. PICK done \in Nat : Packets(data, pre) /\ Progress(data, pre, done)
    BY <2>1
  <2>3. /\ done \in 0 .. ctr /\ fsm.sent = InhaleAll(FreshFSM, pre[done]).sent
        /\ Stream(sent)
    BY <2>2, StreamsAre DEF StreamInv, Progress, Decoded, Stopped
  <2>4. pre[done] \in Seq(Nat)
    BY <2>2 DEF Packets
  <2>5. PICK y \in Seq(Nat) : FlattenSeq(Records(sent)) = pre[done] \o y
    BY <2>2, <2>3 DEF Packets
  <2>6. IsPrefix(InhaleAll(FreshFSM, pre[done]).sent, sent)
    BY <2>3, <2>4, <2>5, BeginningRead
  <2> QED BY <2>3, <2>6 DEF DecodedInOrder
<1> QED BY <1>1, <1>2, <1>3, PTL DEF MCSpec

(* Whatever is written is sent on, all of it, once it is read: unless a    *)
(* start sequence begins in the checksum and length of a message.          *)
THEOREM RoundTrip ==
  ASSUME NEW str, Stream(str), \A i \in 1 .. Len(str) : HeaderWhole(str[i])
  PROVE  InhaleAll(FreshFSM, FlattenSeq(Records(str))).sent = str
BY StreamRead

=============================================================================
