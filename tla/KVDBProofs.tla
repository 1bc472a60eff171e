----------------------------- MODULE KVDBProofs -----------------------------
(***************************************************************************)
(* For any clients, keys, values and number of crashes: the owner of the   *)
(* commits is undisturbed and up to date; transactions look like           *)
(* operations that happen one at a time; and if the messages of the gate   *)
(* reach the saver in order, the file yields what was saved last, which    *)
(* was committed, and which a restart brings back: but for what a record   *)
(* sets that is passed over after a crash.                                 *)
(***************************************************************************)
EXTENDS KVDB, TLAPS, SequenceTheorems

-----------------------------------------------------------------------------
(* Types.                                                                  *)

Version  == [ver : 0..made, map : Map]
Database == [id : 0..made, ver : 0..made, map : Map, layered : BOOLEAN]
Reading  == [ver : 0..made, map : Map, layered : BOOLEAN]
File     == [ver : 0..made, map : Map, layered : BOOLEAN,
             torn : {"no", "delta", "image"}, rest : SUBSET Reading]
Missing  == [keys : SUBSET Key, version : BOOLEAN]
Job      == {NoJob} \cup [how : {"image", "delta", "open"}, db : Version]
Stage    == {"start", "reading", "reading again", "committing", "done", "gave up", "silent"}

Types ==
  /\ TypeOK
  /\ made \in Nat /\ crashes \in Nat
  /\ stash \in Seq(Messages)
  /\ saver \in [last : Version, job : Job]
  /\ file \in File
  /\ toSaver \in Seq([kind : {"full-save", "save-log"}, db : Version])
  /\ history \subseteq Version
  /\ pc \in [Client -> Stage]

-----------------------------------------------------------------------------
(* The conversation of the gate with each client.                          *)

All      == net \cup ToSet(stash)
Party(m) == IF m.to = "gate" THEN m.from ELSE m.to

(* One message at a time is under way between the gate and a client.       *)
Once ==
  /\ \A m, n \in All : Party(m) = Party(n) => m = n
  /\ \A m \in ToSet(stash) : m \notin net /\ m.to = "gate"
  /\ \A c \in Client : pc[c] = "start" => \A m \in All : Party(m) # c

(* Only a session asks for the commits, and only a find leaves no commit.  *)
Proper(m) ==
  LET kind == Op[Party(m)].kind
  IN /\ m.kind \in {"req-excl", "abort", "aborted"} => IsSession(Party(m))
     /\ m.kind = "req" => ~IsSession(Party(m))
     /\ m.kind \in {"commit", "committed"} => kind # "find"
     /\ m.kind = "maint" <=> kind = "maint"
     /\ m.kind \in {"commit", "abort", "committed", "aborted"} => pc[Party(m)] = "committing"
     /\ pc[Party(m)] \in IF kind = "maint" THEN {"done"}
                         ELSE {"reading", "reading again", "committing"}

(* What a session has been given it has to itself, and it is the present.  *)
Held(m) ==
  IsSession(Party(m)) =>
    /\ m.kind \in {"db", "commit", "abort"} => owner = Party(m)
    /\ m.kind = "db" => m.db.id = db.id
    /\ m.kind = "commit" => m.old = db.id

(* A copy of the present database is that database, changed by its client. *)
Copied(m) ==
  LET c == Party(m)  patch == PatchOf(c, db.map)
  IN /\ m.kind = "db" /\ m.db.id = db.id => m.db.map = db.map
     /\ m.kind = "commit" /\ m.old = db.id =>
          /\ m.map = Apply(db.map, patch) /\ m.same = Same(db.map, patch)
          /\ Op[c].kind = "find-or-add" => val[c] = m.map[Op[c].key]

Owned == owner # None => IsSession(owner) /\ mode = "open"

Talk == Once /\ Owned /\ \A m \in All : Proper(m) /\ Held(m) /\ Copied(m)

-----------------------------------------------------------------------------
(* The saver, its file, and what was committed.                            *)

(* What is saved, or on the way there, has been the database; versions     *)
(* differ.                                                                 *)
Committed ==
  /\ \A g, h \in history : g.ver = h.ver => g = h
  /\ Image(db) \in history /\ saver.last \in history
  /\ saver.job # NoJob /\ saver.job.how # "open" => saver.job.db \in history
  /\ \A i \in 1..Len(toSaver) : toSaver[i].db \in history

(* Later messages carry later versions.                                    *)
Newest == IF saver.job = NoJob THEN saver.last.ver ELSE saver.job.db.ver
InOrder ==
  mode = "open" =>
    /\ Newest <= db.ver
    /\ \A i \in 1..Len(toSaver) : Newest <= toSaver[i].db.ver /\ toSaver[i].db.ver <= db.ver
    /\ \A i, j \in 1..Len(toSaver) : i <= j => toSaver[i].db.ver <= toSaver[j].db.ver

(* What the saver is at in each mode, and the mark it leaves on the file.  *)
Phases ==
  /\ mode # "open" => toSaver = <<>> /\ file.torn \in {"no", "image"}
  /\ mode = "down" => saver.job = NoJob
  /\ mode = "open" =>
       /\ saver.job.how \in {"none", "image", "delta"}
       /\ file.torn = IF saver.job.how = "none" THEN "no" ELSE saver.job.how
  /\ mode = "nascent" /\ saver.job # NoJob =>
       saver.job.how = "open" /\ file.torn = "image"

(* As long as nothing has crashed every record is read.                    *)
Whole == crashes = 0 => file.rest = {} /\ missed = AllRead

Stored == Committed /\ InOrder /\ Phases /\ Whole /\ FileAddsUp

-----------------------------------------------------------------------------
(* The set of what a sequence holds.                                       *)
LEMMA EmptyFacts == ToSet(<<>>) = {}
BY DEF ToSet

LEMMA SetFacts ==
  ASSUME NEW S, NEW s \in Seq(S)
  PROVE  /\ \A x \in ToSet(s) : x \in S
         /\ \A x : ToSet(Append(s, x)) = ToSet(s) \cup {x}
<1>1. DOMAIN s = 1..Len(s) /\ Len(s) \in Nat /\ \A i \in 1..Len(s) : s[i] \in S
  OBVIOUS
<1>2. ASSUME NEW x PROVE ToSet(Append(s, x)) = ToSet(s) \cup {x}
  <2> DEFINE t == Append(s, x)
  <2>1. /\ DOMAIN t = 1..(Len(s) + 1) /\ t[Len(s) + 1] = x
        /\ \A i \in 1..Len(s) : t[i] = s[i]
    BY <1>2
  <2>2. \A i : i \in 1..(Len(s) + 1) <=> i \in 1..Len(s) \/ i = Len(s) + 1
    BY <1>1
  <2> HIDE DEF t
  <2>3. \A y : y \in ToSet(t) <=> y \in ToSet(s) \/ y = x
    BY <1>1, <2>1, <2>2 DEF ToSet
  <2> QED BY <2>3 DEF t
<1> QED BY <1>1, <1>2 DEF ToSet

(* The parts of messages.                                                  *)
LEMMA Kinds ==
  ASSUME NEW m \in Messages
  PROVE  /\ Party(m) \in Client
         /\ m.to = "gate" => m.from = Party(m)
         /\ m.to # "gate" => m.to = Party(m)
         /\ m.to = "gate" <=> m.kind \in {"req", "req-excl", "commit", "abort", "maint"}
         /\ m.to # "gate" <=> m.kind \in {"db", "committed", "aborted"}
         /\ m.kind = "db" => m.db \in Database
         /\ m.kind = "commit" => m.old \in 0..made /\ m.map \in Map /\ m.same \in BOOLEAN
         /\ m.kind \in {"committed", "aborted"} => m = TellTo(Party(m), m.kind)
BY OperationAssumption DEF Messages, Party, Database, TellTo

LEMMA Forms ==
  /\ \A k, c : /\ ToGate(k, c).to = "gate" /\ ToGate(k, c).kind = k
               /\ Party(ToGate(k, c)) = c
  /\ \A c, d, patch :
       /\ CommitOf(c, d, patch).to = "gate" /\ CommitOf(c, d, patch).kind = "commit"
       /\ CommitOf(c, d, patch).old = d.id /\ CommitOf(c, d, patch).map = Apply(d.map, patch)
       /\ CommitOf(c, d, patch).same = Same(d.map, patch)
       /\ Party(CommitOf(c, d, patch)) = c
  /\ \A c \in Client : \A d : /\ DbTo(c, d).to = c /\ DbTo(c, d).kind = "db"
                              /\ DbTo(c, d).db = d /\ Party(DbTo(c, d)) = c
  /\ \A c \in Client : \A k : /\ TellTo(c, k).to = c /\ TellTo(c, k).kind = k
                              /\ Party(TellTo(c, k)) = c
BY OperationAssumption DEF ToGate, CommitOf, DbTo, TellTo, Party

(* Messages that may be sent.                                              *)
LEMMA Made ==
  ASSUME NEW c \in Client
  PROVE  /\ \A k \in {"req", "req-excl", "abort", "maint"} : ToGate(k, c) \in Messages
         /\ \A k \in {"committed", "aborted"} : TellTo(c, k) \in Messages
         /\ \A d \in Database : DbTo(c, d) \in Messages
         /\ \A d \in Database, patch \in Patches :
              /\ Apply(d.map, patch) \in Map
              /\ CommitOf(c, d, patch) \in Messages
<1>1. /\ \A k \in {"req", "req-excl", "abort", "maint"} : ToGate(k, c) \in Messages
      /\ \A k \in {"committed", "aborted"} : TellTo(c, k) \in Messages
      /\ \A d \in Database : DbTo(c, d) \in Messages
  BY DEF ToGate, TellTo, DbTo, Messages, Database
<1>2. ASSUME NEW d \in Database, NEW patch \in Patches
      PROVE  Apply(d.map, patch) \in Map /\ Same(d.map, patch) \in BOOLEAN
  <2>1. PICK K \in SUBSET Key : patch \in [K -> Val \cup {None}]
    BY DEF Patches
  <2>2. d.map \in [Key -> Val \cup {None}]
    BY DEF Database, Map
  <2> QED BY <2>1, <2>2 DEF Apply, Same, Map
<1>3. ASSUME NEW d \in Database, NEW patch \in Patches PROVE CommitOf(c, d, patch) \in Messages
  BY <1>2 DEF CommitOf, Messages, Database
<1> QED BY <1>1, <1>2, <1>3

(* What clients do to a database.                                          *)
LEMMA Operations ==
  ASSUME NEW c \in Client
  PROVE  /\ Op[c].kind \in {"add", "remove", "find-or-add", "find", "session",
                            "session-asks-twice", "maint"}
         /\ Op[c].kind \in {"add", "remove", "find-or-add", "find"} => Op[c].key \in Key
         /\ Op[c].kind \notin {"find", "maint"} => \A map : PatchOf(c, map) \in Patches
<1>1. Op[c] \in Operation
  BY OperationAssumption
<1>2. Op[c].kind \notin {"find", "maint"} => Op[c].patch \in Patches
  BY <1>1 DEF Operation
<1>3. [k \in {} |-> None] \in Patches
  BY DEF Patches
<1>4. Op[c].kind \notin {"find", "maint"} => \A map : PatchOf(c, map) \in Patches
  BY <1>2, <1>3 DEF PatchOf
<1> QED BY <1>1, <1>4 DEF Operation

(* What is a version or a message remains one when more are made.          *)
LEMMA Grows ==
  ASSUME made \in Nat, made' \in Nat, made <= made'
  PROVE  /\ Version \subseteq Version' /\ Database \subseteq Database'
         /\ Job \subseteq Job' /\ Messages \subseteq Messages'
         /\ 0..made \subseteq 0..made' /\ 1..made \subseteq 1..made'
         /\ Reading \subseteq Reading' /\ File \subseteq File'
<1>1. 0..made \subseteq 0..made' /\ 1..made \subseteq 1..made'
  OBVIOUS
<1>2. Version \subseteq Version' /\ Database \subseteq Database'
  BY <1>1 DEF Version, Database
<1>3. Job \subseteq Job'
  BY <1>2 DEF Job
<1>4. Messages \subseteq Messages'
  BY <1>1 DEF Messages
<1>5. Reading \subseteq Reading'
  BY <1>1 DEF Reading
<1>6. File \subseteq File'
  BY <1>1, <1>5 DEF File
<1> QED BY <1>1, <1>2, <1>3, <1>4, <1>5, <1>6

-----------------------------------------------------------------------------
(* Types are kept.                                                         *)
LEMMA InitTypes == Init => Types
<1> SUFFICES ASSUME Init PROVE Types
  OBVIOUS
<1>1. EmptyMap \in Map
  BY DEF EmptyMap, Map
<1>2. Image(db) \in Version /\ NoJob \in Job
  BY <1>1 DEF Init, Image, Version, Job
<1>3. TypeOK
  BY <1>1, EmptyFacts DEF Init, TypeOK, AllRead
<1>4. file \in File
  BY <1>1 DEF Init, File
<1>5. saver \in [last : Version, job : Job] /\ history \subseteq Version
  BY <1>2 DEF Init
<1>6. made \in Nat /\ crashes \in Nat /\ stash = <<>> /\ toSaver = <<>> /\ pc \in [Client -> Stage]
  BY DEF Init, Stage
<1> QED BY <1>3, <1>4, <1>5, <1>6 DEF Types

(* A step of a client changes the messages, and what it knows.             *)
Sent(ms) ==
  /\ ms \subseteq Messages
  /\ net' \subseteq net \cup ms
  /\ pc' \in [Client -> Stage]
  /\ val' \in [Client -> Val \cup {None}]
  /\ UNCHANGED <<gateVars, timers, toSaver, saverVars, made, crashes, history>>

LEMMA ClientTypes ==
  ASSUME Types, NEW c \in Client, ClientStep(c)
  PROVE  Types' /\ UNCHANGED <<gateVars, timers, toSaver, saverVars, made, crashes, history>>
<1>0. UNCHANGED <<gateVars, timers, toSaver, saverVars, made, crashes, history>>
  BY DEF ClientStep, Start, Find, Change, RemoveNothing, Session, Told, Receive
<1> SUFFICES Types'
  BY <1>0
<1>1. ASSUME NEW ms, Sent(ms) PROVE Types'
  BY <1>1 DEF Sent, Types, TypeOK, Messages, Version, Reading, File, Job, gateVars, saverVars
<1>2. ASSUME NEW m \in net, NEW next \in Stage, NEW ms, ms \subseteq Messages,
             Receive(c, m, next, ms), val' \in [Client -> Val \cup {None}]
      PROVE  Sent(ms)
  BY <1>2 DEF Sent, Receive, Types
<1>3. CASE Start(c)
  <2>1. PICK k \in {"req", "req-excl", "maint"} : net' = net \cup {ToGate(k, c)}
    BY <1>3 DEF Start
  <2>2. Sent({ToGate(k, c)})
    <3>1. /\ pc' = [pc EXCEPT ![c] = IF Op[c].kind = "maint" THEN "done" ELSE "reading"]
          /\ UNCHANGED <<gateVars, timers, toSaver, saverVars, val, made, crashes, history>>
      BY <1>3 DEF Start
    <3>2. ToGate(k, c) \in Messages
      BY Made
    <3>3. pc' \in [Client -> Stage] /\ val' \in [Client -> Val \cup {None}]
      BY <3>1 DEF Types, TypeOK, Stage
    <3> QED BY <2>1, <3>1, <3>2, <3>3 DEF Sent
  <2> QED BY <1>1, <2>2
<1>4. CASE \E m \in net : m.to = c /\ \/ Find(c, m) \/ Change(c, m) \/ RemoveNothing(c, m)
                                      \/ Session(c, m) \/ Told(c, m)
  <2> PICK m \in net : m.to = c /\ \/ Find(c, m) \/ Change(c, m) \/ RemoveNothing(c, m)
                                   \/ Session(c, m) \/ Told(c, m)
    BY <1>4
  <2>1. m.kind = "db" => m.db \in Database
    BY Kinds DEF Types, TypeOK
  <2>2. val \in [Client -> Val \cup {None}]
    BY DEF Types, TypeOK
  <2>3. CASE Find(c, m)
    <3>1. val' \in [Client -> Val \cup {None}]
      BY <2>1, <2>2, <2>3, Operations DEF Find, Database, Map
    <3>2. Sent({})
      BY <1>2, <2>3, <3>1 DEF Find, Stage
    <3> QED BY <1>1, <3>2
  <2>4. CASE Change(c, m)
    <3> DEFINE patch == PatchOf(c, m.db.map)
    <3>1. /\ patch \in Patches /\ m.db \in Database /\ Op[c].key \in Key
      BY <2>1, <2>4, Operations DEF Change
    <3>2. /\ val' = [val EXCEPT ![c] = Apply(m.db.map, patch)[Op[c].key]]
          /\ Receive(c, m, "committing", {CommitOf(c, m.db, patch)})
      BY <2>4 DEF Change
    <3> HIDE DEF patch
    <3>3. Apply(m.db.map, patch) \in Map /\ CommitOf(c, m.db, patch) \in Messages
      BY <3>1, Made
    <3>4. val' \in [Client -> Val \cup {None}]
      BY <2>2, <3>1, <3>2, <3>3 DEF Map
    <3>5. Sent({CommitOf(c, m.db, patch)})
      BY <1>2, <3>2, <3>3, <3>4 DEF Stage
    <3> QED BY <1>1, <3>5
  <2>5. CASE RemoveNothing(c, m)
    <3>1. Sent({})
      BY <1>2, <2>2, <2>5 DEF RemoveNothing, Stage
    <3> QED BY <1>1, <3>1
  <2>6. CASE Session(c, m)
    <3>1. Op[c].patch \in Patches
      <4>1. Op[c] \in Operation /\ IsSession(c)
        BY <2>6, OperationAssumption DEF Session
      <4> QED BY <4>1 DEF IsSession, Operation
    <3>2. CommitOf(c, m.db, Op[c].patch) \in Messages
      BY <2>1, <2>6, <3>1, Made DEF Session
    <3>3. PICK next \in Stage, s \in Messages : Receive(c, m, next, {s}) /\ val' = val
      BY <2>6, <3>2, Made DEF Session, Stage
    <3>4. Sent({s})
      BY <1>2, <2>2, <3>3
    <3> QED BY <1>1, <3>4
  <2>7. CASE Told(c, m)
    <3>1. Sent({})
      BY <1>2, <2>2, <2>7 DEF Told, Stage
    <3> QED BY <1>1, <3>1
  <2> QED BY <2>3, <2>4, <2>5, <2>6, <2>7
<1> QED BY <1>3, <1>4 DEF ClientStep

(* A database installed is new, or the one there was.                      *)
LEMMA Installs ==
  ASSUME Types, NEW m \in net, m.kind = "commit", Install(m)
  PROVE  /\ made' \in Nat /\ made <= made'
         /\ db' \in Database' /\ timers' \subseteq 1..made' /\ history' \subseteq Version'
         /\ \/ m.same /\ UNCHANGED <<db, timers, made, history>>
            \/ /\ ~m.same /\ made' = made + 1
               /\ db'.id = made + 1 /\ db'.ver = made + 1 /\ db'.map = m.map
               /\ history' = history \cup {Image(db')} /\ Image(db').ver = made + 1
<1>1. /\ made \in Nat /\ db \in Database /\ timers \subseteq 1..made /\ history \subseteq Version
      /\ m.map \in Map /\ m.same \in BOOLEAN
  BY Kinds DEF Types, TypeOK, Database
<1>2. CASE m.same
  <2>1. UNCHANGED <<db, timers, made, history>>
    BY <1>2 DEF Install
  <2> QED BY <1>1, <1>2, <2>1, Grows
<1>3. CASE ~m.same
  <2> DEFINE n == made + 1
             new == [id |-> n, ver |-> n, map |-> m.map, layered |-> TRUE]
  <2>1. /\ db' = new /\ timers' = timers \cup {n} /\ made' = n
        /\ history' = history \cup {Image(new)}
    BY <1>3 DEF Install
  <2>2. /\ made' \in Nat /\ made <= made' /\ n \in 0..made' /\ n \in 1..made'
    BY <1>1, <2>1
  <2>3. new \in Database' /\ Image(new) \in Version'
    BY <1>1, <2>2 DEF Database, Version, Image
  <2>4. timers' \subseteq 1..made' /\ history' \subseteq Version'
    BY <1>1, <2>1, <2>2, <2>3, Grows
  <2>5. /\ new.id = n /\ new.ver = n /\ new.map = m.map /\ Image(new).ver = n
    BY DEF Image
  <2> QED BY <1>3, <2>1, <2>2, <2>3, <2>4, <2>5
<1> QED BY <1>1, <1>2, <1>3

(* Whatever the gate does, it keeps the types if what it makes has them.   *)
GateMakes(ms) ==
  /\ made' \in Nat /\ made <= made'
  /\ ms \subseteq Messages' /\ net' \subseteq net \cup ms
  /\ stash' \in Seq(Messages')
  /\ db' \in Database' /\ timers' \subseteq 1..made' /\ history' \subseteq Version'
  /\ owner' \in Client \cup {None}
  /\ toSaver' \in Seq([kind : {"full-save", "save-log"}, db : Version'])
  /\ UNCHANGED <<mode, saverVars, clientVars, crashes>>

LEMMA Making == ASSUME Types, NEW ms, GateMakes(ms) PROVE Types'
<1>1. /\ Version \subseteq Version' /\ Job \subseteq Job' /\ Messages \subseteq Messages'
      /\ 0..made \subseteq 0..made' /\ Reading \subseteq Reading' /\ File \subseteq File'
  BY Grows DEF Types, GateMakes
<1>2. \A x \in ToSet(stash') : x \in Messages'
  BY SetFacts DEF GateMakes
<1>3. ToSet(stash)' = ToSet(stash')
  OBVIOUS
<1>4. TypeOK'
  BY <1>1, <1>2, <1>3 DEF GateMakes, Types, TypeOK, Database, Reading, saverVars, clientVars
<1> QED BY <1>1, <1>4 DEF GateMakes, Types, saverVars, clientVars

LEMMA Stays ==
  ASSUME Types
  PROVE  /\ UNCHANGED stash => stash' \in Seq(Messages)
         /\ UNCHANGED toSaver => toSaver' \in Seq([kind : {"full-save", "save-log"}, db : Version])
         /\ made \in Nat /\ db \in Database /\ timers \subseteq 1..made /\ history \subseteq Version
         /\ owner \in Client \cup {None} /\ net \subseteq Messages /\ ToSet(stash) \subseteq Messages
         /\ Image(db) \in Version
BY DEF Types, TypeOK, Database, Image, Version

LEMMA SeqGrows ==
  ASSUME NEW S, NEW T, S \subseteq T PROVE Seq(S) \subseteq Seq(T)
BY SeqMonotonic

LEMMA GateTypes ==
  ASSUME Types, NEW c \in Client, GateHandles(c)
  PROVE  Types'
<1> PICK m \in net :
      /\ m.to = "gate" /\ m.from = c
      /\ \/ GateReq(m) \/ GateReqExcl(m) \/ GateCommit(m) \/ OwnerCommit(m)
         \/ OwnerAbort(m) \/ OthersWait(m) \/ GateMaint(m)
  BY DEF GateHandles
<1>0. /\ UNCHANGED <<saverVars, clientVars, crashes>> /\ mode = "open"
      /\ stash \in Seq(Messages) /\ toSaver \in Seq([kind : {"full-save", "save-log"}, db : Version])
      /\ made \in Nat /\ db \in Database /\ timers \subseteq 1..made /\ history \subseteq Version
      /\ owner \in Client \cup {None} /\ m \in Messages /\ ToSet(stash) \subseteq Messages
  BY Stays DEF GateHandles, Types
<1>1. /\ DbTo(c, db) \in Messages
      /\ TellTo(c, "committed") \in Messages /\ TellTo(c, "aborted") \in Messages
  BY <1>0, Made
<1> DEFINE Still == UNCHANGED <<timers, toSaver, made, history, db, mode>>
<1>2. ASSUME NEW ms, ms \subseteq Messages, Handle(m, ms), Still, UNCHANGED stash,
             owner' \in {owner, c}
      PROVE  Types'
  <2>1. made' = made /\ Version' = Version /\ Database' = Database /\ Messages' = Messages
    BY <1>2 DEF Version, Database, Messages
  <2>2. GateMakes(ms)
    BY <1>0, <1>2, <2>1 DEF GateMakes, Handle
  <2> QED BY <2>2, Making
<1>3. ASSUME Keep(m) PROVE Types'
  <2>1. made' = made /\ Version' = Version /\ Database' = Database /\ Messages' = Messages
    BY <1>3 DEF Keep, Version, Database, Messages
  <2>2. stash' \in Seq(Messages)
    BY <1>0, <1>3 DEF Keep
  <2>3. GateMakes({})
    BY <1>0, <1>3, <2>1, <2>2 DEF GateMakes, Keep, Handle
  <2> QED BY <2>3, Making
<1>4. ASSUME NEW ms, ms \subseteq Messages, net' \subseteq net \cup ms, m.kind = "commit",
             Install(m), UNCHANGED <<toSaver, mode>>, stash' \in {stash, <<>>},
             owner' \in Client \cup {None}
      PROVE  Types'
  <2>1. /\ made' \in Nat /\ made <= made'
        /\ db' \in Database' /\ timers' \subseteq 1..made' /\ history' \subseteq Version'
    BY <1>4, Installs
  <2>2. Version \subseteq Version' /\ Messages \subseteq Messages'
    BY <1>0, <2>1, Grows
  <2>3. stash' \in Seq(Messages')
    BY <1>0, <1>4, <2>2, SeqGrows, EmptySeq
  <2>4. toSaver' \in Seq([kind : {"full-save", "save-log"}, db : Version'])
    <3>1. [kind : {"full-save", "save-log"}, db : Version]
            \subseteq [kind : {"full-save", "save-log"}, db : Version']
      BY <2>2
    <3> QED BY <1>0, <1>4, <3>1, SeqGrows
  <2>5. GateMakes(ms)
    BY <1>0, <1>4, <2>1, <2>2, <2>3, <2>4 DEF GateMakes
  <2> QED BY <2>5, Making
<1>5. CASE GateReq(m)
  BY <1>1, <1>2, <1>5 DEF GateReq, gateVars
<1>6. CASE GateReqExcl(m)
  BY <1>1, <1>2, <1>3, <1>6 DEF GateReqExcl
<1>7. CASE GateCommit(m)
  <2>1. /\ UNCHANGED <<mode, owner, stash, toSaver>> /\ m.kind = "commit"
        /\ \/ Install(m) /\ Handle(m, {TellTo(c, "committed")})
           \/ Handle(m, {DbTo(c, db)}) /\ UNCHANGED <<db, timers, made, history>>
    BY <1>7 DEF GateCommit
  <2>2. CASE Install(m) /\ Handle(m, {TellTo(c, "committed")})
    <3>1. net' \subseteq net \cup {TellTo(c, "committed")}
      BY <2>2 DEF Handle
    <3> QED BY <1>0, <1>1, <1>4, <2>1, <2>2, <3>1
  <2>3. CASE Handle(m, {DbTo(c, db)}) /\ UNCHANGED <<db, timers, made, history>>
    BY <1>1, <1>2, <2>1, <2>3
  <2> QED BY <2>1, <2>2, <2>3
<1>8. CASE OwnerCommit(m)
  <2>1. {TellTo(c, "committed")} \cup ToSet(stash) \subseteq Messages
    BY <1>0, <1>1
  <2> QED BY <1>4, <1>8, <2>1 DEF OwnerCommit, Unstash, Handle
<1>9. CASE OwnerAbort(m)
  <2>1. {TellTo(c, "aborted")} \cup ToSet(stash) \subseteq Messages
    BY <1>0, <1>1
  <2>2. made' = made /\ Version' = Version /\ Database' = Database /\ Messages' = Messages
    BY <1>9 DEF OwnerAbort, Version, Database, Messages
  <2>3. GateMakes({TellTo(c, "aborted")} \cup ToSet(stash))
    BY <1>0, <1>9, <2>1, <2>2, EmptySeq DEF GateMakes, OwnerAbort, Unstash, Handle
  <2> QED BY <2>3, Making
<1>10. CASE OthersWait(m)
  BY <1>3, <1>10 DEF OthersWait
<1>11. CASE GateMaint(m)
  <2>1. /\ made' \in Nat /\ made <= made'
        /\ \/ db' = [db EXCEPT !.id = made + 1, !.layered = FALSE] /\ made' = made + 1
           \/ db' = db /\ made' = made
    BY <1>0, <1>11 DEF GateMaint
  <2>2. /\ Version \subseteq Version' /\ Messages \subseteq Messages' /\ Database \subseteq Database'
        /\ 0..made \subseteq 0..made' /\ 1..made \subseteq 1..made'
    BY <1>0, <2>1, Grows
  <2>3. db' \in Database'
    <3>1. db \in Database'
      BY <1>0, <2>2
    <3>2. CASE made' = made + 1 /\ db' = [db EXCEPT !.id = made + 1, !.layered = FALSE]
      <4>1. made + 1 \in 0..made'
        BY <1>0, <3>2
      <4> QED BY <3>1, <3>2, <4>1 DEF Database
    <3> QED BY <2>1, <3>1, <3>2
  <2>4. stash' \in Seq(Messages')
    BY <1>0, <1>11, <2>2, SeqGrows DEF GateMaint
  <2>5. toSaver' \in Seq([kind : {"full-save", "save-log"}, db : Version'])
    <3> DEFINE T == [kind : {"full-save", "save-log"}, db : Version']
    <3>1. [kind : {"full-save", "save-log"}, db : Version] \subseteq T
      BY <2>2
    <3>2. [kind |-> "full-save", db |-> Image(db)] \in T
      BY <1>0, <2>2, Stays
    <3>3. toSaver \in Seq(T)
      BY <1>0, <3>1, SeqGrows
    <3>4. toSaver' = Append(toSaver, [kind |-> "full-save", db |-> Image(db)])
      BY <1>11 DEF GateMaint
    <3> HIDE DEF T
    <3>5. Append(toSaver, [kind |-> "full-save", db |-> Image(db)]) \in Seq(T)
      BY <3>2, <3>3
    <3> QED BY <3>4, <3>5 DEF T
  <2>6. GateMakes({})
    BY <1>0, <1>11, <2>1, <2>2, <2>3, <2>4, <2>5 DEF GateMakes, GateMaint, Handle
  <2> QED BY <2>6, Making
<1> QED BY <1>5, <1>6, <1>7, <1>8, <1>9, <1>10, <1>11

(* Taking a message out of a sequence.                                     *)
LEMMA Removal ==
  ASSUME NEW S, NEW s \in Seq(S), NEW i \in 1..Len(s)
  PROVE  /\ RemoveAt(s, i) \in Seq(S)
         /\ i = 1 => RemoveAt(s, i) = Tail(s)
<1>1. Len(s) \in Nat /\ i - 1 \in 0..Len(s) /\ i + 1 \in 1..Len(s) + 1
  OBVIOUS
<1>2. SubSeq(s, 1, i - 1) \in Seq(S) /\ SubSeq(s, i + 1, Len(s)) \in Seq(S)
  BY <1>1
<1>3. RemoveAt(s, i) \in Seq(S)
  BY <1>2 DEF RemoveAt
<1>4. ASSUME i = 1 PROVE RemoveAt(s, i) = Tail(s)
  <2>1. SubSeq(s, 1, 0) = <<>> /\ SubSeq(s, 2, Len(s)) = Tail(s)
    BY <1>4, TailIsSubSeq
  <2>2. <<>> \o Tail(s) = Tail(s)
    BY <1>4
  <2> QED BY <1>4, <2>1, <2>2 DEF RemoveAt
<1> QED BY <1>3, <1>4

(* The saver and the save timers make nothing new.                         *)
Kept == UNCHANGED <<gateVars, net, clientVars, made, crashes, history>>

SaverMakes ==
  /\ Kept
  /\ timers' \subseteq timers
  /\ toSaver' \in Seq([kind : {"full-save", "save-log"}, db : Version])
  /\ saver' \in [last : Version, job : Job]
  /\ file' \in File /\ missed' \in Missing

LEMMA FileTypes ==
  ASSUME Types
  PROVE  /\ file = [ver |-> file.ver, map |-> file.map, layered |-> file.layered,
                    torn |-> file.torn, rest |-> file.rest]
         /\ file.ver \in 0..made /\ file.map \in Map /\ file.layered \in BOOLEAN
         /\ file.torn \in {"no", "delta", "image"} /\ file.rest \subseteq Reading
         /\ missed \in Missing /\ Table(file) \in Reading
BY DEF Types, TypeOK, File, Missing, Table, Reading

LEMMA SaverMaking == ASSUME Types, SaverMakes PROVE Types'
<1>1. /\ Version' = Version /\ Job' = Job /\ Messages' = Messages
      /\ Reading' = Reading /\ File' = File
  BY DEF SaverMakes, Kept, Version, Job, Messages, Reading, File
<1>2. ToSet(stash)' = ToSet(stash)
  BY DEF SaverMakes, Kept, gateVars
<1>3. /\ file'.map \in Map /\ file'.ver \in 0..made /\ file'.torn \in {"no", "delta", "image"}
      /\ file'.rest \subseteq [ver : 0..made, map : Map, layered : BOOLEAN]
      /\ missed' \in [keys : SUBSET Key, version : BOOLEAN]
  BY DEF SaverMakes, File, Missing, Reading
<1>4. TypeOK'
  BY <1>1, <1>2, <1>3 DEF SaverMakes, Kept, Types, TypeOK, gateVars, clientVars
<1> QED BY <1>1, <1>2, <1>4 DEF SaverMakes, Kept, Types, gateVars, clientVars

(* Parts of what the saver has.                                            *)
LEMMA SaverTypes ==
  ASSUME Types
  PROVE  /\ saver = [last |-> saver.last, job |-> saver.job]
         /\ saver.last \in Version
         /\ saver.job # NoJob => /\ saver.job.db \in Version
                                 /\ saver.job.how \in {"image", "delta", "open"}
                                 /\ saver.job = [how |-> saver.job.how, db |-> saver.job.db]
         /\ saver.job.how = "none" <=> saver.job = NoJob
         /\ \A how \in {"image", "delta", "open"}, d \in Version :
              [how |-> how, db |-> d] \in Job /\ [how |-> how, db |-> d] # NoJob
         /\ NoJob \in Job
<1>1. \A how \in {"image", "delta", "open"} : \A d : [how |-> how, db |-> d] # NoJob
  <2> TAKE how \in {"image", "delta", "open"}
  <2> TAKE d
  <2>1. [how |-> how, db |-> d].how # NoJob.how
    BY DEF NoJob
  <2> QED BY <2>1
<1>2. saver \in [last : Version, job : Job]
  BY DEF Types
<1>3. saver.job \in {NoJob} \cup [how : {"image", "delta", "open"}, db : Version]
  BY <1>2 DEF Job
<1>4. NoJob.how = "none"
  BY DEF NoJob
<1> QED BY <1>1, <1>2, <1>3, <1>4 DEF Job

LEMMA WritingTypes ==
  ASSUME Types, NEW how \in {"image", "delta"}, NEW d \in Version, Writing(how, d)
  PROVE  /\ saver' \in [last : Version, job : Job] /\ file' \in File
         /\ saver'.last = saver.last /\ saver'.job = [how |-> how, db |-> d]
         /\ file'.ver = file.ver /\ file'.map = file.map
         /\ file'.torn = how /\ file'.rest = file.rest
<1>1. saver' = [last |-> saver.last, job |-> [how |-> how, db |-> d]]
  BY SaverTypes DEF Writing, Types
<1>2. file' = [ver |-> file.ver, map |-> file.map, layered |-> file.layered,
               torn |-> how, rest |-> file.rest]
  BY FileTypes DEF Writing
<1> QED BY <1>1, <1>2, SaverTypes, FileTypes DEF File

(* What the file yields when a record has been added.                      *)
LEMMA Yielding ==
  ASSUME NEW t \in Reading, Yields(t)
  PROVE  /\ file' \in File /\ file'.ver = t.ver /\ file'.map = t.map
         /\ file'.torn = "no" /\ file'.rest = {}
BY DEF Yields, Reading, File

LEMMA Patching ==
  ASSUME Types, NEW d \in Version
  PROVE  LET diffs == GetDiffs(saver.last.map, d.map)
             t == WithPatch(d, diffs)
         IN /\ t \in Reading /\ t.ver = d.ver
            /\ DOMAIN diffs = { k \in Key : saver.last.map[k] # d.map[k] }
            /\ \A k \in Key : t.map[k] = IF saver.last.map[k] # d.map[k]
                                            THEN d.map[k] ELSE file.map[k]
<1> DEFINE old == saver.last.map  new == d.map
<1>1. file.map \in [Key -> Val \cup {None}] /\ new \in [Key -> Val \cup {None}] /\ d.ver \in 0..made
  BY FileTypes DEF Version, Map
<1> HIDE DEF old, new
<1>2. /\ DOMAIN GetDiffs(old, new) = { k \in Key : old[k] # new[k] }
      /\ \A k \in Key : Apply(file.map, GetDiffs(old, new))[k] =
                            IF old[k] # new[k] THEN new[k] ELSE file.map[k]
      /\ Apply(file.map, GetDiffs(old, new)) \in [Key -> Val \cup {None}]
  BY <1>1 DEF Apply, GetDiffs
<1>3. WithPatch(d, GetDiffs(old, new)) = [ver |-> d.ver, map |-> Apply(file.map, GetDiffs(old, new)),
                                          layered |-> TRUE]
  BY DEF WithPatch
<1>4. WithPatch(d, GetDiffs(old, new)) \in Reading
  BY <1>1, <1>2, <1>3 DEF Reading, Map
<1> QED BY <1>2, <1>3, <1>4 DEF old, new

(* What is missing when a record is passed over.                           *)
LEMMA PassingOver ==
  ASSUME Types, NEW t \in file.rest, NEW keys \in SUBSET Key, NEW version \in BOOLEAN,
         PassOver(t, keys, version)
  PROVE  /\ file' \in File /\ file'.ver = t.ver /\ file'.map = t.map
         /\ file'.torn = "no" /\ file'.rest = {}
         /\ missed' \in Missing
         /\ missed.keys \subseteq missed'.keys /\ keys \subseteq missed'.keys
         /\ \A k \in Key \ missed'.keys : t.map[k] = file.map[k]
         /\ missed'.version <=> missed.version \/ version
<1> DEFINE diffs == DOMAIN GetDiffs(file.map, t.map)
<1>1. diffs = { k \in Key : file.map[k] # t.map[k] }
  BY DEF GetDiffs
<1> HIDE DEF diffs
<1>2. missed' = [keys |-> missed.keys \cup keys \cup diffs, version |-> missed.version \/ version]
  BY DEF PassOver, diffs
<1>3. missed.keys \subseteq Key /\ missed.version \in BOOLEAN /\ t \in Reading
  BY FileTypes DEF Missing
<1>4. missed' \in Missing
  BY <1>1, <1>2, <1>3 DEF Missing
<1>5. Yields(t)
  BY DEF PassOver
<1> QED BY <1>1, <1>2, <1>3, <1>4, <1>5, Yielding

(* What the file yields, and what is missing, when a write is done.        *)
LEMMA WrittenTypes ==
  ASSUME Types, NEW d \in Version, WriteImage(d) \/ WriteDelta(d)
  PROVE  /\ file' \in File /\ missed' \in Missing
         /\ file'.torn = "no" /\ file'.rest = {}
         /\ \/ /\ file'.ver = d.ver /\ file'.map = d.map /\ missed' = AllRead
            \/ /\ saver.job.how = "delta" /\ file.rest = {} /\ file'.ver = d.ver
               /\ \A k \in Key : file'.map[k] = IF saver.last.map[k] # d.map[k]
                                                   THEN d.map[k] ELSE file.map[k]
               /\ missed'.keys = { k \in missed.keys : saver.last.map[k] = d.map[k] }
               /\ missed'.version = FALSE
            \/ /\ saver.job.how = "delta" /\ file.rest # {}
               /\ missed.keys \subseteq missed'.keys /\ missed'.version = TRUE
               /\ \A k \in Key \ missed'.keys :
                    saver.last.map[k] = d.map[k] /\ file'.map[k] = file.map[k]
<1> DEFINE diffs == GetDiffs(saver.last.map, d.map)
           t == WithPatch(d, diffs)
<1>0. missed.keys \subseteq Key
  BY FileTypes DEF Missing
<1>1. /\ t \in Reading /\ t.ver = d.ver
      /\ DOMAIN diffs = { k \in Key : saver.last.map[k] # d.map[k] }
      /\ \A k \in Key : t.map[k] = IF saver.last.map[k] # d.map[k] THEN d.map[k] ELSE file.map[k]
  BY Patching
<1>2. \/ WriteImage(d)
      \/ /\ saver.job.how = "delta"
         /\ \/ /\ file.rest = {} /\ Yields(t)
               /\ missed' = [keys |-> missed.keys \ DOMAIN diffs, version |-> FALSE]
            \/ \E u \in file.rest : PassOver(u, DOMAIN diffs, TRUE)
  BY DEF WriteDelta
<1> HIDE DEF diffs, t
<1>3. CASE WriteImage(d)
  <2>1. [ver |-> d.ver, map |-> d.map, layered |-> FALSE] \in Reading
    BY DEF Version, Reading
  <2>2. PICK i \in Reading : i.ver = d.ver /\ i.map = d.map /\ Yields(i)
    BY <1>3, <2>1 DEF WriteImage
  <2>3. missed' = AllRead /\ AllRead \in Missing
    BY <1>3 DEF WriteImage, AllRead, Missing
  <2> QED BY <2>2, <2>3, Yielding
<1>4. CASE /\ saver.job.how = "delta" /\ file.rest = {} /\ Yields(t)
           /\ missed' = [keys |-> missed.keys \ DOMAIN diffs, version |-> FALSE]
  <2>1. missed'.keys = missed.keys \ DOMAIN diffs /\ missed'.version = FALSE
    BY <1>4
  <2>2. missed'.keys = { k \in missed.keys : saver.last.map[k] = d.map[k] }
    BY <1>0, <1>1, <2>1
  <2>3. missed' \in Missing
    BY <1>0, <1>4 DEF Missing
  <2> QED BY <1>1, <1>4, <2>1, <2>2, <2>3, Yielding
<1>5. CASE saver.job.how = "delta" /\ \E u \in file.rest : PassOver(u, DOMAIN diffs, TRUE)
  <2> PICK u \in file.rest : PassOver(u, DOMAIN diffs, TRUE)
    BY <1>5
  <2>1. DOMAIN diffs \in SUBSET Key
    BY <1>1
  <2>2. /\ file' \in File /\ file'.ver = u.ver /\ file'.map = u.map
        /\ file'.torn = "no" /\ file'.rest = {} /\ missed' \in Missing
        /\ missed.keys \subseteq missed'.keys /\ DOMAIN diffs \subseteq missed'.keys
        /\ \A k \in Key \ missed'.keys : u.map[k] = file.map[k]
        /\ missed'.version <=> missed.version \/ TRUE
    BY <2>1, PassingOver
  <2>3. missed'.version = TRUE
    BY <2>2 DEF Missing
  <2> QED BY <1>1, <1>5, <2>2, <2>3
<1> QED BY <1>2, <1>3, <1>4, <1>5

LEMMA SavingTypes ==
  ASSUME Types, \/ \E i \in timers : SaveTimer(i)
                \/ SaverStep
  PROVE  Types' /\ Kept
<1>0. Kept
  BY DEF SaveTimer, SaverStep, SaverTake, DeltaFails, Written, gateVars, clientVars, Kept
<1> SUFFICES SaverMakes
  BY <1>0, SaverMaking
<1> DEFINE T == [kind : {"full-save", "save-log"}, db : Version]
<1>1. /\ toSaver \in Seq(T) /\ saver \in [last : Version, job : Job] /\ file \in File
      /\ Image(db) \in Version /\ missed \in Missing
  BY Stays, FileTypes DEF Types
<1>2. CASE \E i \in timers : SaveTimer(i)
  <2> PICK i \in timers : SaveTimer(i)
    BY <1>2
  <2>1. /\ timers' \subseteq timers /\ UNCHANGED saverVars
        /\ toSaver' \in {toSaver, Append(toSaver, [kind |-> "save-log", db |-> Image(db)])}
    BY DEF SaveTimer
  <2>2. [kind |-> "save-log", db |-> Image(db)] \in T
    BY <1>1
  <2> HIDE DEF T
  <2>3. toSaver' \in Seq(T)
    <3>1. CASE toSaver' = toSaver
      BY <1>1, <3>1
    <3>2. CASE toSaver' = Append(toSaver, [kind |-> "save-log", db |-> Image(db)])
      <4> PICK m \in T : m = [kind |-> "save-log", db |-> Image(db)]
        BY <2>2
      <4> QED BY <1>1, <3>2
    <3> QED BY <2>1, <3>1, <3>2
  <2> QED BY <1>0, <1>1, <2>1, <2>3 DEF SaverMakes, saverVars, T
<1>3. CASE \E i \in DOMAIN toSaver : SaverTake(i)
  <2> PICK i \in DOMAIN toSaver : SaverTake(i)
    BY <1>3
  <2> DEFINE m == toSaver[i]
  <2>1. /\ timers' = timers /\ toSaver' = RemoveAt(toSaver, i) /\ i \in 1..Len(toSaver)
        /\ \/ \E how \in {"image", "delta"} : Writing(how, m.db)
           \/ saver' = [saver EXCEPT !.last = m.db] /\ UNCHANGED file
    <3> HIDE DEF T
    <3>1. i \in 1..Len(toSaver)
      BY <1>1
    <3>2. \/ Writing("image", m.db)
          \/ Writing("delta", m.db)
          \/ saver' = [saver EXCEPT !.last = m.db] /\ UNCHANGED file
      BY DEF SaverTake
    <3> HIDE DEF m
    <3>3. timers' = timers /\ toSaver' = RemoveAt(toSaver, i)
      BY DEF SaverTake
    <3> QED BY <3>1, <3>2, <3>3
  <2>2. m \in T /\ m.db \in Version
    <3>1. m \in T
      <4> HIDE DEF T
      <4> QED BY <1>1, <2>1
    <3> QED BY <3>1
  <2>3. toSaver' \in Seq(T)
    <3> HIDE DEF T
    <3> QED BY <1>1, <2>1, Removal
  <2>4. saver' \in [last : Version, job : Job] /\ file' \in File /\ UNCHANGED missed
    <3>1. UNCHANGED missed
      BY DEF SaverTake
    <3> QED BY <1>1, <2>1, <2>2, <3>1, WritingTypes
  <2> QED BY <1>0, <1>1, <2>1, <2>3, <2>4 DEF SaverMakes
<1>4. CASE DeltaFails
  <2>1. saver.job.db \in Version
    BY <1>4, SaverTypes DEF DeltaFails
  <2>2. saver' \in [last : Version, job : Job] /\ file' \in File /\ UNCHANGED missed
    BY <1>4, <2>1, WritingTypes DEF DeltaFails
  <2> QED BY <1>0, <1>1, <1>4, <2>2 DEF SaverMakes, DeltaFails
<1>5. CASE Written
  <2> DEFINE d == saver.job.db
  <2>1. d \in Version /\ saver' = [last |-> d, job |-> NoJob]
    BY <1>5, SaverTypes DEF Written
  <2>2. WriteImage(d) \/ WriteDelta(d)
    BY <1>5 DEF Written
  <2> HIDE DEF d
  <2>3. file' \in File /\ missed' \in Missing
    BY <2>1, <2>2, WrittenTypes
  <2> QED BY <1>0, <1>1, <1>5, <2>1, <2>3, SaverTypes DEF SaverMakes, Written
<1> QED BY <1>2, <1>3, <1>4, <1>5 DEF SaverStep

(* Crashes and restarts.                                                   *)
(* What the file yields can be fewer changes, when a delta is cut short.   *)
LEMMA CutTypes ==
  ASSUME Types, NEW d \in Version, CutShort(d)
  PROVE  /\ file' \in File /\ missed' \in Missing /\ file'.torn = "no"
         /\ missed.keys \subseteq missed'.keys
         /\ \A k \in Key \ missed'.keys : file'.map[k] = file.map[k]
         /\ missed'.version \/ (~missed.version /\ file'.ver = file.ver)
<1>1. CASE file' = [file EXCEPT !.torn = "no"] /\ UNCHANGED missed
  <2>1. file' = [ver |-> file.ver, map |-> file.map, layered |-> file.layered,
                 torn |-> "no", rest |-> file.rest]
    BY <1>1, FileTypes
  <2>2. missed.version \in BOOLEAN
    BY FileTypes DEF Missing
  <2> QED BY <1>1, <2>1, <2>2, FileTypes DEF File
<1>2. CASE /\ \E t \in {Table(file), WithPatch(d, GetDiffs(saver.last.map, d.map))} :
                file' = [file EXCEPT !.torn = "no", !.rest = {t}]
           /\ UNCHANGED missed
  <2>1. PICK t \in {Table(file), WithPatch(d, GetDiffs(saver.last.map, d.map))} :
                file' = [file EXCEPT !.torn = "no", !.rest = {t}]
    BY <1>2
  <2>2. t \in Reading
    BY FileTypes, Patching
  <2>3. file' = [ver |-> file.ver, map |-> file.map, layered |-> file.layered,
                 torn |-> "no", rest |-> {t}]
    BY <2>1, FileTypes
  <2>4. missed.version \in BOOLEAN
    BY FileTypes DEF Missing
  <2> QED BY <1>2, <2>2, <2>3, <2>4, FileTypes DEF File
<1>3. CASE \E t \in file.rest : PassOver(t, {}, t.ver # file.ver)
  <2> PICK t \in file.rest : PassOver(t, {}, t.ver # file.ver)
    BY <1>3
  <2>1. {} \in SUBSET Key /\ (t.ver # file.ver) \in BOOLEAN
    OBVIOUS
  <2>2. PICK v \in BOOLEAN : v = (t.ver # file.ver) /\ PassOver(t, {}, v)
    BY <2>1
  <2>3. /\ file' \in File /\ file'.ver = t.ver /\ file'.map = t.map
        /\ file'.torn = "no" /\ missed' \in Missing
        /\ missed.keys \subseteq missed'.keys
        /\ \A k \in Key \ missed'.keys : t.map[k] = file.map[k]
        /\ missed'.version <=> missed.version \/ v
    BY <2>1, <2>2, PassingOver
  <2> QED BY <2>2, <2>3
<1> QED BY <1>1, <1>2, <1>3 DEF CutShort

LEMMA CrashTypes ==
  ASSUME Types, Crash
  PROVE  /\ Types'
         /\ \/ UNCHANGED <<file, missed>> /\ saver.job.how # "delta"
            \/ saver.job \in Job /\ saver.job.how = "delta" /\ CutShort(saver.job.db)
<1>1. /\ Version' = Version /\ Job' = Job /\ Messages' = Messages
      /\ Reading' = Reading /\ File' = File
      /\ ToSet(stash') = {} /\ pc' \in [Client -> Stage] /\ saver' \in [last : Version, job : Job]
  BY SaverTypes, EmptyFacts DEF Crash, Version, Job, Messages, Reading, File, Types, Stage
<1>2. /\ \/ UNCHANGED <<file, missed>> /\ saver.job.how # "delta"
         \/ saver.job \in Job /\ saver.job.how = "delta" /\ CutShort(saver.job.db)
      /\ file' \in File /\ missed' \in Missing
  <2>1. CASE saver.job.how = "delta"
    <3>1. CutShort(saver.job.db)
      BY <2>1 DEF Crash
    <3>2. saver.job \in Job /\ saver.job.db \in Version
      <4>1. saver.job.how # "none"
        BY <2>1
      <4> QED BY <4>1, SaverTypes DEF Types
    <3> QED BY <2>1, <3>1, <3>2, CutTypes
  <2>2. CASE saver.job.how # "delta"
    BY <2>2, FileTypes DEF Crash, Types
  <2> QED BY <2>1, <2>2
<1>3. ToSet(stash)' = ToSet(stash')
  OBVIOUS
<1>4. /\ file'.map \in Map /\ file'.ver \in 0..made /\ file'.torn \in {"no", "delta", "image"}
      /\ file'.rest \subseteq [ver : 0..made, map : Map, layered : BOOLEAN]
      /\ missed' \in [keys : SUBSET Key, version : BOOLEAN]
  BY <1>2 DEF File, Missing, Reading
<1>5. UNCHANGED <<db, val, made, history>> /\ mode' = "down" /\ owner' = None /\ net' = {} /\ timers' = {}
  BY DEF Crash
<1>6. TypeOK'
  BY <1>1, <1>3, <1>4, <1>5 DEF Types, TypeOK
<1>7. /\ stash' \in Seq(Messages)
      /\ toSaver' \in Seq([kind : {"full-save", "save-log"}, db : Version])
  <2>1. \A S : <<>> \in Seq(S)
    BY EmptySeq
  <2>2. stash' = <<>> /\ toSaver' = <<>>
    BY DEF Crash
  <2> QED BY <2>1, <2>2
<1>8. crashes' \in Nat
  <2>1. crashes \in Nat
    BY DEF Types
  <2>2. crashes' = crashes + 1
    BY DEF Crash
  <2> QED BY <2>1, <2>2
<1>9. Types'
  BY <1>1, <1>2, <1>5, <1>6, <1>7, <1>8 DEF Types
<1> QED BY <1>2, <1>9

LEMMA RestartTypes == ASSUME Types, Restart PROVE Types'
<1>1. /\ Version' = Version /\ Job' = Job /\ Messages' = Messages /\ ToSet(stash)' = ToSet(stash)
      /\ File' = File
  BY DEF Restart, Version, Job, Messages, File, Reading
<1> QED BY <1>1 DEF Restart, Types, TypeOK, saverVars, clientVars

LEMMA NascentKeepsTypes == ASSUME Types, NascentKeeps PROVE Types'
<1> PICK m \in net : Keep(m) /\ UNCHANGED <<saverVars, clientVars, crashes>>
  BY DEF NascentKeeps
<1>0. m \in Messages /\ stash \in Seq(Messages)
  BY Stays DEF Types
<1>1. made' = made /\ Version' = Version /\ Database' = Database /\ Messages' = Messages
  BY DEF Keep, Version, Database, Messages
<1>2. stash' \in Seq(Messages)
  BY <1>0 DEF Keep
<1>3. UNCHANGED <<mode, db, owner, timers, toSaver, made, history>> /\ net' = net \ {m}
  BY DEF Keep, Handle
<1>4. GateMakes({})
  BY <1>1, <1>2, <1>3, Stays DEF GateMakes, Types
<1> QED BY <1>4, Making

LEMMA RewriteTypes ==
  ASSUME Types, Rewrite
  PROVE  Types' /\ UNCHANGED <<file, missed, history>> /\ saver'.last = saver.last
         /\ saver'.job # NoJob /\ saver'.job.how = "open"
<1>1. /\ made \in Nat /\ made' = made + 1 /\ made' \in Nat /\ made <= made'
  BY DEF Rewrite, Types
<1>2. /\ Version \subseteq Version' /\ Job \subseteq Job' /\ Messages \subseteq Messages'
      /\ Reading \subseteq Reading' /\ File \subseteq File'
      /\ 0..made \subseteq 0..made' /\ 1..made \subseteq 1..made' /\ made' \in 0..made'
  BY <1>1, Grows
<1> DEFINE new == [ver |-> made + 1, map |-> EmptyMap]
<1>3. new \in Version'
  BY <1>1, <1>2 DEF EmptyMap, Map, Version
<1>4. saver' = [last |-> saver.last, job |-> [how |-> "open", db |-> new]]
  BY SaverTypes DEF Rewrite
<1> HIDE DEF new
<1>5. [how |-> "open", db |-> new] \in Job'
  BY <1>3 DEF Job
<1>6. saver' \in [last : Version', job : Job']
  BY <1>2, <1>4, <1>5, SaverTypes
<1>7. /\ saver'.last = saver.last /\ saver'.job.how = "open" /\ saver'.job # NoJob
  <2>1. NoJob.how # "open"
    BY DEF NoJob
  <2> QED BY <1>4, <2>1
<1>8. UNCHANGED <<gateVars, net, timers, toSaver, file, missed, clientVars, crashes, history>>
  BY DEF Rewrite
<1>9. stash' \in Seq(Messages') /\ ToSet(stash)' = ToSet(stash)
  BY <1>2, <1>8, SeqGrows DEF Types, gateVars
<1>10. toSaver' \in Seq([kind : {"full-save", "save-log"}, db : Version'])
  <2>1. [kind : {"full-save", "save-log"}, db : Version]
          \subseteq [kind : {"full-save", "save-log"}, db : Version']
    BY <1>2
  <2> QED BY <1>8, <2>1, SeqGrows DEF Types
<1>11. file' \in File' /\ file.rest \subseteq Reading'
  BY <1>2, <1>8, FileTypes DEF Types
<1>12. TypeOK'
  BY <1>1, <1>2, <1>8, <1>9, <1>11 DEF Types, TypeOK, gateVars, clientVars, Database, Reading
<1>13. Types'
  BY <1>1, <1>2, <1>6, <1>8, <1>9, <1>10, <1>11, <1>12 DEF Types, clientVars
<1> QED BY <1>7, <1>8, <1>13

LEMMA OpenedTypes ==
  ASSUME Types, Opened
  PROVE  /\ Types' /\ made' = made + 1 /\ db'.id = made + 1
         /\ db'.ver = file'.ver /\ db'.map = file'.map /\ Image(db') = Image(file')
         /\ saver'.last = Image(file') /\ saver'.job = NoJob /\ history' = {Image(file')}
         /\ \/ file' = file /\ file.torn = "no"
            \/ saver.job # NoJob /\ file'.torn = "no" /\ file'.rest = {}
<1>1. /\ made \in Nat /\ made' = made + 1 /\ made' \in Nat /\ made <= made'
  BY DEF Opened, Types
<1>2. /\ Version \subseteq Version' /\ Job \subseteq Job' /\ Messages \subseteq Messages'
      /\ Reading \subseteq Reading' /\ File \subseteq File'
      /\ 0..made \subseteq 0..made' /\ 1..made \subseteq 1..made' /\ made' \in 0..made'
  BY <1>1, Grows
<1>3. /\ file' \in File
      /\ \/ file' = file /\ file.torn = "no"
         \/ saver.job # NoJob /\ file'.torn = "no" /\ file'.rest = {}
  <2>1. CASE file.torn = "no" /\ UNCHANGED file
    BY <2>1 DEF Types
  <2>2. CASE /\ saver.job # NoJob
             /\ Yields([ver |-> saver.job.db.ver, map |-> saver.job.db.map, layered |-> FALSE])
    <3>1. [ver |-> saver.job.db.ver, map |-> saver.job.db.map, layered |-> FALSE] \in Reading
      BY <2>2, SaverTypes DEF Version, Reading
    <3>2. PICK t \in Reading : Yields(t)
      BY <2>2, <3>1
    <3> QED BY <2>2, <3>2, Yielding
  <2> QED BY <2>1, <2>2 DEF Opened
<1>4. /\ db' = [id |-> made + 1, ver |-> file'.ver, map |-> file'.map, layered |-> file'.layered]
      /\ saver' = [last |-> Image(file'), job |-> NoJob] /\ history' = {Image(file')}
      /\ mode' = "open" /\ net' = net \cup ToSet(stash) /\ stash' = <<>> /\ missed' = AllRead
      /\ UNCHANGED <<owner, timers, toSaver, clientVars, crashes>>
  BY DEF Opened
<1>5. /\ db'.id = made + 1 /\ db'.ver = file'.ver /\ db'.map = file'.map
      /\ Image(db') = Image(file')
  BY <1>4 DEF Image
<1>6. db' \in Database' /\ Image(file') \in Version
  BY <1>1, <1>2, <1>3, <1>4 DEF Database, Image, Version, File
<1>7. saver' \in [last : Version', job : Job'] /\ history' \subseteq Version'
  BY <1>2, <1>4, <1>6, SaverTypes
<1>8. net' \subseteq Messages' /\ ToSet(stash)' = {} /\ stash' \in Seq(Messages')
  BY <1>2, <1>4, Stays, EmptyFacts
<1>9. toSaver' \in Seq([kind : {"full-save", "save-log"}, db : Version'])
  <2>1. [kind : {"full-save", "save-log"}, db : Version]
          \subseteq [kind : {"full-save", "save-log"}, db : Version']
    BY <1>2
  <2> QED BY <1>4, <2>1, SeqGrows DEF Types
<1>10. /\ file' \in File' /\ missed' \in [keys : SUBSET Key, version : BOOLEAN]
       /\ file'.map \in Map /\ file'.ver \in 0..made' /\ file'.torn \in {"no", "delta", "image"}
       /\ file'.rest \subseteq [ver : 0..made', map : Map, layered : BOOLEAN]
  <2>1. file' \in File'
    BY <1>2, <1>3
  <2>2. missed' \in [keys : SUBSET Key, version : BOOLEAN]
    BY <1>4 DEF AllRead
  <2> QED BY <2>1, <2>2 DEF File, Reading
<1>11. TypeOK'
  BY <1>1, <1>2, <1>4, <1>6, <1>8, <1>10 DEF Types, TypeOK, clientVars, Database
<1>12. Types'
  BY <1>1, <1>2, <1>4, <1>7, <1>8, <1>9, <1>10, <1>11 DEF Types, clientVars
<1> QED BY <1>1, <1>3, <1>4, <1>5, <1>12

LEMMA NextTypes == ASSUME Types, [Next]_vars PROVE Types'
<1>1. CASE UNCHANGED vars
  <2>1. /\ Version' = Version /\ Job' = Job /\ Messages' = Messages /\ ToSet(stash)' = ToSet(stash)
        /\ File' = File
    BY <1>1 DEF vars, gateVars, saverVars, Version, Job, Messages, File, Reading
  <2> QED BY <1>1, <2>1 DEF vars, Types, TypeOK, gateVars, saverVars, clientVars
<1>2. CASE Quiet
  BY <1>1, <1>2 DEF Quiet
<1> QED BY <1>1, <1>2, ClientTypes, GateTypes, SavingTypes, CrashTypes, RestartTypes,
           NascentKeepsTypes, RewriteTypes, OpenedTypes DEF Next, GateStep

(* The variables have their types, whatever the clients do and whenever    *)
(* the process crashes (kvdb.lisp:338-406).                                *)
THEOREM TypeCorrect == Spec => []TypeOK
<1>1. Types => TypeOK
  BY DEF Types
<1> QED BY <1>1, InitTypes, NextTypes, PTL DEF Spec

-----------------------------------------------------------------------------
(* The conversation is kept.                                               *)

(* A message goes, its answer comes, and what was stashed may be sent.     *)
LEMMA Answered ==
  ASSUME Types, Once, NEW m \in net, NEW R,
         \A r \in R : Party(r) = Party(m), \A r, s \in R : r = s,
         \/ net' = (net \ {m}) \cup R /\ stash' = stash
         \/ net' = (net \ {m}) \cup (R \cup ToSet(stash)) /\ stash' = <<>>
  PROVE  /\ \A n \in All' : n \in R \/ (n \in All /\ Party(n) # Party(m))
         /\ \A n, o \in All' : Party(n) = Party(o) => n = o
         /\ \A n \in ToSet(stash)' : n \notin net' /\ n.to = "gate"
<1>1. /\ ToSet(<<>>) = {} /\ m \in All /\ m \notin ToSet(stash)
      /\ \A n, o \in All : Party(n) = Party(o) => n = o
      /\ \A n \in ToSet(stash) : n \in All
  BY EmptyFacts DEF Once, All
<1>2. \A n \in All' : n \in R \/ (n \in All /\ n # m)
  BY <1>1 DEF All
<1>3. \A n \in All' : n \in R \/ (n \in All /\ Party(n) # Party(m))
  BY <1>1, <1>2
<1>4. \A n, o \in All' : Party(n) = Party(o) => n = o
  BY <1>1, <1>3
<1>5. \A n \in ToSet(stash)' : n \notin net' /\ n.to = "gate"
  <2> SUFFICES ASSUME NEW n \in ToSet(stash)' PROVE n \notin net' /\ n.to = "gate"
    OBVIOUS
  <2>1. stash' = stash /\ net' = (net \ {m}) \cup R
    BY <1>1
  <2>2. n \in ToSet(stash) /\ n \in All /\ n # m
    BY <1>1, <2>1
  <2>3. Party(n) # Party(m)
    BY <1>1, <2>2
  <2> QED BY <2>1, <2>2, <2>3 DEF Once
<1> QED BY <1>3, <1>4, <1>5

(* A message is kept for later.                                            *)
LEMMA Deferred ==
  ASSUME Types, Once, NEW m \in net, m.to = "gate",
         net' = net \ {m}, stash' = Append(stash, m)
  PROVE  /\ All' = All
         /\ \A n, o \in All' : Party(n) = Party(o) => n = o
         /\ \A n \in ToSet(stash)' : n \notin net' /\ n.to = "gate"
<1>1. ToSet(stash)' = ToSet(stash) \cup {m}
  BY SetFacts DEF Types
<1> QED BY <1>1 DEF Once, All

(* What a message means depends on its client, on the database and on its  *)
(* owner.                                                                  *)
LEMMA SameMeaning ==
  ASSUME NEW n, pc'[Party(n)] = pc[Party(n)], val'[Party(n)] = val[Party(n)],
         owner' = owner, db' = db, Proper(n), Held(n), Copied(n)
  PROVE  Proper(n)' /\ Held(n)' /\ Copied(n)'
BY DEF Proper, Held, Copied

(* A database made anew leaves no copy up to date.                         *)
LEMMA NewMeaning ==
  ASSUME Types, NEW n \in All, UNCHANGED clientVars, db'.id > made, Proper(n), Copied(n),
         IsSession(Party(n)) => n.kind \notin {"db", "commit", "abort"}
  PROVE  Proper(n)' /\ Held(n)' /\ Copied(n)'
<1>1. n \in Messages /\ made \in Nat
  BY DEF Types, TypeOK, All
<1>2. /\ n.kind = "db" => n.db.id \in 0..made
      /\ n.kind = "commit" => n.old \in 0..made
  BY <1>1, Kinds DEF Database
<1>3. pc' = pc /\ val' = val
  BY DEF clientVars
<1>4. Proper(n)'
  BY <1>3 DEF Proper
<1>5. Held(n)'
  BY DEF Held
<1>6. Copied(n)'
  <2>1. /\ n.kind = "db" => n.db.id # db'.id
        /\ n.kind = "commit" => n.old # db'.id
    BY <1>1, <1>2
  <2> QED BY <2>1 DEF Copied
<1> QED BY <1>4, <1>5, <1>6

(* A step of a client.                                                     *)
LEMMA ClientTalks ==
  ASSUME Types, Talk, NEW c \in Client, ClientStep(c)
  PROVE  Talk'
<1>0. /\ UNCHANGED gateVars /\ pc \in [Client -> Stage] /\ val \in [Client -> Val \cup {None}]
      /\ Once /\ Owned /\ \A m \in All : Proper(m) /\ Held(m) /\ Copied(m)
  BY ClientTypes DEF Types, TypeOK, Talk
<1>1. Owned' /\ stash' = stash /\ owner' = owner /\ db' = db
  BY <1>0 DEF Owned, gateVars
<1>2. ASSUME NEW m \in net, m.to = c, NEW next \in Stage \ {"start"}, NEW R,
             Receive(c, m, next, R), \A r, s \in R : r = s,
             \A r \in R : Party(r) = c /\ Proper(r)' /\ Held(r)' /\ Copied(r)',
             \A d \in Client \ {c} : val'[d] = val[d]
      PROVE  Talk'
  <2>1. Party(m) = c /\ \A d \in Client : d # "gate"
    BY <1>2, Kinds, OperationAssumption DEF Types, TypeOK
  <2>2. net' = (net \ {m}) \cup R /\ pc' = [pc EXCEPT ![c] = next]
    BY <1>2 DEF Receive
  <2>3. /\ \A n \in All' : n \in R \/ (n \in All /\ Party(n) # c)
        /\ \A n, o \in All' : Party(n) = Party(o) => n = o
        /\ \A n \in ToSet(stash)' : n \notin net' /\ n.to = "gate"
    BY <1>0, <1>1, <1>2, <2>1, <2>2, Answered
  <2>4. \A n \in All : Party(n) \in Client
    BY Kinds DEF Types, TypeOK, All
  <2>5. pc'[c] = next /\ \A d \in Client \ {c} : pc'[d] = pc[d]
    BY <1>0, <2>2
  <2>6. Once'
    <3>1. ASSUME NEW d \in Client, pc'[d] = "start", NEW n \in All', Party(n) = d PROVE FALSE
      <4>1. d # c /\ pc[d] = "start"
        BY <1>2, <2>5, <3>1
      <4>2. n \in All
        BY <1>2, <2>3, <3>1, <4>1
      <4> QED BY <1>0, <3>1, <4>1, <4>2 DEF Once
    <3> QED BY <2>3, <3>1 DEF Once
  <2>7. ASSUME NEW n \in All' PROVE Proper(n)' /\ Held(n)' /\ Copied(n)'
    <3>1. CASE n \in R
      BY <1>2, <3>1
    <3>2. CASE n \in All /\ Party(n) # c
      <4>1. pc'[Party(n)] = pc[Party(n)] /\ val'[Party(n)] = val[Party(n)]
        BY <1>2, <2>4, <2>5, <3>2
      <4> QED BY <1>0, <1>1, <3>2, <4>1, SameMeaning
    <3> QED BY <2>3, <3>1, <3>2
  <2> QED BY <1>1, <2>6, <2>7 DEF Talk
<1>3. CASE Start(c)
  <2> PICK k \in {"req", "req-excl", "maint"} :
        /\ k = IF IsSession(c) THEN "req-excl" ELSE IF Op[c].kind = "maint" THEN "maint" ELSE "req"
        /\ net' = net \cup {ToGate(k, c)}
    BY <1>3 DEF Start
  <2> DEFINE r == ToGate(k, c)
  <2>1. /\ pc[c] = "start" /\ val' = val
        /\ pc' = [pc EXCEPT ![c] = IF Op[c].kind = "maint" THEN "done" ELSE "reading"]
    BY <1>3 DEF Start
  <2>2. r.to = "gate" /\ r.kind = k /\ Party(r) = c
    BY Forms
  <2>3. \A n \in All : Party(n) \in Client /\ Party(n) # c
    BY <1>0, <2>1, Kinds DEF Once, Types, TypeOK, All
  <2>4. /\ pc'[c] = IF Op[c].kind = "maint" THEN "done" ELSE "reading"
        /\ \A d \in Client \ {c} : pc'[d] = pc[d]
    BY <1>0, <2>1
  <2> HIDE DEF r
  <2>5. All' = All \cup {r} /\ net' = net \cup {r}
    BY <1>1 DEF All, r
  <2>6. Proper(r)' /\ Held(r)' /\ Copied(r)'
    BY <2>2, <2>4 DEF Proper, Held, Copied, IsSession
  <2>7. Once'
    BY <1>0, <1>1, <2>2, <2>3, <2>4, <2>5 DEF Once, All
  <2>8. ASSUME NEW n \in All' PROVE Proper(n)' /\ Held(n)' /\ Copied(n)'
    <3>1. CASE n \in All
      BY <1>0, <1>1, <2>1, <2>3, <2>4, <3>1, SameMeaning
    <3> QED BY <2>5, <2>6, <3>1
  <2> QED BY <1>1, <2>7, <2>8 DEF Talk
<1>4. CASE \E m \in net : m.to = c /\ \/ Find(c, m) \/ Change(c, m) \/ RemoveNothing(c, m)
                                      \/ Session(c, m) \/ Told(c, m)
  <2> PICK m \in net : m.to = c /\ \/ Find(c, m) \/ Change(c, m) \/ RemoveNothing(c, m)
                                   \/ Session(c, m) \/ Told(c, m)
    BY <1>4
  <2>1. Party(m) = c /\ Proper(m) /\ Held(m) /\ Copied(m)
    BY <1>0, Kinds, OperationAssumption DEF Types, TypeOK, All
  <2>2. CASE Find(c, m) \/ RemoveNothing(c, m) \/ Told(c, m)
    <3>1. PICK next \in Stage \ {"start"} : Receive(c, m, next, {})
      BY <2>2 DEF Find, RemoveNothing, Told, Stage
    <3>2. \A d \in Client \ {c} : val'[d] = val[d]
      BY <1>0, <2>2 DEF Find, RemoveNothing, Told
    <3> QED BY <1>2, <3>1, <3>2
  <2>3. CASE Change(c, m)
    <3> DEFINE patch == PatchOf(c, m.db.map)  r == CommitOf(c, m.db, patch)
    <3>1. /\ m.kind = "db" /\ Op[c].kind \in {"add", "remove", "find-or-add"}
          /\ val' = [val EXCEPT ![c] = Apply(m.db.map, patch)[Op[c].key]]
          /\ Receive(c, m, "committing", {r})
      BY <2>3 DEF Change
    <3>2. /\ r.to = "gate" /\ r.kind = "commit" /\ Party(r) = c /\ r.old = m.db.id
          /\ r.map = Apply(m.db.map, patch) /\ r.same = Same(m.db.map, patch)
      BY Forms
    <3>3. pc'[c] = "committing"
      BY <1>0, <3>1 DEF Receive
    <3> HIDE DEF r
    <3>4. Proper(r)' /\ Held(r)'
      BY <3>1, <3>2, <3>3 DEF Proper, Held, IsSession
    <3>5. Copied(r)'
      <4>1. val'[c] = r.map[Op[c].key]
        BY <1>0, <3>1, <3>2
      <4>2. r.old = db.id => m.db.map = db.map
        BY <2>1, <3>1, <3>2 DEF Copied
      <4> QED BY <1>1, <3>2, <4>1, <4>2 DEF Copied
    <3>6. \A d \in Client \ {c} : val'[d] = val[d]
      BY <1>0, <3>1
    <3>7. Receive(c, m, "committing", {r}) /\ "committing" \in Stage \ {"start"}
      BY <3>1 DEF r, Stage
    <3> QED BY <1>2, <3>2, <3>4, <3>5, <3>6, <3>7
  <2>4. CASE Session(c, m)
    <3>1. /\ m.kind = "db" /\ IsSession(c) /\ val' = val
          /\ owner = c /\ m.db.id = db.id
      BY <2>1, <2>4 DEF Session, Held
    <3>2. m.db.map = db.map
      BY <2>1, <3>1 DEF Copied
    <3>3. CASE Receive(c, m, "reading again", {ToGate("req-excl", c)})
      <4> DEFINE r == ToGate("req-excl", c)
      <4>1. r.kind = "req-excl" /\ Party(r) = c
        BY Forms
      <4>2. pc'[c] = "reading again"
        BY <1>0, <3>3 DEF Receive
      <4> HIDE DEF r
      <4>3. Proper(r)' /\ Held(r)' /\ Copied(r)'
        BY <3>1, <4>1, <4>2 DEF Proper, Held, Copied, IsSession
      <4> QED BY <1>2, <3>1, <3>3, <4>1, <4>3 DEF Stage, r
    <3>4. CASE Receive(c, m, "committing", {ToGate("abort", c)})
      <4> DEFINE r == ToGate("abort", c)
      <4>1. r.kind = "abort" /\ Party(r) = c
        BY Forms
      <4>2. pc'[c] = "committing"
        BY <1>0, <3>4 DEF Receive
      <4> HIDE DEF r
      <4>3. Proper(r)' /\ Held(r)' /\ Copied(r)'
        BY <1>1, <3>1, <4>1, <4>2 DEF Proper, Held, Copied, IsSession
      <4> QED BY <1>2, <3>1, <3>4, <4>1, <4>3 DEF Stage, r
    <3>5. CASE Receive(c, m, "committing", {CommitOf(c, m.db, Op[c].patch)})
      <4> DEFINE r == CommitOf(c, m.db, Op[c].patch)
      <4>1. /\ r.kind = "commit" /\ Party(r) = c /\ r.old = m.db.id
            /\ r.map = Apply(m.db.map, Op[c].patch) /\ r.same = Same(m.db.map, Op[c].patch)
        BY Forms
      <4>2. pc'[c] = "committing"
        BY <1>0, <3>5 DEF Receive
      <4> HIDE DEF r
      <4>3. Proper(r)' /\ Held(r)'
        BY <1>1, <3>1, <4>1, <4>2 DEF Proper, Held, IsSession
      <4>4. PatchOf(c, db.map) = Op[c].patch /\ Op[c].kind # "find-or-add"
        BY <3>1 DEF PatchOf, IsSession
      <4>5. Copied(r)'
        BY <1>1, <3>2, <4>1, <4>4 DEF Copied
      <4> QED BY <1>2, <3>1, <3>5, <4>1, <4>3, <4>5 DEF Stage, r
    <3> QED BY <2>4, <3>3, <3>4, <3>5 DEF Session
  <2> QED BY <2>2, <2>3, <2>4
<1> QED BY <1>3, <1>4 DEF ClientStep

(* Who does not own the commits is not touched by what becomes of owner    *)
(* and database.                                                           *)
LEMMA Bystander ==
  ASSUME Types, NEW n \in All, UNCHANGED clientVars, db' = db \/ db'.id > made,
         Party(n) # owner, Proper(n), Held(n), Copied(n)
  PROVE  Proper(n)' /\ Held(n)' /\ Copied(n)'
<1>1. IsSession(Party(n)) => n.kind \notin {"db", "commit", "abort"}
  BY DEF Held
<1>2. CASE db' = db
  <2>1. pc' = pc /\ val' = val
    BY DEF clientVars
  <2> QED BY <1>1, <1>2, <2>1 DEF Proper, Held, Copied
<1> QED BY <1>1, <1>2, NewMeaning

LEMMA GateTalks ==
  ASSUME Types, Talk, NEW c \in Client, GateHandles(c)
  PROVE  Talk'
<1> PICK m \in net :
      /\ m.to = "gate" /\ m.from = c
      /\ \/ GateReq(m) \/ GateReqExcl(m) \/ GateCommit(m) \/ OwnerCommit(m)
         \/ OwnerAbort(m) \/ OthersWait(m) \/ GateMaint(m)
  BY DEF GateHandles
<1>0. /\ UNCHANGED clientVars /\ mode = "open" /\ pc' = pc /\ val' = val
      /\ Once /\ Owned /\ \A n \in All : Proper(n) /\ Held(n) /\ Copied(n)
      /\ made \in Nat /\ db \in Database /\ c # None
  BY Stays, OperationAssumption DEF GateHandles, Talk, clientVars
<1>1. /\ Party(m) = c /\ m \in All /\ m \in Messages
      /\ \A n \in All : Party(n) \in Client /\ Party(n) # None
  BY Kinds, OperationAssumption DEF Types, TypeOK, All
<1>2. ASSUME NEW R, \A r, s \in R : r = s,
             \A r \in R : Party(r) = c /\ Proper(r)' /\ Held(r)' /\ Copied(r)',
             \/ Handle(m, R) /\ stash' = stash
             \/ Handle(m, R \cup ToSet(stash)) /\ stash' = <<>>,
             \A n \in All : Party(n) # c => Proper(n)' /\ Held(n)' /\ Copied(n)',
             Owned'
      PROVE  Talk'
  <2>1. \/ net' = (net \ {m}) \cup R /\ stash' = stash
        \/ net' = (net \ {m}) \cup (R \cup ToSet(stash)) /\ stash' = <<>>
    BY <1>2 DEF Handle
  <2>2. /\ \A n \in All' : n \in R \/ (n \in All /\ Party(n) # c)
        /\ \A n, o \in All' : Party(n) = Party(o) => n = o
        /\ \A n \in ToSet(stash)' : n \notin net' /\ n.to = "gate"
    BY <1>0, <1>1, <1>2, <2>1, Answered
  <2>3. Once'
    BY <1>0, <1>1, <1>2, <2>2 DEF Once
  <2>4. \A n \in All' : Proper(n)' /\ Held(n)' /\ Copied(n)'
    BY <1>2, <2>2
  <2> QED BY <1>2, <2>3, <2>4 DEF Talk
<1>3. ASSUME Keep(m) PROVE Talk'
  <2>1. /\ net' = net \ {m} /\ stash' = Append(stash, m)
        /\ mode' = mode /\ db' = db /\ owner' = owner
    BY <1>3 DEF Keep, Handle
  <2>2. /\ All' = All
        /\ \A n, o \in All' : Party(n) = Party(o) => n = o
        /\ \A n \in ToSet(stash)' : n \notin net' /\ n.to = "gate"
    BY <1>0, <2>1, Deferred
  <2>3. Once' /\ Owned'
    BY <1>0, <2>1, <2>2 DEF Once, Owned
  <2>4. \A n \in All' : Proper(n)' /\ Held(n)' /\ Copied(n)'
    BY <1>0, <2>1, <2>2, SameMeaning
  <2> QED BY <2>3, <2>4 DEF Talk
<1>4. ASSUME db' = db \/ db'.id > made, owner \in {None, c}
      PROVE  \A n \in All : Party(n) # c => Proper(n)' /\ Held(n)' /\ Copied(n)'
  BY <1>0, <1>1, <1>4, Bystander
<1>5. /\ DbTo(c, db).kind = "db" /\ DbTo(c, db).db = db /\ Party(DbTo(c, db)) = c
      /\ \A k : TellTo(c, k).kind = k /\ Party(TellTo(c, k)) = c
  BY Forms
(* A copy is given to one that only reads or is optimistic.                *)
<1>6. ASSUME Handle(m, {DbTo(c, db)}), ~IsSession(c), m.kind \in {"req", "commit"},
             UNCHANGED <<mode, db, owner, stash>>
      PROVE  Talk'
  <2> PICK r : r = DbTo(c, db)
    OBVIOUS
  <2>1. Proper(m) /\ r.kind = "db" /\ r.db = db /\ Party(r) = c
    BY <1>0, <1>1, <1>5
  <2>2. Proper(r)' /\ Held(r)' /\ Copied(r)'
    BY <1>0, <1>1, <1>6, <2>1 DEF Proper, Held, Copied
  <2>3. \A n \in All : Proper(n)' /\ Held(n)' /\ Copied(n)'
    BY <1>0, <1>6, SameMeaning
  <2>4. Owned'
    BY <1>0, <1>6 DEF Owned
  <2> PICK R : R = {r}
    OBVIOUS
  <2>5. /\ Handle(m, R) /\ stash' = stash /\ \A s, t \in R : s = t
        /\ \A s \in R : Party(s) = c /\ Proper(s)' /\ Held(s)' /\ Copied(s)'
    BY <1>6, <2>1, <2>2
  <2> QED BY <1>2, <2>3, <2>4, <2>5
(* An operation has been done, by one that had the commits or needed none. *)
<1>7. ASSUME NEW k \in {"committed", "aborted"}, m.kind \in {"commit", "abort"},
             k = "aborted" => IsSession(c), k = "committed" => m.kind = "commit",
             \/ Handle(m, {TellTo(c, k)}) /\ stash' = stash
             \/ Handle(m, {TellTo(c, k)} \cup ToSet(stash)) /\ stash' = <<>>,
             db' = db \/ db'.id > made, owner \in {None, c}, owner' = None
      PROVE  Talk'
  <2> DEFINE r == TellTo(c, k)
  <2>1. Proper(m)
    BY <1>0, <1>1
  <2>2. r.kind = k /\ Party(r) = c
    BY <1>5
  <2> HIDE DEF r
  <2>3. Proper(r)' /\ Held(r)' /\ Copied(r)'
    BY <1>0, <1>1, <1>7, <2>1, <2>2 DEF Proper, Held, Copied
  <2>4. Owned'
    BY <1>7 DEF Owned
  <2> PICK R : R = {r}
    OBVIOUS
  <2>5. /\ \A s, t \in R : s = t
        /\ \A s \in R : Party(s) = c /\ Proper(s)' /\ Held(s)' /\ Copied(s)'
    BY <2>2, <2>3
  <2>6. \/ Handle(m, R) /\ stash' = stash
        \/ Handle(m, R \cup ToSet(stash)) /\ stash' = <<>>
    BY <1>7 DEF r
  <2>7. \A n \in All : Party(n) # c => Proper(n)' /\ Held(n)' /\ Copied(n)'
    BY <1>4, <1>7
  <2> QED BY <1>2, <2>4, <2>5, <2>6, <2>7
<1>8. ASSUME Install(m), m.kind = "commit" PROVE db' = db \/ db'.id > made
  BY <1>0, <1>8, Installs
<1>9. CASE GateReq(m)
  <2>1. ~IsSession(c)
    BY <1>0, <1>1, <1>9 DEF GateReq, Proper
  <2> QED BY <1>6, <1>9, <2>1 DEF GateReq, gateVars
<1>10. CASE GateReqExcl(m)
  <2>1. CASE /\ owner \in {None, c} /\ owner' = c /\ Handle(m, {DbTo(c, db)})
             /\ UNCHANGED <<mode, db, stash>>
    <3> PICK r : r = DbTo(c, db)
      OBVIOUS
    <3>1. /\ Proper(m) /\ m.kind = "req-excl" /\ IsSession(c)
          /\ r.kind = "db" /\ r.db = db /\ Party(r) = c
      BY <1>0, <1>1, <1>5, <1>10 DEF GateReqExcl, Proper
    <3>2. Proper(r)' /\ Held(r)' /\ Copied(r)'
      BY <1>0, <1>1, <2>1, <3>1 DEF Proper, Held, Copied
    <3>3. Owned'
      BY <1>0, <2>1, <3>1 DEF Owned
    <3> PICK R : R = {r}
      OBVIOUS
    <3>4. /\ Handle(m, R) /\ stash' = stash /\ \A s, t \in R : s = t
          /\ \A s \in R : Party(s) = c /\ Proper(s)' /\ Held(s)' /\ Copied(s)'
      BY <2>1, <3>1, <3>2
    <3>5. \A n \in All : Party(n) # c => Proper(n)' /\ Held(n)' /\ Copied(n)'
      BY <1>4, <2>1
    <3> QED BY <1>2, <3>3, <3>4, <3>5
  <2> QED BY <1>3, <1>10, <2>1 DEF GateReqExcl
<1>11. CASE GateCommit(m)
  <2>1. ~IsSession(c) /\ m.kind = "commit" /\ owner = None
    BY <1>0, <1>1, <1>11 DEF GateCommit, Held
  <2>2. /\ UNCHANGED <<mode, owner, stash, toSaver>>
        /\ \/ Install(m) /\ Handle(m, {TellTo(c, "committed")})
           \/ Handle(m, {DbTo(c, db)}) /\ UNCHANGED <<db, timers, made, history>>
    BY <1>11 DEF GateCommit
  <2>3. CASE Install(m) /\ Handle(m, {TellTo(c, "committed")})
    BY <1>7, <1>8, <2>1, <2>2, <2>3
  <2>4. CASE Handle(m, {DbTo(c, db)}) /\ UNCHANGED <<db, timers, made, history>>
    BY <1>6, <2>1, <2>2, <2>4
  <2> QED BY <2>2, <2>3, <2>4
<1>12. CASE OwnerCommit(m)
  <2>1. /\ m.kind = "commit" /\ owner = c /\ Install(m) /\ owner' = None /\ stash' = <<>>
        /\ Handle(m, {TellTo(c, "committed")} \cup ToSet(stash))
    BY <1>12 DEF OwnerCommit, Unstash
  <2> QED BY <1>7, <1>8, <2>1
<1>13. CASE OwnerAbort(m)
  <2>1. /\ m.kind = "abort" /\ owner = c /\ db' = db /\ owner' = None /\ stash' = <<>>
        /\ Handle(m, {TellTo(c, "aborted")} \cup ToSet(stash))
    BY <1>13 DEF OwnerAbort, Unstash
  <2>2. IsSession(c)
    BY <1>0, <1>1, <2>1 DEF Proper
  <2> QED BY <1>7, <2>1, <2>2
<1>14. CASE OthersWait(m)
  BY <1>3, <1>14 DEF OthersWait
<1>15. CASE GateMaint(m)
  <2>1. /\ owner = None /\ owner' = None /\ mode' = mode /\ stash' = stash /\ Handle(m, {})
        /\ \/ db' = [db EXCEPT !.id = made + 1, !.layered = FALSE]
           \/ db' = db
    BY <1>15 DEF GateMaint
  <2>2. db' = db \/ db'.id > made
    <3>1. CASE db' = [db EXCEPT !.id = made + 1, !.layered = FALSE]
      <4>1. db'.id = made + 1
        BY <1>0, <3>1 DEF Database
      <4> QED BY <1>0, <4>1
    <3> QED BY <2>1, <3>1
  <2>3. Owned'
    BY <2>1 DEF Owned
  <2> QED BY <1>2, <1>4, <2>1, <2>2, <2>3
<1> QED BY <1>9, <1>10, <1>11, <1>12, <1>13, <1>14, <1>15

(* Crashes end all conversations; then the gate gathers new ones.          *)
LEMMA CrashTalks == ASSUME Types, Talk, Crash PROVE Talk'
<1>1. All' = {} /\ ToSet(stash)' = {} /\ owner' = None
  BY EmptyFacts DEF Crash, All
<1> QED BY <1>1 DEF Talk, Once, Owned

LEMMA OthersTalk ==
  ASSUME Types, Talk, UNCHANGED <<db, owner, stash, net, clientVars>>,
         mode' = mode \/ mode = "down" \/ mode' = "open"
  PROVE  Talk'
<1>1. All' = All /\ ToSet(stash)' = ToSet(stash) /\ pc' = pc /\ val' = val
  BY DEF All, clientVars
<1>2. Once' /\ Owned'
  BY <1>1 DEF Talk, Once, Owned
<1>3. \A n \in All' : Proper(n)' /\ Held(n)' /\ Copied(n)'
  BY <1>1, SameMeaning DEF Talk
<1> QED BY <1>2, <1>3 DEF Talk

LEMMA NascentKeepsTalks == ASSUME Types, Talk, NascentKeeps PROVE Talk'
<1> PICK m \in net : m.to = "gate" /\ Keep(m) /\ UNCHANGED clientVars
  BY DEF NascentKeeps
<1>1. /\ net' = net \ {m} /\ stash' = Append(stash, m)
      /\ mode' = mode /\ db' = db /\ owner' = owner /\ pc' = pc /\ val' = val
  BY DEF Keep, Handle, clientVars
<1>2. /\ All' = All
      /\ \A n, o \in All' : Party(n) = Party(o) => n = o
      /\ \A n \in ToSet(stash)' : n \notin net' /\ n.to = "gate"
  BY <1>1, Deferred DEF Talk
<1>3. Once' /\ Owned'
  BY <1>1, <1>2 DEF Talk, Once, Owned
<1>4. \A n \in All' : Proper(n)' /\ Held(n)' /\ Copied(n)'
  BY <1>1, <1>2, SameMeaning DEF Talk
<1> QED BY <1>3, <1>4 DEF Talk

LEMMA OpenedTalks == ASSUME Types, Talk, Opened PROVE Talk'
<1>1. /\ net' = net \cup ToSet(stash) /\ stash' = <<>> /\ UNCHANGED clientVars
      /\ pc' = pc /\ owner' = owner /\ owner = None
  BY DEF Opened, clientVars, Talk, Owned
<1>2. All' = All /\ ToSet(stash)' = {}
  BY <1>1, EmptyFacts DEF All
<1>3. Once' /\ Owned'
  BY <1>1, <1>2 DEF Talk, Once, Owned
<1>4. ASSUME NEW n \in All PROVE Proper(n)' /\ Held(n)' /\ Copied(n)'
  <2>1. Party(n) # owner
    BY <1>1, Kinds, OperationAssumption DEF Types, TypeOK, All
  <2>2. db'.id > made
    BY OpenedTypes DEF Types
  <2> QED BY <1>1, <2>1, <2>2, Bystander DEF Talk
<1> QED BY <1>2, <1>3, <1>4 DEF Talk

LEMMA InitTalk == Init => Talk
<1> SUFFICES ASSUME Init PROVE Talk
  OBVIOUS
<1>1. All = {} /\ ToSet(stash) = {} /\ owner = None
  BY EmptyFacts DEF Init, All
<1> QED BY <1>1 DEF Talk, Once, Owned

LEMMA NextTalks == ASSUME Types, Talk, [Next]_vars PROVE Talk'
<1>1. CASE UNCHANGED vars \/ Quiet
  <2>1. UNCHANGED <<mode, db, owner, stash, net, clientVars>>
    BY <1>1 DEF vars, gateVars, Quiet
  <2> QED BY <2>1, OthersTalk
<1>2. CASE (\E i \in timers : SaveTimer(i)) \/ SaverStep
  <2>1. UNCHANGED <<mode, db, owner, stash, net, clientVars>>
    BY <1>2, SavingTypes DEF Kept, gateVars
  <2> QED BY <2>1, OthersTalk
<1>3. CASE Restart
  BY <1>3, OthersTalk DEF Restart, clientVars
<1>4. CASE Rewrite
  BY <1>4, OthersTalk DEF Rewrite, clientVars, gateVars
<1> QED BY <1>1, <1>2, <1>3, <1>4, ClientTalks, GateTalks, CrashTalks, NascentKeepsTalks,
           OpenedTalks DEF Next, GateStep

LEMMA Conversation == Spec => [](Types /\ Talk)
<1>1. Init => Types /\ Talk
  BY InitTypes, InitTalk
<1>2. Types /\ Talk /\ [Next]_vars => Types' /\ Talk'
  BY NextTypes, NextTalks
<1> QED BY <1>1, <1>2, PTL DEF Spec

(* The commit of an owner always succeeds: its copy is of the present      *)
(* database (kvdb.lisp:382-395).                                           *)
THEOREM OwnerCommits == Spec => []OwnerIsUpToDate
<1>1. Types /\ Talk => OwnerIsUpToDate
  <2> SUFFICES ASSUME Types, Talk, NEW m \in net,
                      m.to = "gate", m.kind = "commit", m.from = owner
               PROVE  m.old = db.id
    BY DEF OwnerIsUpToDate
  <2>1. Party(m) = owner /\ owner \in Client /\ Held(m)
    BY Kinds DEF Types, TypeOK, Talk, All
  <2>2. owner # None
    BY <2>1, OperationAssumption
  <2> QED BY <2>1, <2>2 DEF Held, Talk, Owned
<1> QED BY <1>1, Conversation, PTL

(* While a client owns the commits the database changes only by its own    *)
(* commit (kvdb.lisp:372-406).                                             *)
THEOREM OwnerUndisturbed == Spec => OwnerHoldsCommits
<1>1. Types /\ Talk /\ [Next]_vars =>
        [owner # None /\ db' # db => owner' = None /\ pc[owner] = "committing"]_vars
  <2> SUFFICES ASSUME Types, Talk, Next, owner # None, db' # db
               PROVE  owner' = None /\ pc[owner] = "committing"
    BY DEF vars, gateVars
  <2>1. CASE GateStep
    <3> PICK c \in Client : GateHandles(c)
      BY <2>1 DEF GateStep
    <3> PICK m \in net :
          /\ m.to = "gate" /\ m.from = c
          /\ \/ GateReq(m) \/ GateReqExcl(m) \/ GateCommit(m) \/ OwnerCommit(m)
             \/ OwnerAbort(m) \/ OthersWait(m) \/ GateMaint(m)
      BY DEF GateHandles
    <3>1. OwnerCommit(m)
      BY DEF GateReq, GateReqExcl, GateCommit, OwnerAbort, OthersWait, GateMaint, Keep,
             Unstash, gateVars
    <3>2. m.kind = "commit" /\ m.from = owner /\ owner' = None
      BY <3>1 DEF OwnerCommit, Unstash
    <3>3. Party(m) = owner /\ Proper(m)
      BY <3>2, Kinds DEF Types, TypeOK, Talk, All
    <3> QED BY <3>2, <3>3 DEF Proper
  <2>2. CASE \E c \in Client : ClientStep(c)
    BY <2>2, ClientTypes DEF gateVars
  <2>3. CASE (\E i \in timers : SaveTimer(i)) \/ SaverStep
    BY <2>3, SavingTypes DEF Kept, gateVars
  <2>4. CASE Crash \/ Restart \/ NascentKeeps \/ Rewrite \/ Quiet
    BY <2>4 DEF Crash, Restart, NascentKeeps, Keep, Rewrite, Quiet, vars, gateVars
  <2>5. CASE Opened
    BY <2>5 DEF Opened, Talk, Owned
  <2> QED BY <2>1, <2>2, <2>3, <2>4, <2>5 DEF Next
<1> QED BY <1>1, Conversation, PTL DEF Spec, OwnerHoldsCommits

-----------------------------------------------------------------------------
(* The file is kept.                                                       *)

LEMMA InitStored == Init => Stored
<1> SUFFICES ASSUME Init PROVE Stored
  OBVIOUS
<1>1. /\ Image(db).ver = 0 /\ Image(file) = Image(db) /\ saver.last = Image(db)
      /\ saver.job = NoJob /\ NoJob.how = "none" /\ Len(toSaver) = 0 /\ db.ver = 0
      /\ toSaver = <<>> /\ mode = "open" /\ file.torn = "no" /\ history = {Image(db)}
      /\ file.rest = {} /\ missed = AllRead
      /\ Agrees(file, saver.last)
  BY DEF Init, Image, NoJob, Agrees
<1>2. Committed
  BY <1>1 DEF Committed
<1>3. InOrder
  BY <1>1 DEF InOrder, Newest
<1>4. Phases /\ Whole /\ FileAddsUp
  BY <1>1 DEF Phases, Whole, FileAddsUp
<1> QED BY <1>2, <1>3, <1>4 DEF Stored

(* Where versions are.                                                     *)
LEMMA Versions ==
  ASSUME Types
  PROVE  /\ made \in Nat
         /\ \A h \in history : h \in Version /\ h.ver \in 0..made
         /\ saver.last \in Version
         /\ saver.job # NoJob => saver.job.db \in Version
         /\ \A i \in 1..Len(toSaver) : toSaver[i].db \in Version
         /\ Image(db).ver = db.ver /\ db.ver \in 0..made
<1>1. made \in Nat /\ \A h \in history : h \in Version /\ h.ver \in 0..made
  BY DEF Types, Version
<1>2. saver.last \in Version /\ (saver.job # NoJob => saver.job.db \in Version)
  BY SaverTypes
<1>3. \A i \in 1..Len(toSaver) : toSaver[i].db \in Version
  <2> DEFINE T == [kind : {"full-save", "save-log"}, db : Version]
  <2>1. toSaver \in Seq(T) /\ \A m \in T : m.db \in Version
    BY DEF Types
  <2> HIDE DEF T
  <2> QED BY <2>1
<1>4. Image(db).ver = db.ver /\ db.ver \in 0..made
  BY DEF Image, Types, TypeOK
<1> QED BY <1>1, <1>2, <1>3, <1>4

(* Nothing happens to what is stored and on its way.                       *)
LEMMA StoredSame ==
  ASSUME Stored, UNCHANGED <<db, toSaver, saver, file, missed, crashes, history>>,
         mode' = mode \/ (mode = "down" /\ mode' = "nascent")
  PROVE  Stored'
<1>1. Committed' /\ Whole' /\ FileAddsUp'
  BY DEF Stored, Committed, Whole, FileAddsUp, Agrees, Image
<1>2. InOrder'
  BY DEF Stored, InOrder, Newest
<1>3. Phases'
  BY DEF Stored, Phases
<1> QED BY <1>1, <1>2, <1>3 DEF Stored

(* The database is replaced by one as old, or newer than all.              *)
LEMMA StoredDatabase ==
  ASSUME Types, Types', Stored, UNCHANGED <<mode, toSaver, saver, file, missed, crashes>>,
         made <= made',
         \/ Image(db') = Image(db) /\ history' = history
         \/ history' = history \cup {Image(db')} /\ Image(db').ver = made + 1
  PROVE  Stored'
<1>1. /\ made \in Nat /\ \A h \in history : h \in Version /\ h.ver \in 0..made
      /\ saver.last \in Version
      /\ saver.job # NoJob => saver.job.db \in Version
      /\ \A i \in 1..Len(toSaver) : toSaver[i].db \in Version
      /\ Image(db).ver = db.ver /\ Image(db').ver = db'.ver /\ db.ver \in 0..made
  BY Versions DEF Image
<1>2. Committed'
  <2>1. Image(db)' = Image(db')
    BY DEF Image
  <2>2. history \subseteq history' /\ Image(db') \in history'
    BY DEF Stored, Committed
  <2>3. \A g, h \in history' : g.ver = h.ver => g = h
    <3>1. CASE history' = history
      BY <3>1 DEF Stored, Committed
    <3>2. CASE history' = history \cup {Image(db')} /\ Image(db').ver = made + 1
      <4>1. \A h \in history : h.ver # made + 1
        BY <1>1
      <4> QED BY <3>2, <4>1 DEF Stored, Committed
    <3> QED BY <3>1, <3>2
  <2> QED BY <2>1, <2>2, <2>3 DEF Stored, Committed
<1>3. InOrder'
  <2>1. db.ver <= db'.ver
    BY <1>1
  <2>2. Newest' = Newest /\ Newest \in Nat
    BY <1>1 DEF Newest, Version
  <2>3. \A i \in 1..Len(toSaver) : toSaver[i].db.ver \in Nat
    BY <1>1 DEF Version
  <2>4. db'.ver \in Nat
    BY DEF Types, TypeOK
  <2> QED BY <1>1, <2>1, <2>2, <2>3, <2>4 DEF Stored, InOrder
<1>4. Phases' /\ Whole' /\ FileAddsUp'
  BY DEF Stored, Phases, Whole, FileAddsUp, Agrees
<1> QED BY <1>2, <1>3, <1>4 DEF Stored

(* The database is sent to the saver.                                      *)
LEMMA StoredSends ==
  ASSUME Types, Stored, NEW k \in {"full-save", "save-log"}, mode = "open",
         toSaver' = Append(toSaver, [kind |-> k, db |-> Image(db)]),
         Image(db)' = Image(db), UNCHANGED <<mode, saver, file, missed, crashes, history>>
  PROVE  Stored'
<1> DEFINE m == [kind |-> k, db |-> Image(db)]  n == Len(toSaver)
<1>1. /\ n \in Nat /\ Len(toSaver') = n + 1 /\ toSaver'[n + 1] = m
      /\ \A i \in 1..n : toSaver'[i] = toSaver[i]
      /\ \A i \in 1..Len(toSaver') : i \in 1..n \/ i = n + 1
  BY DEF Types
<1>2. /\ db.ver \in Nat /\ db'.ver = db.ver /\ Newest' = Newest
      /\ m.db = Image(db) /\ m.db.ver = db.ver
  BY DEF Types, TypeOK, Image, Newest
<1> HIDE DEF m, n
<1>3. Committed'
  BY <1>1, <1>2 DEF Stored, Committed
<1>4. InOrder'
  <2> SUFFICES ASSUME mode' = "open"
               PROVE  /\ Newest <= db.ver
                      /\ \A i \in 1..Len(toSaver') : Newest <= toSaver'[i].db.ver
                                                     /\ toSaver'[i].db.ver <= db.ver
                      /\ \A i, j \in 1..Len(toSaver') :
                           i <= j => toSaver'[i].db.ver <= toSaver'[j].db.ver
    BY <1>2 DEF InOrder
  <2>1. /\ Newest <= db.ver
        /\ \A i \in 1..n : Newest <= toSaver[i].db.ver /\ toSaver[i].db.ver <= db.ver
        /\ \A i, j \in 1..n : i <= j => toSaver[i].db.ver <= toSaver[j].db.ver
    BY DEF Stored, InOrder, n
  <2> QED BY <1>1, <1>2, <2>1
<1>5. Phases' /\ Whole' /\ FileAddsUp'
  BY DEF Stored, Phases, Whole, FileAddsUp, Agrees
<1> QED BY <1>3, <1>4, <1>5 DEF Stored

(* The saver takes the next message.                                       *)
LEMMA TakeStored ==
  ASSUME Types, Stored, Ordered, NEW i \in DOMAIN toSaver, SaverTake(i)
  PROVE  Stored'
<1> DEFINE n == Len(toSaver)
<1> PICK m : m = toSaver[1]
  OBVIOUS
<1>1. /\ toSaver # <<>> /\ n \in Nat \ {0} /\ toSaver' = Tail(toSaver)
      /\ Len(toSaver') = n - 1 /\ \A j \in 1..n - 1 : toSaver'[j] = toSaver[j + 1]
      /\ mode = "open" /\ saver.job = NoJob /\ i = 1
      /\ UNCHANGED <<mode, db, made, history, missed, crashes>>
  <2> DEFINE T == [kind : {"full-save", "save-log"}, db : Version]
  <2>1. /\ toSaver' = RemoveAt(toSaver, i) /\ i = 1 /\ mode = "open" /\ saver.job = NoJob
        /\ UNCHANGED <<mode, db, made, history, missed, crashes>>
    BY DEF SaverTake, gateVars
  <2>2. toSaver \in Seq(T)
    BY DEF Types
  <2> HIDE DEF T
  <2>3. toSaver # <<>> /\ n \in Nat \ {0} /\ toSaver' = Tail(toSaver)
    BY <2>1, <2>2, Removal
  <2> QED BY <2>1, <2>2, <2>3, HeadTailProperties
<1>2. /\ \/ Writing("image", m.db)
         \/ Writing("delta", m.db)
         \/ /\ ~(saver.last.ver < m.db.ver) /\ saver' = [saver EXCEPT !.last = m.db]
            /\ file' = file
  <2>1. toSaver[i] = m
    BY <1>1
  <2> QED BY <2>1 DEF SaverTake
<1>3. /\ m.db \in Version /\ saver.last \in Version /\ m.db \in history /\ saver.last \in history
      /\ saver.last.ver <= m.db.ver
      /\ \A j \in 1..n : /\ m.db.ver <= toSaver[j].db.ver /\ toSaver[j].db.ver <= db.ver
                         /\ toSaver[j].db \in history
      /\ \A j, k \in 1..n : j <= k => toSaver[j].db.ver <= toSaver[k].db.ver
      /\ file.torn = "no" /\ Agrees(file, saver.last) /\ m.db.ver <= db.ver
      /\ Whole
  <2>1. 1 \in 1..n /\ \A j \in 1..n : 1 <= j
    BY <1>1
  <2>2. NoJob.how = "none"
    BY DEF NoJob
  <2> QED BY <1>1, <2>1, <2>2, Versions DEF Stored, Committed, InOrder, Newest, Phases, FileAddsUp
<1>4. \A j \in 1..n - 1 : j + 1 \in 1..n
  BY <1>1
<1>5. /\ \A j \in 1..Len(toSaver') : /\ m.db.ver <= toSaver'[j].db.ver
                                     /\ toSaver'[j].db.ver <= db.ver
                                     /\ toSaver'[j].db \in history
      /\ \A j, k \in 1..Len(toSaver') : j <= k => toSaver'[j].db.ver <= toSaver'[k].db.ver
  <2>1. \A j, k \in 1..n - 1 : j <= k => j + 1 <= k + 1
    BY <1>1
  <2> HIDE DEF n
  <2> QED BY <1>1, <1>3, <1>4, <2>1
<1>6. ASSUME Newest' = m.db.ver, saver'.last \in history,
             saver'.job # NoJob => saver'.job.db \in history,
             Agrees(file, saver.last)' \/ file'.torn = "image", file'.rest = file.rest
      PROVE  Committed' /\ InOrder' /\ Whole' /\ FileAddsUp'
  <2>1. Committed'
    BY <1>1, <1>5, <1>6 DEF Stored, Committed, Image
  <2>2. InOrder'
    BY <1>1, <1>3, <1>5, <1>6 DEF InOrder
  <2>3. Whole' /\ FileAddsUp'
    BY <1>1, <1>3, <1>6 DEF Whole, FileAddsUp
  <2> QED BY <2>1, <2>2, <2>3
<1>7. ASSUME NEW how \in {"image", "delta"}, Writing(how, m.db) PROVE Stored'
  <2>1. /\ saver'.last = saver.last /\ saver'.job = [how |-> how, db |-> m.db]
        /\ file'.ver = file.ver /\ file'.map = file.map /\ file'.torn = how /\ file'.rest = file.rest
    BY <1>3, <1>7, WritingTypes
  <2>2. saver'.job # NoJob /\ saver'.job.db = m.db /\ saver'.job.how = how
    BY <1>3, <2>1, SaverTypes
  <2>3. Agrees(file, saver.last)'
    BY <1>1, <1>3, <2>1 DEF Agrees
  <2>4. Committed' /\ InOrder' /\ Whole' /\ FileAddsUp'
    BY <1>3, <1>6, <2>1, <2>2, <2>3 DEF Newest
  <2>5. Phases'
    BY <1>1, <2>1, <2>2 DEF Phases
  <2> QED BY <2>4, <2>5 DEF Stored
(* What is not newer than the last is the last.                            *)
<1>8. ASSUME ~(saver.last.ver < m.db.ver), saver' = [saver EXCEPT !.last = m.db], file' = file
      PROVE  Stored'
  <2>1. m.db = saver.last
    <3>1. m.db.ver \in Nat /\ saver.last.ver \in Nat
      BY <1>3, Versions DEF Version
    <3>2. m.db.ver = saver.last.ver
      BY <1>3, <1>8, <3>1
    <3> QED BY <1>3, <3>2 DEF Stored, Committed
  <2>2. saver' = saver
    BY <1>8, <2>1, SaverTypes
  <2>3. Agrees(file, saver.last)'
    BY <1>1, <1>3, <1>8, <2>2 DEF Agrees
  <2>4. Committed' /\ InOrder' /\ Whole' /\ FileAddsUp'
    BY <1>1, <1>3, <1>6, <1>8, <2>1, <2>2, <2>3 DEF Newest
  <2>5. Phases'
    BY <1>1, <1>8, <2>2 DEF Stored, Phases
  <2> QED BY <2>4, <2>5 DEF Stored
<1> QED BY <1>2, <1>7, <1>8

(* A write fails, and is done in another way; or it ends.                  *)
LEMMA FailedStored == ASSUME Types, Stored, DeltaFails PROVE Stored'
<1> PICK d : d = saver.job.db
  OBVIOUS
<1>1. /\ saver.job # NoJob /\ saver.job.how = "delta" /\ Writing("image", d)
      /\ UNCHANGED <<mode, db, toSaver, made, history, missed, crashes>>
  BY DEF DeltaFails, gateVars
<1>2. d \in Version
  BY <1>1, SaverTypes
<1>3. /\ saver'.last = saver.last /\ saver'.job = [how |-> "image", db |-> d]
      /\ file'.torn = "image" /\ file'.rest = file.rest
  BY <1>1, <1>2, WritingTypes
<1>4. saver'.job # NoJob /\ saver'.job.db = d /\ saver'.job.how = "image"
  BY <1>2, <1>3, SaverTypes
<1>5. Committed' /\ Newest' = Newest
  BY <1>1, <1>3, <1>4 DEF Stored, Committed, Image, Newest
<1>6. InOrder'
  BY <1>1, <1>5 DEF Stored, InOrder
<1>7. Phases' /\ Whole' /\ FileAddsUp'
  BY <1>1, <1>3, <1>4 DEF Stored, Phases, Whole, FileAddsUp
<1> QED BY <1>5, <1>6, <1>7 DEF Stored

LEMMA WrittenStored == ASSUME Types, Stored, Written PROVE Stored'
<1> PICK d : d = saver.job.db
  OBVIOUS
<1>1. /\ saver.job # NoJob /\ mode = "open" /\ saver' = [last |-> d, job |-> NoJob]
      /\ WriteImage(d) \/ WriteDelta(d)
      /\ UNCHANGED <<mode, db, toSaver, made, history, crashes>>
  BY DEF Written, gateVars
<1>2. /\ d \in Version /\ d \in history /\ saver.job.how = file.torn
      /\ Whole /\ (saver.job.how = "delta" => Agrees(file, saver.last))
  BY <1>1, SaverTypes DEF Stored, Committed, Phases, FileAddsUp
<1>3. saver'.last = d /\ saver'.job = NoJob /\ NoJob.how = "none"
  BY <1>1 DEF NoJob
(* Base and differences add up, where both are read.                       *)
<1>4. /\ Agrees(file, saver.last)' /\ file'.torn = "no"
      /\ file'.rest = {} /\ (crashes = 0 => missed' = AllRead)
  <2>1. /\ missed' \in Missing /\ file'.torn = "no" /\ file'.rest = {}
        /\ \/ /\ file'.ver = d.ver /\ file'.map = d.map /\ missed' = AllRead
           \/ /\ saver.job.how = "delta" /\ file.rest = {} /\ file'.ver = d.ver
              /\ \A k \in Key : file'.map[k] = IF saver.last.map[k] # d.map[k]
                                                  THEN d.map[k] ELSE file.map[k]
              /\ missed'.keys = { k \in missed.keys : saver.last.map[k] = d.map[k] }
              /\ missed'.version = FALSE
           \/ /\ saver.job.how = "delta" /\ file.rest # {}
              /\ missed.keys \subseteq missed'.keys /\ missed'.version = TRUE
              /\ \A k \in Key \ missed'.keys :
                   saver.last.map[k] = d.map[k] /\ file'.map[k] = file.map[k]
    BY <1>1, <1>2, WrittenTypes
  <2>2. CASE file'.ver = d.ver /\ file'.map = d.map /\ missed' = AllRead
    BY <1>3, <2>1, <2>2 DEF Agrees
  <2>3. CASE /\ saver.job.how = "delta" /\ file.rest = {} /\ file'.ver = d.ver
             /\ \A k \in Key : file'.map[k] = IF saver.last.map[k] # d.map[k]
                                                 THEN d.map[k] ELSE file.map[k]
             /\ missed'.keys = { k \in missed.keys : saver.last.map[k] = d.map[k] }
             /\ missed'.version = FALSE
    <3>1. \A k \in Key \ missed'.keys : file'.map[k] = d.map[k]
      BY <1>2, <2>3 DEF Agrees
    <3>2. ASSUME crashes = 0 PROVE missed' = AllRead
      <4>1. missed.keys = {}
        BY <1>2, <3>2 DEF Whole, AllRead
      <4>2. missed'.keys = {}
        BY <2>3, <4>1
      <4> QED BY <2>1, <2>3, <4>2 DEF Missing, AllRead
    <3> QED BY <1>3, <2>1, <2>3, <3>1, <3>2 DEF Agrees
  <2>4. CASE /\ saver.job.how = "delta" /\ file.rest # {}
             /\ missed.keys \subseteq missed'.keys /\ missed'.version = TRUE
             /\ \A k \in Key \ missed'.keys :
                  saver.last.map[k] = d.map[k] /\ file'.map[k] = file.map[k]
    <3>1. \A k \in Key \ missed'.keys : file'.map[k] = d.map[k]
      BY <1>2, <2>4 DEF Agrees
    <3> QED BY <1>2, <1>3, <2>1, <2>4, <3>1 DEF Agrees, Whole
  <2> QED BY <2>1, <2>2, <2>3, <2>4
<1>5. Committed'
  BY <1>1, <1>2, <1>3 DEF Stored, Committed, Image
<1>6. Newest' = Newest
  BY <1>1, <1>3 DEF Newest
<1>7. InOrder'
  BY <1>1, <1>6 DEF Stored, InOrder
<1>8. Phases' /\ Whole' /\ FileAddsUp'
  BY <1>1, <1>3, <1>4 DEF Phases, Whole, FileAddsUp
<1> QED BY <1>5, <1>7, <1>8 DEF Stored

LEMMA GateStored ==
  ASSUME Types, Types', Stored, NEW c \in Client, GateHandles(c)
  PROVE  Stored'
<1> PICK m \in net :
      /\ m.to = "gate" /\ m.from = c
      /\ \/ GateReq(m) \/ GateReqExcl(m) \/ GateCommit(m) \/ OwnerCommit(m)
         \/ OwnerAbort(m) \/ OthersWait(m) \/ GateMaint(m)
  BY DEF GateHandles
<1>1. mode = "open" /\ UNCHANGED <<saver, file, missed, crashes>>
  BY DEF GateHandles, saverVars
<1>2. CASE \/ GateReq(m) \/ GateReqExcl(m) \/ OwnerAbort(m) \/ OthersWait(m)
           \/ GateCommit(m) /\ db' = db /\ history' = history
  <2>1. UNCHANGED <<mode, db, toSaver, history>>
    BY <1>2 DEF GateReq, GateReqExcl, OwnerAbort, OthersWait, GateCommit, Keep, gateVars
  <2> QED BY <1>1, <2>1, StoredSame
<1>3. CASE m.kind = "commit" /\ Install(m) /\ UNCHANGED <<mode, toSaver>>
  <2>1. /\ made <= made'
        /\ \/ db' = db /\ history' = history
           \/ history' = history \cup {Image(db')} /\ Image(db').ver = made + 1
    BY <1>3, Installs
  <2>2. db' = db => Image(db') = Image(db)
    OBVIOUS
  <2> QED BY <1>1, <1>3, <2>1, <2>2, StoredDatabase
<1>4. CASE GateCommit(m) \/ OwnerCommit(m)
  BY <1>2, <1>3, <1>4 DEF GateCommit, OwnerCommit
<1>5. CASE GateMaint(m)
  <2>1. /\ \/ db' = [db EXCEPT !.id = made + 1, !.layered = FALSE]
           \/ db' = db
        /\ toSaver' = Append(toSaver, [kind |-> "full-save", db |-> Image(db)])
        /\ UNCHANGED <<mode, history>>
    BY <1>5 DEF GateMaint
  <2>2. db \in Database
    BY Stays
  <2>3. db'.ver = db.ver /\ db'.map = db.map
    BY <2>1, <2>2 DEF Database
  <2>4. Image(db)' = Image(db)
    BY <2>3 DEF Image
  <2> QED BY <1>1, <2>1, <2>4, StoredSends
<1> QED BY <1>2, <1>4, <1>5

LEMMA TimerStored ==
  ASSUME Types, Stored, NEW i \in timers, SaveTimer(i) PROVE Stored'
<1>1. /\ mode = "open" /\ UNCHANGED <<mode, db, saver, file, missed, crashes, history>>
      /\ \/ toSaver' = Append(toSaver, [kind |-> "save-log", db |-> Image(db)])
         \/ toSaver' = toSaver
  BY DEF SaveTimer, gateVars, saverVars
<1>2. Image(db)' = Image(db)
  BY <1>1 DEF Image
<1> QED BY <1>1, <1>2, StoredSends, StoredSame

LEMMA CrashStored == ASSUME Types, Stored, Crash PROVE Stored'
<1>1. /\ mode' = "down" /\ toSaver' = <<>> /\ Len(toSaver') = 0 /\ crashes' = crashes + 1
      /\ UNCHANGED <<db, history>>
  BY DEF Crash
<1>2. saver'.last = saver.last /\ saver'.job = NoJob
  BY SaverTypes DEF Crash
<1>3. Committed'
  BY <1>1, <1>2 DEF Stored, Committed, Image
<1>4. crashes' # 0 /\ InOrder'
  BY <1>1 DEF InOrder, Types
<1>5. file'.torn \in {"no", "image"} /\ (file'.torn # "image" => Agrees(file, saver.last)')
  <2>1. CASE UNCHANGED <<file, missed>> /\ saver.job.how # "delta"
    <3>1. file.torn \in {"no", "image"}
      BY <2>1, SaverTypes DEF Stored, Phases, Types, TypeOK
    <3> QED BY <1>2, <2>1, <3>1 DEF Stored, FileAddsUp, Agrees
  <2>2. CASE saver.job.how = "delta" /\ CutShort(saver.job.db)
    <3>1. mode = "open" /\ file.torn = "delta" /\ saver.job.db \in Version
      <4>1. saver.job # NoJob
        BY <2>2, SaverTypes
      <4> QED BY <2>2, <4>1, SaverTypes DEF Stored, Phases, Types, TypeOK
    <3>2. Agrees(file, saver.last)
      BY <3>1 DEF Stored, FileAddsUp
    <3>3. /\ file'.torn = "no" /\ missed.keys \subseteq missed'.keys
          /\ \A k \in Key \ missed'.keys : file'.map[k] = file.map[k]
          /\ missed'.version \/ (~missed.version /\ file'.ver = file.ver)
      BY <2>2, <3>1, CutTypes
    <3> QED BY <1>2, <3>2, <3>3 DEF Agrees
  <2> QED BY <2>1, <2>2, CrashTypes
<1>6. Phases' /\ Whole' /\ FileAddsUp'
  BY <1>1, <1>2, <1>4, <1>5 DEF Phases, Whole, FileAddsUp
<1> QED BY <1>3, <1>4, <1>6 DEF Stored

LEMMA RewriteStored == ASSUME Types, Stored, Rewrite PROVE Stored'
<1>1. /\ mode = "nascent" /\ UNCHANGED <<mode, db, toSaver, crashes>> /\ file.torn = "image"
  BY DEF Rewrite, gateVars
<1>2. /\ UNCHANGED <<file, missed, history>> /\ saver'.last = saver.last
      /\ saver'.job # NoJob /\ saver'.job.how = "open"
  BY RewriteTypes
<1>3. Committed'
  BY <1>1, <1>2 DEF Stored, Committed, Image
<1>4. InOrder' /\ Whole' /\ FileAddsUp'
  BY <1>1, <1>2 DEF Stored, InOrder, Whole, FileAddsUp
<1>5. Phases'
  BY <1>1, <1>2 DEF Stored, Phases
<1> QED BY <1>3, <1>4, <1>5 DEF Stored

(* What a restart opens is what the file yields.                           *)
LEMMA OpenedStored ==
  ASSUME Types, Stored, Opened
  PROVE  Stored' /\ (file.torn # "image" => Agrees(db', saver.last))
<1>1. /\ mode = "nascent" /\ mode' = "open" /\ toSaver = <<>> /\ toSaver' = <<>> /\ Len(toSaver') = 0
      /\ missed' = AllRead /\ UNCHANGED crashes
  BY DEF Opened, Stored, Phases
<1>2. /\ Types' /\ db'.ver = file'.ver /\ db'.map = file'.map /\ Image(db') = Image(file')
      /\ saver'.last = Image(file') /\ saver'.job = NoJob /\ history' = {Image(file')}
      /\ file'.torn = "no"
      /\ \/ file' = file /\ file.torn = "no"
         \/ saver.job # NoJob /\ file'.rest = {}
  BY OpenedTypes
<1>3. ASSUME file.torn # "image" PROVE Agrees(db', saver.last)
  <2>1. file' = file
    BY <1>1, <1>2, <1>3 DEF Stored, Phases
  <2> QED BY <1>2, <1>3, <2>1 DEF Stored, FileAddsUp, Agrees
<1>4. Committed'
  BY <1>1, <1>2 DEF Committed, Image
<1>5. InOrder'
  <2>1. Newest' = db'.ver /\ db'.ver \in Nat
    BY <1>2 DEF Newest, Image, Types, TypeOK
  <2> QED BY <1>1, <2>1 DEF InOrder
<1>6. Phases' /\ Whole'
  BY <1>1, <1>2 DEF Stored, Phases, Whole, NoJob
<1>7. FileAddsUp'
  BY <1>1, <1>2 DEF FileAddsUp, Agrees, Image
<1> QED BY <1>3, <1>4, <1>5, <1>6, <1>7 DEF Stored

LEMMA NextStored ==
  ASSUME Types, Stored, Ordered, [Next]_vars PROVE Stored'
<1>0. Types'
  BY NextTypes
<1>1. CASE UNCHANGED vars \/ Quiet
  <2>1. UNCHANGED <<mode, db, toSaver, saver, file, missed, crashes, history>>
    BY <1>1 DEF vars, gateVars, saverVars, Quiet
  <2> QED BY <2>1, StoredSame
<1>2. CASE \E c \in Client : ClientStep(c)
  <2>1. UNCHANGED <<mode, db, toSaver, saver, file, missed, crashes, history>>
    BY <1>2, ClientTypes DEF gateVars, saverVars
  <2> QED BY <2>1, StoredSame
<1>3. CASE Restart \/ NascentKeeps
  BY <1>3, StoredSame DEF Restart, NascentKeeps, Keep, saverVars
<1> QED BY <1>0, <1>1, <1>2, <1>3, GateStored, TimerStored, TakeStored, FailedStored,
           WrittenStored, CrashStored, RewriteStored, OpenedStored DEF Next, GateStep, SaverStep

LEMMA Storing == Ordered => (Spec => [](Types /\ Stored))
<1> SUFFICES ASSUME Ordered PROVE Spec => [](Types /\ Stored)
  OBVIOUS
<1>1. Init => Types /\ Stored
  BY InitTypes, InitStored
<1>2. Types /\ Stored /\ [Next]_vars => Types' /\ Stored'
  BY NextTypes, NextStored
<1> QED BY <1>1, <1>2, PTL DEF Spec

(* If the messages of the gate reach the saver in order, base and deltas   *)
(* add up to what the saver saved last, also behind a delta cut short, but *)
(* for what a record sets that is passed over; and none is passed over     *)
(* before the first crash (kvdb.lisp:429-460, 638-662).                    *)
THEOREM FileIsLastSaved == Ordered => (Spec => []FileAddsUp)
<1> SUFFICES ASSUME Ordered PROVE Spec => []FileAddsUp
  OBVIOUS
<1>1. Spec => [](Types /\ Stored)
  BY Storing
<1>2. Types /\ Stored => FileAddsUp
  BY DEF Stored
<1> QED BY <1>1, <1>2, PTL

(* ... and what the file yields has been the database since the file was   *)
(* opened, unless a change is missing (kvdb.lisp:355-371, 429-460).        *)
THEOREM FileIsCommitted == Ordered => (Spec => []FileWasCommitted)
<1> SUFFICES ASSUME Ordered PROVE Spec => []FileWasCommitted
  OBVIOUS
<1>1. Spec => [](Types /\ Stored)
  BY Storing
<1>2. Types /\ Stored => FileWasCommitted
  <2> SUFFICES ASSUME Types, Stored, file.torn # "image", missed = AllRead
               PROVE  Image(file) \in history
    BY DEF FileWasCommitted
  <2>1. Agrees(file, saver.last) /\ missed.keys = {} /\ missed.version = FALSE
    BY DEF Stored, FileAddsUp, AllRead
  <2>2. file.ver = saver.last.ver /\ \A k \in Key : file.map[k] = saver.last.map[k]
    BY <2>1 DEF Agrees
  <2>3. file.map \in Map /\ saver.last \in Version
    BY FileTypes, SaverTypes
  <2>4. file.map = saver.last.map
    BY <2>2, <2>3 DEF Map, Version
  <2>5. Image(file) = saver.last
    BY <2>2, <2>3, <2>4 DEF Image, Version
  <2> QED BY <2>5 DEF Stored, Committed
<1> QED BY <1>1, <1>2, PTL

(* ... and a restart after a crash brings back what was saved last, but    *)
(* for the changes passed over, unless the crash hit an image being        *)
(* written (kvdb.lisp:567-613).                                            *)
THEOREM Reopening == Ordered => (Spec => ReopensLastSaved)
<1> SUFFICES ASSUME Ordered PROVE Spec => ReopensLastSaved
  OBVIOUS
<1>1. Spec => [](Types /\ Stored)
  BY Storing
<1>2. Types /\ Stored /\ [Next]_vars =>
        [mode = "nascent" /\ mode' = "open" /\ file.torn # "image"
           => Agrees(db', saver.last)]_vars
  <2> SUFFICES ASSUME Types, Stored, Next, mode = "nascent", mode' = "open", file.torn # "image"
               PROVE  Agrees(db', saver.last)
    BY DEF vars, gateVars
  <2>1. Opened
    <3>1. ~\E c \in Client : ClientStep(c)
      BY ClientTypes DEF gateVars
    <3>2. ~((\E i \in timers : SaveTimer(i)) \/ SaverStep)
      BY SavingTypes DEF Kept, gateVars
    <3> QED BY <3>1, <3>2 DEF Next, GateStep, GateHandles, Crash, Restart, NascentKeeps, Keep,
                              Rewrite, Quiet, vars, gateVars
  <2> QED BY <2>1, OpenedStored
<1> QED BY <1>1, <1>2, PTL DEF Spec, ReopensLastSaved

-----------------------------------------------------------------------------
(* Operations that happen one at a time.                                   *)

(* What a client knows that was told, and what becomes of one that has a   *)
(* message, or has none.                                                   *)
ResultOf(c) == IF Op[c].kind \in {"find", "find-or-add"} THEN val[c] ELSE "told"
SaidBy(c, m) ==
  IF m.kind = "aborted" THEN "aborted"
  ELSE IF m.kind = "committed" THEN ResultOf(c)
  ELSE IF Op[c].kind = "find" THEN m.db.map[Op[c].key] ELSE "pending"
SaidBefore(c) ==
  IF pc[c] = "gave up" THEN "aborted"
  ELSE IF pc[c] = "done" /\ Op[c].kind # "maint" THEN ResultOf(c) ELSE "pending"

HappenedIs(c) ==
  /\ \A m \in net : m.to = c => Happened(c) = SaidBy(c, m)
  /\ (\A m \in net : m.to # c) => Happened(c) = SaidBefore(c)
Happenings == \A c \in Client : HappenedIs(c)

LEMMA Happens == Types /\ Talk => Happenings
<1> SUFFICES ASSUME Types, Talk, NEW c \in Client PROVE HappenedIs(c)
  BY DEF Happenings
<1>0. TellTo(c, "aborted").to = c /\ TellTo(c, "aborted").kind = "aborted"
      /\ TellTo(c, "committed").to = c /\ TellTo(c, "committed").kind = "committed"
  BY Forms
<1>1. ASSUME NEW m \in net, m.to = c PROVE Happened(c) = SaidBy(c, m)
  <2>1. /\ m \in Messages /\ Party(m) = c /\ Proper(m)
        /\ m.kind \in {"db", "committed", "aborted"}
        /\ m.kind \in {"committed", "aborted"} => m = TellTo(c, m.kind)
    BY <1>1, Kinds, OperationAssumption DEF Types, TypeOK, Talk, All
  <2>2. \A n \in net : n.to = c => n = m
    <3>1. \A n \in net : n.to = c => Party(n) = c
      BY Kinds, OperationAssumption DEF Types, TypeOK
    <3> QED BY <1>1, <2>1, <3>1 DEF Talk, Once, All
  <2>3. /\ TellTo(c, "aborted") \in net <=> m.kind = "aborted"
        /\ TellTo(c, "committed") \in net <=> m.kind = "committed"
    BY <1>0, <1>1, <2>1, <2>2
  <2>4. (CHOOSE n \in net : n.to = c) = m
    BY <1>1, <2>2
  <2>5. pc[c] \in {"reading", "reading again", "committing"}
    BY <2>1 DEF Proper
  <2>6. CASE m.kind = "aborted"
    <3>1. Op[c].kind # "find"
      BY <2>1, <2>6 DEF Proper, IsSession
    <3> QED BY <2>3, <2>5, <2>6, <3>1 DEF Happened, SaidBy
  <2>7. CASE m.kind = "committed"
    <3>1. Op[c].kind # "find" /\ Op[c].kind # "maint"
      BY <2>1, <2>7 DEF Proper
    <3> QED BY <2>3, <2>5, <2>7, <3>1 DEF Happened, SaidBy, ResultOf
  <2>8. CASE m.kind = "db"
    <3>1. Op[c].kind # "maint"
      BY <2>1, <2>8 DEF Proper
    <3>2. CASE Op[c].kind = "find"
      BY <1>1, <2>3, <2>4, <2>5, <2>8, <3>2 DEF Happened, SaidBy
    <3>3. CASE Op[c].kind # "find"
      BY <2>3, <2>5, <2>8, <3>3 DEF Happened, SaidBy
    <3> QED BY <3>2, <3>3
  <2> QED BY <2>1, <2>6, <2>7, <2>8
<1>2. ASSUME \A m \in net : m.to # c PROVE Happened(c) = SaidBefore(c)
  <2>1. TellTo(c, "aborted") \notin net /\ TellTo(c, "committed") \notin net
    BY <1>0, <1>2
  <2> QED BY <1>2, <2>1 DEF Happened, SaidBefore, ResultOf
<1> QED BY <1>1, <1>2 DEF HappenedIs

LEMMA HappensNext == Types' /\ Talk' => Happenings'
BY Happens, PTL

(* Nothing happens to a client that is told nothing.                       *)
LEMMA NothingHappens ==
  ASSUME Types, Talk, Types', Talk', NEW c \in Client,
         pc'[c] = pc[c], val'[c] = val[c],
         \A m : m.to = c => (m \in net' <=> m \in net)
  PROVE  Happened(c)' = Happened(c)
<1>1. HappenedIs(c) /\ HappenedIs(c)'
  BY Happens, HappensNext DEF Happenings
<1>2. CASE \A m \in net : m.to # c
  <2>1. SaidBefore(c)' = SaidBefore(c)
    BY DEF SaidBefore, ResultOf
  <2> QED BY <1>1, <1>2, <2>1 DEF HappenedIs
<1>3. CASE \E m \in net : m.to = c
  <2> PICK m \in net : m.to = c
    BY <1>3
  <2>1. SaidBy(c, m)' = SaidBy(c, m) /\ m \in net'
    BY DEF SaidBy, ResultOf
  <2> QED BY <1>1, <2>1 DEF HappenedIs
<1> QED BY <1>2, <1>3

Outcomes == [c \in Client |-> Happened(c)]

(* What a client does does not matter to anyone.                           *)
LEMMA ClientStutters ==
  ASSUME Types, Talk, Types', Talk', NEW c \in Client, ClientStep(c)
  PROVE  UNCHANGED <<db, Outcomes>>
<1>0. /\ UNCHANGED db /\ pc \in [Client -> Stage] /\ val \in [Client -> Val \cup {None}]
      /\ HappenedIs(c) /\ HappenedIs(c)'
  BY ClientTypes, Happens, HappensNext DEF gateVars, Types, TypeOK, Happenings
<1>1. ASSUME \A d \in Client : d # c => Happened(d)' = Happened(d), Happened(c)' = Happened(c)
      PROVE  UNCHANGED <<db, Outcomes>>
  BY <1>0, <1>1 DEF Outcomes
<1>2. CASE Start(c)
  <2> PICK k : net' = net \cup {ToGate(k, c)}
    BY <1>2 DEF Start
  <2>1. /\ pc[c] = "start" /\ val' = val
        /\ pc' = [pc EXCEPT ![c] = IF Op[c].kind = "maint" THEN "done" ELSE "reading"]
    BY <1>2 DEF Start
  <2>2. ToGate(k, c).to = "gate"
    BY Forms
  <2>3. \A d \in Client : d # "gate" /\ \A m : m.to = d => (m \in net' <=> m \in net)
    BY <2>2, OperationAssumption
  <2>4. \A d \in Client : d # c => Happened(d)' = Happened(d)
    BY <1>0, <2>1, <2>3, NothingHappens
  <2>5. \A m \in net : m.to # c
    BY <2>1, Kinds, OperationAssumption DEF Talk, Once, All, Types, TypeOK
  <2>6. \A m \in net' : m.to # c
    BY <2>3, <2>5
  <2>7. SaidBefore(c) = "pending" /\ SaidBefore(c)' = "pending"
    BY <1>0, <2>1 DEF SaidBefore
  <2> QED BY <1>0, <1>1, <2>4, <2>5, <2>6, <2>7 DEF HappenedIs
<1>3. CASE \E m \in net : m.to = c /\ \/ Find(c, m) \/ Change(c, m) \/ RemoveNothing(c, m)
                                      \/ Session(c, m) \/ Told(c, m)
  <2> PICK m \in net : m.to = c /\ \/ Find(c, m) \/ Change(c, m) \/ RemoveNothing(c, m)
                                   \/ Session(c, m) \/ Told(c, m)
    BY <1>3
  <2>1. PICK next, R :
          /\ net' = (net \ {m}) \cup R /\ pc' = [pc EXCEPT ![c] = next]
          /\ \A r \in R : r.to = "gate"
          /\ \A d \in Client : d # c => val'[d] = val[d]
    <3>1. \A k, patch : ToGate(k, c).to = "gate" /\ CommitOf(c, m.db, patch).to = "gate"
      BY Forms
    <3>2. \E next, R : Receive(c, m, next, R) /\ \A r \in R : r.to = "gate"
      <4>1. ASSUME NEW next, Receive(c, m, next, {})
            PROVE  \E n, R : Receive(c, m, n, R) /\ \A r \in R : r.to = "gate"
        BY <4>1
      <4>2. ASSUME NEW next, NEW r, r.to = "gate", Receive(c, m, next, {r})
            PROVE  \E n, R : Receive(c, m, n, R) /\ \A q \in R : q.to = "gate"
        <5> PICK R : R = {r}
          OBVIOUS
        <5>1. Receive(c, m, next, R) /\ \A q \in R : q.to = "gate"
          BY <4>2
        <5> QED BY <5>1
      <4>3. CASE Find(c, m) \/ RemoveNothing(c, m)
        BY <4>1, <4>3 DEF Find, RemoveNothing
      <4>4. CASE Told(c, m)
        BY <4>1, <4>4 DEF Told
      <4>5. CASE Change(c, m)
        <5> PICK r : r = CommitOf(c, m.db, PatchOf(c, m.db.map))
          OBVIOUS
        <5>1. Receive(c, m, "committing", {r}) /\ r.to = "gate"
          BY <3>1, <4>5 DEF Change
        <5> QED BY <4>2, <5>1
      <4>6. CASE Session(c, m)
        <5>1. PICK next, r : /\ Receive(c, m, next, {r})
                             /\ r.to = "gate"
          BY <3>1, <4>6 DEF Session
        <5> QED BY <4>2, <5>1
      <4> QED BY <4>3, <4>4, <4>5, <4>6
    <3>3. \A d \in Client : d # c => val'[d] = val[d]
      BY <1>0 DEF Find, Change, RemoveNothing, Session, Told
    <3> QED BY <3>2, <3>3 DEF Receive
  <2>2. \A d \in Client : d # "gate" /\ (d # c => \A n : n.to = d => (n \in net' <=> n \in net))
    BY <2>1, OperationAssumption
  <2>3. \A d \in Client : d # c => Happened(d)' = Happened(d)
    BY <1>0, <2>1, <2>2, NothingHappens
  <2>4. \A n \in net' : n.to # c
    <3>1. \A n \in net : n.to = c => n = m
      <4>1. \A n \in net : n.to = c => Party(n) = c
        BY Kinds, OperationAssumption DEF Types, TypeOK
      <4> QED BY <4>1 DEF Talk, Once, All
    <3> QED BY <2>1, <2>2, <3>1
  <2>5. Happened(c) = SaidBy(c, m) /\ Happened(c)' = SaidBefore(c)'
    BY <1>0, <2>4 DEF HappenedIs
  <2>6. Party(m) = c /\ Proper(m)
    BY Kinds, OperationAssumption DEF Types, TypeOK, Talk, All
  <2>7. SaidBy(c, m) = SaidBefore(c)'
    <3>1. CASE Find(c, m)
      <4>1. /\ m.kind = "db" /\ Op[c].kind = "find" /\ pc'[c] = "done"
            /\ val'[c] = m.db.map[Op[c].key]
        BY <1>0, <3>1 DEF Find, Receive
      <4> QED BY <4>1 DEF SaidBy, SaidBefore, ResultOf
    <3>2. CASE Change(c, m) \/ RemoveNothing(c, m) \/ Session(c, m)
      <4>1. /\ m.kind = "db" /\ Op[c].kind # "find"
            /\ pc'[c] \in {"committing", "silent", "reading again"}
        BY <1>0, <3>2 DEF Change, RemoveNothing, Session, Receive, IsSession
      <4> QED BY <4>1 DEF SaidBy, SaidBefore
    <3>3. CASE Told(c, m)
      <4>1. /\ m.kind \in {"committed", "aborted"} /\ val' = val
            /\ pc'[c] = IF m.kind = "aborted" THEN "gave up" ELSE "done"
        BY <1>0, <3>3 DEF Told, Receive
      <4>2. Op[c].kind # "maint"
        BY <2>6, <4>1 DEF Proper
      <4> QED BY <4>1, <4>2 DEF SaidBy, SaidBefore, ResultOf
    <3> QED BY <3>1, <3>2, <3>3
  <2> QED BY <1>1, <2>3, <2>5, <2>7
<1> QED BY <1>2, <1>3 DEF ClientStep

(* The gate answers: an operation happens, is given up, or nothing does.   *)
Result(c, result) == Outcomes' = [Outcomes EXCEPT ![c] = result]

LEMMA Stepping ==
  ASSUME NEW c \in Client, Happened(c) = "pending"
  PROVE  /\ Result(c, OutcomeOf(c, db.map)) /\ db'.map = EffectOf(c, db.map) => Abstract!Next
         /\ Result(c, "aborted") /\ db'.map = db.map => Abstract!Next
         /\ Result(c, "pending") => Outcomes' = Outcomes
<1>1. Outcomes[c] = "pending"
  BY DEF Outcomes
<1>2. Result(c, OutcomeOf(c, db.map)) /\ db'.map = EffectOf(c, db.map) => Abstract!Happen(c)
  BY <1>1 DEF Abstract!Happen, Result, Outcomes
<1>3. Result(c, "aborted") /\ db'.map = db.map => Abstract!GiveUp(c)
  BY <1>1 DEF Abstract!GiveUp, Result, Outcomes
<1>4. Result(c, "pending") => Outcomes' = Outcomes
  BY <1>1 DEF Result, Outcomes
<1> QED BY <1>2, <1>3, <1>4 DEF Abstract!Next

(* What is the same does not change the table.                             *)
LEMMA SameApplies ==
  ASSUME NEW map \in Map, NEW patch, Same(map, patch)
  PROVE  Apply(map, patch) = map
BY DEF Same, Apply, Map

LEMMA GateHappens ==
  ASSUME Types, Talk, Types', Talk', NEW c \in Client, GateHandles(c)
  PROVE  Abstract!Next \/ UNCHANGED <<db.map, Outcomes>>
<1> PICK m \in net :
      /\ m.to = "gate" /\ m.from = c
      /\ \/ GateReq(m) \/ GateReqExcl(m) \/ GateCommit(m) \/ OwnerCommit(m)
         \/ OwnerAbort(m) \/ OthersWait(m) \/ GateMaint(m)
  BY DEF GateHandles
<1>0. /\ pc' = pc /\ val' = val /\ m \in All /\ db.map \in Map
      /\ \A n \in ToSet(stash) : n.to = "gate"
      /\ \A d \in Client : d # "gate" /\ HappenedIs(d) /\ HappenedIs(d)'
  BY Happens, HappensNext, OperationAssumption
     DEF GateHandles, clientVars, Happenings, Talk, Once, All, Types, TypeOK
<1>1. Party(m) = c /\ Proper(m) /\ Held(m) /\ Copied(m) /\ m \in Messages
  BY Kinds, OperationAssumption DEF Types, TypeOK, Talk, All
<1>2. \A n \in net : n.to # c
  <2>1. \A n \in net : n.to = c => Party(n) = c
    BY Kinds, OperationAssumption DEF Types, TypeOK
  <2> QED BY <1>0, <1>1, <2>1 DEF Talk, Once, All
<1>3. Happened(c) = "pending"
  <2>1. SaidBefore(c) = "pending"
    BY <1>1 DEF Proper, SaidBefore
  <2> QED BY <1>0, <1>2, <2>1 DEF HappenedIs
(* The gate answers with r.                                                *)
<1>4. ASSUME NEW r, r.to = c,
             \/ net' = (net \ {m}) \cup {r}
             \/ net' = (net \ {m}) \cup ({r} \cup ToSet(stash))
      PROVE  Result(c, SaidBy(c, r))
  <2>1. \A d \in Client : d # c => \A n : n.to = d => (n \in net' <=> n \in net)
    BY <1>0, <1>4
  <2>2. \A d \in Client : d # c => Happened(d)' = Happened(d)
    BY <1>0, <2>1, NothingHappens
  <2>3. Happened(c)' = SaidBy(c, r)'
    <3>1. r \in net'
      BY <1>4
    <3> QED BY <1>0, <1>4, <3>1 DEF HappenedIs
  <2>4. SaidBy(c, r)' = SaidBy(c, r)
    BY <1>0 DEF SaidBy, ResultOf
  <2> QED BY <2>2, <2>3, <2>4 DEF Result, Outcomes
(* The gate gives no answer.                                               *)
<1>5. ASSUME Handle(m, {}) PROVE Outcomes' = Outcomes
  <2>1. \A d \in Client : \A n : n.to = d => (n \in net' <=> n \in net)
    BY <1>0, <1>5 DEF Handle
  <2>2. \A d \in Client : Happened(d)' = Happened(d)
    BY <1>0, <2>1, NothingHappens
  <2> QED BY <2>2 DEF Outcomes
<1>6. /\ DbTo(c, db).to = c /\ DbTo(c, db).kind = "db" /\ DbTo(c, db).db = db
      /\ \A k : TellTo(c, k).to = c /\ TellTo(c, k).kind = k
  BY Forms
(* A copy of the database: only :FIND has its answer.                      *)
<1>7. ASSUME Handle(m, {DbTo(c, db)}), db' = db
      PROVE  Abstract!Next \/ UNCHANGED <<db.map, Outcomes>>
  <2>1. Result(c, SaidBy(c, DbTo(c, db)))
    BY <1>4, <1>6, <1>7 DEF Handle
  <2>2. CASE Op[c].kind = "find"
    <3>1. SaidBy(c, DbTo(c, db)) = OutcomeOf(c, db.map) /\ EffectOf(c, db.map) = db.map
      BY <1>6, <2>2 DEF SaidBy, OutcomeOf, EffectOf
    <3> QED BY <1>3, <1>7, <2>1, <3>1, Stepping
  <2>3. CASE Op[c].kind # "find"
    <3>1. SaidBy(c, DbTo(c, db)) = "pending"
      BY <1>6, <2>3 DEF SaidBy
    <3> QED BY <1>3, <1>7, <2>1, <3>1, Stepping
  <2> QED BY <2>2, <2>3
(* A commit of the present database.                                       *)
<1>8. ASSUME m.kind = "commit", m.old = db.id, Install(m),
             \/ Handle(m, {TellTo(c, "committed")})
             \/ Handle(m, {TellTo(c, "committed")} \cup ToSet(stash))
      PROVE  Abstract!Next
  <2> DEFINE patch == PatchOf(c, db.map)
  <2>1. Result(c, SaidBy(c, TellTo(c, "committed")))
    BY <1>4, <1>6, <1>8 DEF Handle
  <2>2. /\ Op[c].kind # "find" /\ Op[c].kind # "maint"
        /\ m.map = Apply(db.map, patch) /\ m.same = Same(db.map, patch)
        /\ Op[c].kind = "find-or-add" => val[c] = Apply(db.map, patch)[Op[c].key]
    BY <1>1, <1>8 DEF Proper, Copied
  <2>3. SaidBy(c, TellTo(c, "committed")) = OutcomeOf(c, db.map)
    BY <1>6, <2>2 DEF SaidBy, ResultOf, OutcomeOf
  <2>4. EffectOf(c, db.map) = Apply(db.map, patch)
    BY <2>2 DEF EffectOf
  <2> HIDE DEF patch
  <2>5. db'.map = Apply(db.map, patch)
    <3>1. CASE m.same
      BY <1>0, <1>8, <2>2, <3>1, SameApplies, Installs
    <3>2. CASE ~m.same
      BY <1>8, <2>2, <3>2, Installs
    <3> QED BY <3>1, <3>2
  <2> QED BY <1>3, <2>1, <2>3, <2>4, <2>5, Stepping
<1>9. CASE GateReq(m)
  BY <1>7, <1>9 DEF GateReq, gateVars
<1>10. CASE GateReqExcl(m)
  <2>1. db' = db /\ (Handle(m, {DbTo(c, db)}) \/ Handle(m, {}))
    BY <1>10 DEF GateReqExcl, Keep
  <2> QED BY <1>5, <1>7, <2>1
<1>11. CASE GateCommit(m)
  <2>1. \/ m.kind = "commit" /\ m.old = db.id /\ Install(m) /\ Handle(m, {TellTo(c, "committed")})
        \/ Handle(m, {DbTo(c, db)}) /\ db' = db
    BY <1>11 DEF GateCommit
  <2> QED BY <1>7, <1>8, <2>1
<1>12. CASE OwnerCommit(m)
  <2>1. /\ m.kind = "commit" /\ m.old = db.id /\ Install(m)
        /\ Handle(m, {TellTo(c, "committed")} \cup ToSet(stash))
    BY <1>12 DEF OwnerCommit, Unstash
  <2> QED BY <1>8, <2>1
<1>13. CASE OwnerAbort(m)
  <2>1. db' = db /\ Handle(m, {TellTo(c, "aborted")} \cup ToSet(stash))
    BY <1>13 DEF OwnerAbort, Unstash
  <2>2. Result(c, SaidBy(c, TellTo(c, "aborted")))
    BY <1>4, <1>6, <2>1 DEF Handle
  <2>3. SaidBy(c, TellTo(c, "aborted")) = "aborted"
    BY <1>6 DEF SaidBy
  <2> QED BY <1>3, <2>1, <2>2, <2>3, Stepping
<1>14. CASE OthersWait(m)
  <2>1. db' = db /\ Handle(m, {})
    BY <1>14 DEF OthersWait, Keep
  <2> QED BY <1>5, <2>1
<1>15. CASE GateMaint(m)
  <2>1. Handle(m, {}) /\ db'.map = db.map
    <3>1. db \in Database
      BY DEF Types, TypeOK, Database
    <3>2. /\ Handle(m, {})
          /\ db' = [db EXCEPT !.id = made + 1, !.layered = FALSE] \/ db' = db
      BY <1>15 DEF GateMaint
    <3> QED BY <3>1, <3>2 DEF Database
  <2> QED BY <1>5, <2>1
<1> QED BY <1>9, <1>10, <1>11, <1>12, <1>13, <1>14, <1>15

(* Without a crash the gate is open.                                       *)
Up == mode = "open" /\ crashes = 0

LEMMA StaysUp == ASSUME MaxCrashes = 0, Types, Up, [Next]_vars PROVE Up'
<1>1. CASE \E c \in Client : ClientStep(c)
  BY <1>1, ClientTypes DEF Up, gateVars
<1>2. CASE (\E i \in timers : SaveTimer(i)) \/ SaverStep
  BY <1>2, SavingTypes DEF Up, Kept, gateVars
<1>3. CASE GateStep
  BY <1>3 DEF Up, GateStep, GateHandles, GateReq, GateReqExcl, GateCommit, OwnerCommit,
              OwnerAbort, OthersWait, GateMaint, Keep, gateVars
<1>4. CASE UNCHANGED vars \/ Quiet
  BY <1>4 DEF Up, Quiet, vars, gateVars
<1>5. ~(Crash \/ Restart \/ NascentKeeps \/ Rewrite \/ Opened)
  BY DEF Up, Crash, Restart, NascentKeeps, Rewrite, Opened
<1> QED BY <1>1, <1>2, <1>3, <1>4, <1>5 DEF Next

LEMMA NextHappens ==
  ASSUME MaxCrashes = 0, Types, Talk, Up, [Next]_vars
  PROVE  Abstract!Next \/ UNCHANGED <<db.map, Outcomes>>
<1>0. Types' /\ Talk'
  BY NextTypes, NextTalks
<1>1. ASSUME UNCHANGED <<db, net, clientVars>> PROVE UNCHANGED <<db.map, Outcomes>>
  <2>1. pc' = pc /\ val' = val
    BY <1>1 DEF clientVars
  <2>2. \A c \in Client : Happened(c)' = Happened(c)
    BY <1>0, <1>1, <2>1, NothingHappens
  <2> QED BY <1>1, <2>2 DEF Outcomes
<1>2. CASE \E c \in Client : ClientStep(c)
  BY <1>0, <1>2, ClientStutters
<1>3. CASE (\E i \in timers : SaveTimer(i)) \/ SaverStep
  BY <1>1, <1>3, SavingTypes DEF Kept, gateVars
<1>4. CASE GateStep
  BY <1>0, <1>4, GateHappens DEF GateStep
<1>5. CASE UNCHANGED vars \/ Quiet
  BY <1>1, <1>5 DEF Quiet, vars, gateVars
<1>6. ~(Crash \/ Restart \/ NascentKeeps \/ Rewrite \/ Opened)
  BY DEF Up, Crash, Restart, NascentKeeps, Rewrite, Opened
<1> QED BY <1>2, <1>3, <1>4, <1>5, <1>6 DEF Next

LEMMA InitHappens == Init => Abstract!Init /\ Up
<1> SUFFICES ASSUME Init PROVE Abstract!Init /\ Up
  OBVIOUS
<1>1. db.map = EmptyMap /\ net = {} /\ pc = [c \in Client |-> "start"] /\ Up
  BY DEF Init, Up
<1>2. \A c \in Client : Happened(c) = "pending"
  BY <1>1 DEF Happened
<1> QED BY <1>1, <1>2 DEF Abstract!Init

(* As long as the process does not crash, optimistic commits, retries and  *)
(* exclusive sessions look like operations on the whole table that happen  *)
(* one at a time (kvdb.lisp:338-406, 664-762).                             *)
THEOREM Serializability == MaxCrashes = 0 => (Spec => Serializable)
<1> SUFFICES ASSUME MaxCrashes = 0 PROVE Spec => Serializable
  OBVIOUS
<1>1. Init => Up /\ Abstract!Init
  BY InitHappens
<1>2. Types /\ Talk /\ Up /\ [Next]_vars => Up'
  BY StaysUp
<1>3. Types /\ Talk /\ Up /\ [Next]_vars =>
        [Abstract!Next]_<<db.map, [c \in Client |-> Happened(c)]>>
  BY NextHappens DEF Outcomes
<1> QED BY <1>1, <1>2, <1>3, Conversation, PTL DEF Spec, Serializable, Abstract!Spec

=============================================================================
