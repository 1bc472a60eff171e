-------------------------- MODULE MultiCommitProofs --------------------------
(***************************************************************************)
(* Proofs about module MultiCommit, for any sessions, updates and stores.  *)
(***************************************************************************)
EXTENDS MultiCommit, TLAPS

Status ==
  {"start", "sorting", "writing", "taking", "acted", "ending", "told"}

Database == [log : Seq(Client), id : Nat]

(* The types of the variables.                                             *)
Types ==
  /\ db \in [Store -> Database]
  /\ owner \in [Store -> Session \cup {None}]
  /\ pc \in [Client -> Status]
  /\ left \in [Client -> SUBSET Store]
  /\ found \in [Client -> [Store -> Nat]]
  /\ base \in [Client -> [Store -> Database]]
  /\ said \in [Client -> SUBSET {"commit", "abort"}]
  /\ verdict \in [Client -> {"commit", "abort", None}]

(* How far a client is, and what it waits for.                             *)
Stage(c) ==
  /\ left[c] \subseteq Needs[c]
  /\ pc[c] \in {"start", "acted", "told"} => left[c] = {}
  /\ c \in Writer => pc[c] \in {"start", "writing", "told"} /\ verdict[c] = None
  /\ c \in Session => /\ pc[c] # "writing"
                      /\ verdict[c] # None <=> pc[c] \in {"ending", "told"}
  /\ said[c] # {} => pc[c] = "acted"

(* The stores that session c holds.                                        *)
Holds(c, s) ==
  /\ s \in Needs[c]
  /\ \/ pc[c] = "taking" /\ s \notin left[c]
     \/ pc[c] = "acted"
     \/ pc[c] = "ending" /\ s \in left[c]

(* The gate knows its owner, and the owner's copy is the database.         *)
Owned ==
  \A c \in Session, s \in Store :
    /\ owner[s] = c <=> Holds(c, s)
    /\ owner[s] = c => base[c][s] = db[s]

(* A message under way: its sender waits for the answer, and has come to   *)
(* where such a message is sent.                                           *)
Proper(m) ==
  /\ m.from \in Client /\ m.at \in left[m.from]
  /\ \/ m = To(m.at, m.from, "req") /\ pc[m.from] \in {"sorting", "writing"}
     \/ /\ m.kind = "commit" /\ pc[m.from] \in {"sorting", "writing"}
        /\ m.new = Updated(m.old, m.from, m.at)
     \/ m = To(m.at, m.from, "req-excl") /\ pc[m.from] = "taking"
     \/ /\ m.kind = "own-commit" /\ pc[m.from] = "ending"
        /\ verdict[m.from] = "commit" /\ m.new = Changed(m.old, m.from)
     \/ /\ m = To(m.at, m.from, "abort") /\ pc[m.from] = "ending"
        /\ verdict[m.from] = "abort"

(* There is one message between a client and a store.                      *)
Mail ==
  /\ \A m \in net : Proper(m)
  /\ \A m, n \in net : m.from = n.from /\ m.at = n.at => m = n

InLog(d, c) == \E i \in DOMAIN d.log : d.log[i] = c

(* A store has a session's change once its commit has been accepted.       *)
Logged ==
  \A c \in Session, s \in Store :
    InLog(db[s], c) <=> /\ s \in Needs[c] /\ verdict[c] = "commit"
                        /\ s \notin left[c]

IInv == Types /\ (\A c \in Client : Stage(c)) /\ Owned /\ Mail /\ Logged
-----------------------------------------------------------------------------
(* Facts about clients, databases and messages.                            *)

LEMMA Clients ==
  /\ Session \subseteq Client /\ Writer \subseteq Client
  /\ \A c \in Client : c \in Session <=> c \notin Writer
  /\ None \notin Client /\ None \notin {"commit", "abort"}
  /\ \A c \in Client : Needs[c] \subseteq Store /\ Needs[c] # {}
BY NeedsAssumption DEF Client

(* A change is added to the log, and nothing else happens to a database.   *)
LEMMA Changes ==
  ASSUME NEW d \in Database, NEW c \in Client
  PROVE  /\ Changed(d, c) \in Database /\ Changed(d, c).log = Append(d.log, c)
         /\ \A b : InLog(Changed(d, c), b) <=> InLog(d, b) \/ b = c
<1>1. /\ Changed(d, c) \in Database /\ Changed(d, c).log = Append(d.log, c)
      /\ d.log \in Seq(Client)
  BY DEF Changed, Database
<1>2. PICK l, n : l = d.log /\ n = Len(l)
  OBVIOUS
<1>3. /\ n \in Nat /\ DOMAIN l = 1..n /\ DOMAIN Append(l, c) = 1..(n + 1)
      /\ Append(l, c)[n + 1] = c /\ \A i \in 1..n : Append(l, c)[i] = l[i]
  BY <1>1, <1>2
<1>4. ASSUME NEW b PROVE InLog(Changed(d, c), b) <=> InLog(d, b) \/ b = c
  <2>1. InLog(Changed(d, c), b) <=> \E i \in 1..(n + 1) : Append(l, c)[i] = b
    BY <1>1, <1>2, <1>3 DEF InLog
  <2>2. InLog(d, b) <=> \E i \in 1..n : l[i] = b
    BY <1>2, <1>3 DEF InLog
  <2>3. n + 1 \in 1..(n + 1) /\ \A i \in 1..(n + 1) : i \in 1..n \/ i = n + 1
    BY <1>3
  <2>4. 1..n \subseteq 1..(n + 1)
    BY <1>3
  <2> QED BY <1>3, <2>1, <2>2, <2>3, <2>4
<1> QED BY <1>1, <1>4

(* A session gives ids only, a writer changes.                             *)
LEMMA Updates ==
  ASSUME NEW d \in Database, NEW c \in Client, NEW s \in Store
  PROVE  /\ Updated(d, c, s) \in Database
         /\ c \in Writer => Updated(d, c, s) = Changed(d, c)
         /\ c \in Session => Updated(d, c, s).log = d.log
<1>1. CASE c \in Writer
  <2>1. Changed(d, c) \in Database
    BY Changes
  <2> QED BY <1>1, <2>1, Clients DEF Updated
<1>2. CASE c \in Session
  <2>1. Uuid[c][s] \in Nat /\ c \notin Writer
    BY <1>2, NeedsAssumption
  <2>2. [d EXCEPT !.id = Uuid[c][s]] \in Database
        /\ [d EXCEPT !.id = Uuid[c][s]].log = d.log
    BY <2>1 DEF Database
  <2> QED BY <2>1, <2>2 DEF Updated
<1> QED BY <1>1, <1>2 DEF Client

(* What messages say.                                                      *)
LEMMA Says ==
  ASSUME NEW s, NEW c, NEW k, NEW d
  PROVE  /\ To(s, c, k).at = s /\ To(s, c, k).from = c /\ To(s, c, k).kind = k
         /\ Try(c, s, d).at = s /\ Try(c, s, d).from = c
         /\ Try(c, s, d).kind = "commit" /\ Try(c, s, d).old = d
         /\ Try(c, s, d).new = Updated(d, c, s)
BY DEF To, Try

-----------------------------------------------------------------------------
(* The invariant in parts.                                                 *)

(* The meaning of a message depends on its sender only.                    *)
LEMMA StaysProper ==
  ASSUME NEW n, Proper(n), n.at \in left'[n.from],
         pc'[n.from] = pc[n.from], verdict'[n.from] = verdict[n.from]
  PROVE  Proper(n)'
BY DEF Proper

(* A client for which nothing changes stays at its stage.                  *)
LEMMA StaysAt ==
  ASSUME NEW c, Stage(c), left'[c] = left[c], pc'[c] = pc[c],
         verdict'[c] = verdict[c], said'[c] = said[c]
  PROVE  Stage(c)'
BY DEF Stage

LEMMA InitInvariant == Init => IInv
<1> SUFFICES ASSUME Init PROVE IInv
  OBVIOUS
<1>1. NoDb.log = <<>> /\ NoDb.id = 0 /\ NoDb \in Database
  BY DEF NoDb, Database
<1>2. PICK b \in Session, old \in SUBSET Store :
        db = [s \in Store |-> [log |-> <<>>, id |-> IF s \in old THEN 0 ELSE Uuid[b][s]]]
  BY DEF Init
<1>3. db \in [Store -> Database] /\ \A s \in Store : db[s].log = <<>>
  <2>1. \A s \in Store : Uuid[b][s] \in Nat
    BY NeedsAssumption
  <2> QED BY <1>2, <2>1 DEF Database
<1>4. Types
  BY <1>1, <1>3 DEF Init, Types, Status
<1>5. \A c \in Client : Stage(c)
  BY Clients DEF Init, Stage
<1>6. Owned
  BY Clients DEF Init, Owned, Holds
<1>7. Mail
  BY DEF Init, Mail
<1>8. Logged
  BY <1>3, Clients DEF Init, Logged, InLog
<1> QED BY <1>4, <1>5, <1>6, <1>7, <1>8 DEF IInv

(* A client begins.                                                        *)
LEMMA StartKeeps ==
  ASSUME IInv, NEW c \in Client, Start(c)
  PROVE  IInv'
<1>1. /\ pc[c] = "start" /\ left[c] = {} /\ verdict[c] = None /\ said[c] = {}
      /\ pc'[c] = IF c \in Session THEN "sorting" ELSE "writing"
      /\ left'[c] = Needs[c] /\ Needs[c] \subseteq Store
      /\ \A b \in Client : b # c => pc'[b] = pc[b] /\ left'[b] = left[b]
      /\ net' = net \cup { To(s, c, "req") : s \in Needs[c] }
      /\ UNCHANGED <<db, owner, found, base, said, verdict>>
  BY Clients DEF IInv, Types, Stage, Start
<1>2. Types'
  BY <1>1 DEF IInv, Types, Start, Status
<1>3. \A b \in Client : Stage(b)'
  <2> TAKE b \in Client
  <2>1. CASE b = c
    BY <1>1, <2>1, Clients DEF Stage
  <2>2. CASE b # c
    BY <1>1, <2>2, StaysAt DEF IInv
  <2> QED BY <2>1, <2>2
<1>4. Owned'
  BY <1>1, Clients DEF IInv, Owned, Holds
<1>5. Mail'
  <2>1. \A n \in net : Proper(n) /\ n.from # c
    BY <1>1 DEF IInv, Mail, Proper
  <2>2. \A n \in net : Proper(n)'
    BY <1>1, <2>1, StaysProper DEF Proper
  <2>3. ASSUME NEW n \in net', n \notin net PROVE n.from = c /\ Proper(n)'
                                                 /\ n = To(n.at, c, "req")
    <3>1. PICK s \in Needs[c] : n = To(s, c, "req")
      BY <1>1, <2>3
    <3>2. n.at = s /\ n.from = c /\ n = To(n.at, c, "req")
      BY <3>1, Says
    <3>3. pc'[c] \in {"sorting", "writing"} /\ n.at \in left'[c]
      BY <1>1, <3>2
    <3> QED BY <3>2, <3>3 DEF Proper
  <2> QED BY <2>1, <2>2, <2>3 DEF IInv, Mail
<1>6. Logged'
  BY <1>1, Clients DEF IInv, Logged
<1> QED BY <1>2, <1>3, <1>4, <1>5, <1>6 DEF IInv

(* A session has the ids and asks for its first store.                     *)
LEMMA SortedKeeps ==
  ASSUME IInv, NEW c \in Client, Sorted(c)
  PROVE  IInv'
<1>1. /\ pc[c] = "sorting" /\ left[c] = {} /\ said[c] = {} /\ c \in Session
      /\ verdict[c] = None
      /\ pc'[c] = "taking" /\ left'[c] = Needs[c] /\ Needs[c] \subseteq Store
      /\ \A b \in Client : b # c => pc'[b] = pc[b] /\ left'[b] = left[b]
      /\ net' = net \cup AskNext(c, Needs[c])
      /\ UNCHANGED <<db, owner, found, base, said, verdict>>
  BY Clients DEF IInv, Types, Stage, Sorted
<1>2. Types'
  BY <1>1 DEF IInv, Types, Sorted, Status
<1>3. \A b \in Client : Stage(b)'
  <2> TAKE b \in Client
  <2>1. CASE b = c
    BY <1>1, <2>1, Clients DEF Stage
  <2>2. CASE b # c
    BY <1>1, <2>2, StaysAt DEF IInv
  <2> QED BY <2>1, <2>2
<1>4. Owned'
  BY <1>1, Clients DEF IInv, Owned, Holds
<1>5. Mail'
  <2>1. \A n \in net : Proper(n) /\ n.from # c
    BY <1>1 DEF IInv, Mail, Proper
  <2>2. \A n \in net : Proper(n)'
    BY <1>1, <2>1, StaysProper DEF Proper
  <2>3. ASSUME NEW n \in net', n \notin net PROVE n.from = c /\ Proper(n)'
                                                 /\ n = To(n.at, c, "req-excl")
    <3>1. PICK s \in Needs[c] : n = To(s, c, "req-excl")
      BY <1>1, <2>3 DEF AskNext, Foremost
    <3>2. n.at = s /\ n.from = c /\ n = To(n.at, c, "req-excl")
      BY <3>1, Says
    <3>3. pc'[c] = "taking" /\ n.at \in left'[c]
      BY <1>1, <3>2
    <3> QED BY <3>2, <3>3 DEF Proper
  <2> QED BY <2>1, <2>2, <2>3 DEF IInv, Mail
<1>6. Logged'
  BY <1>1, Clients DEF IInv, Logged
<1> QED BY <1>2, <1>3, <1>4, <1>5, <1>6 DEF IInv

(* The action Actor has all stores and answers.                            *)
LEMMA ActKeeps ==
  ASSUME IInv, NEW c \in Client, Act(c)
  PROVE  IInv'
<1>0. PICK vs \in SUBSET {"commit", "abort"} : said' = [said EXCEPT ![c] = vs]
  BY DEF Act
<1>1. /\ pc[c] = "taking" /\ left[c] = {} /\ c \in Session /\ verdict[c] = None
      /\ pc' = [pc EXCEPT ![c] = "acted"] /\ pc'[c] = "acted"
      /\ \A b \in Client : b # c => pc'[b] = pc[b] /\ said'[b] = said[b]
      /\ UNCHANGED <<db, owner, net, left, found, base, verdict>>
  BY <1>0, Clients DEF IInv, Types, Stage, Act
<1>2. Types'
  BY <1>0, <1>1 DEF IInv, Types, Status
<1>3. \A b \in Client : Stage(b)'
  <2> TAKE b \in Client
  <2>1. CASE b = c
    BY <1>1, <2>1, Clients DEF IInv, Stage
  <2>2. CASE b # c
    BY <1>1, <2>2, StaysAt DEF IInv
  <2> QED BY <2>1, <2>2
<1>4. Owned'
  BY <1>1, Clients DEF IInv, Owned, Holds
<1>5. Mail'
  <2>1. \A n \in net : Proper(n) /\ n.from # c
    BY <1>1 DEF IInv, Mail, Proper
  <2>2. \A n \in net : Proper(n)'
    BY <1>1, <2>1, StaysProper DEF Proper
  <2> QED BY <1>1, <2>1, <2>2 DEF IInv, Mail
<1>6. Logged'
  BY <1>1, Clients DEF IInv, Logged
<1> QED BY <1>2, <1>3, <1>4, <1>5, <1>6 DEF IInv

(* The handler takes an answer and tells all stores.                       *)
LEMMA TerminateKeeps ==
  ASSUME IInv, NEW c \in Client, Terminate(c)
  PROVE  IInv'
<1>1. PICK v \in said[c] :
        /\ said' = [said EXCEPT ![c] = {}]
        /\ verdict' = [verdict EXCEPT ![c] = v]
        /\ pc' = [pc EXCEPT ![c] = "ending"]
        /\ left' = [left EXCEPT ![c] = Needs[c]]
        /\ net' = net \cup Closing(c, v)
        /\ UNCHANGED <<db, owner, found, base>>
  BY DEF Terminate
<1>2. /\ pc[c] = "acted" /\ left[c] = {} /\ c \in Session /\ verdict[c] = None
      /\ v \in {"commit", "abort"} /\ Needs[c] \subseteq Store
      /\ pc'[c] = "ending" /\ said'[c] = {} /\ verdict'[c] = v /\ left'[c] = Needs[c]
      /\ \A b \in Client : b # c => /\ pc'[b] = pc[b] /\ said'[b] = said[b]
                                    /\ verdict'[b] = verdict[b] /\ left'[b] = left[b]
  BY <1>1, Clients DEF IInv, Types, Stage
<1>3. Types'
  BY <1>1, <1>2 DEF IInv, Types, Status
<1>4. \A b \in Client : Stage(b)'
  <2> TAKE b \in Client
  <2>1. CASE b = c
    BY <1>2, <2>1, Clients DEF Stage
  <2>2. CASE b # c
    BY <1>2, <2>2, StaysAt DEF IInv
  <2> QED BY <2>1, <2>2
<1>5. Owned'
  BY <1>1, <1>2, Clients DEF IInv, Owned, Holds
<1>6. Mail'
  <2>1. \A n \in net : Proper(n) /\ n.from # c
    BY <1>2 DEF IInv, Mail, Proper
  <2>2. \A n \in net : Proper(n)'
    BY <1>2, <2>1, StaysProper DEF Proper
  <2>3. ASSUME NEW n \in net', n \notin net
        PROVE  \E s \in Needs[c] : /\ n.at = s /\ n.from = c /\ Proper(n)'
                                   /\ n \in Closing(c, v)
    <3>1. PICK s \in Needs[c] :
            n = IF v = "abort" THEN To(s, c, "abort")
                ELSE [at |-> s, from |-> c, kind |-> "own-commit",
                      old |-> base[c][s], new |-> Changed(base[c][s], c)]
      BY <1>1, <2>3 DEF Closing
    <3>2. CASE v = "abort"
      BY <1>1, <1>2, <2>3, <3>1, <3>2, Says DEF Proper
    <3>3. CASE v = "commit"
      <4>1. /\ n.at = s /\ n.from = c /\ n.kind = "own-commit"
            /\ n.new = Changed(n.old, c)
        BY <3>1, <3>3
      <4> QED BY <1>1, <1>2, <2>3, <3>3, <4>1 DEF Proper
    <3> QED BY <1>2, <3>2, <3>3
  <2>4. ASSUME NEW m \in Closing(c, v), NEW n \in Closing(c, v), m.at = n.at
        PROVE  m = n
    BY <2>4, Says DEF Closing
  <2> QED BY <2>1, <2>2, <2>3, <2>4 DEF IInv, Mail
<1>7. Logged'
  BY <1>1, <1>2, Clients DEF IInv, Logged
<1> QED BY <1>3, <1>4, <1>5, <1>6, <1>7 DEF IInv

(* The customer is told.                                                   *)
LEMMA ToldKeeps ==
  ASSUME IInv, NEW c \in Client, Told(c)
  PROVE  IInv'
<1>1. /\ pc[c] \in {"ending", "writing"} /\ left[c] = {} /\ said[c] = {}
      /\ pc'[c] = "told"
      /\ \A b \in Client : b # c => pc'[b] = pc[b]
      /\ UNCHANGED <<db, owner, net, left, found, base, said, verdict>>
  BY DEF IInv, Types, Stage, Told
<1>2. Types'
  BY <1>1 DEF IInv, Types, Told, Status
<1>3. \A b \in Client : Stage(b)'
  <2> TAKE b \in Client
  <2>1. CASE b = c
    BY <1>1, <2>1, Clients DEF IInv, Stage
  <2>2. CASE b # c
    BY <1>1, <2>2, StaysAt DEF IInv
  <2> QED BY <2>1, <2>2
<1>4. Owned'
  BY <1>1, Clients DEF IInv, Owned, Holds
<1>5. Mail'
  <2>1. \A n \in net : Proper(n) /\ n.from # c
    BY <1>1 DEF IInv, Mail, Proper
  <2>2. \A n \in net : Proper(n)'
    BY <1>1, <2>1, StaysProper DEF Proper
  <2> QED BY <1>1, <2>1, <2>2 DEF IInv, Mail
<1>6. Logged'
  BY <1>1, Clients DEF IInv, Logged
<1> QED BY <1>2, <1>3, <1>4, <1>5, <1>6 DEF IInv

-----------------------------------------------------------------------------
(* The gates.                                                              *)

LEMMA Senders ==
  ASSUME IInv, NEW m \in net
  PROVE  /\ m.from \in Client /\ m.at \in left[m.from] /\ m.at \in Needs[m.from]
         /\ m.at \in Store /\ Proper(m)
         /\ db[m.at] \in Database
         /\ m.kind \in {"req", "commit"} => /\ pc[m.from] \in {"sorting", "writing"}
                                            /\ verdict[m.from] = None
         /\ m.kind = "req-excl" => /\ pc[m.from] = "taking" /\ m.from \in Session
                                   /\ verdict[m.from] = None
<1>1. Proper(m) /\ m.from \in Client /\ m.at \in left[m.from]
  BY DEF IInv, Mail, Proper
<1>2. m.at \in Needs[m.from] /\ m.at \in Store /\ db[m.at] \in Database
  BY <1>1, Clients DEF IInv, Stage, Types
<1>3. /\ m.kind \in {"req", "commit"} => pc[m.from] \in {"sorting", "writing"}
      /\ m.kind = "req-excl" => pc[m.from] = "taking"
  BY <1>1, Says DEF Proper
<1>4. pc[m.from] \in {"sorting", "writing", "taking"} => verdict[m.from] = None
  BY <1>1, Clients DEF IInv, Stage
<1>5. pc[m.from] = "taking" => m.from \in Session
  BY <1>1, Clients DEF IInv, Stage
<1> QED BY <1>1, <1>2, <1>3, <1>4, <1>5

(* A message has been answered, and its sender waits no longer for it.     *)
LEMMA AnsweredMail ==
  ASSUME IInv, NEW m \in net, Answer(m), net' = net \ {m}, UNCHANGED <<pc, verdict>>
  PROVE  Mail'
<1>1. ASSUME NEW n \in net, n # m PROVE Proper(n)'
  <2>1. Proper(n) /\ n.from \in Client /\ n.at \in left[n.from]
    BY Senders
  <2>2. n.from # m.from \/ n.at # m.at
    BY <1>1 DEF IInv, Mail
  <2>3. n.at \in left'[n.from]
    BY <2>1, <2>2 DEF Answer, IInv, Types
  <2> QED BY <2>1, <2>3, StaysProper
<1> QED BY <1>1 DEF IInv, Mail

(* What answering does to the stages.                                      *)
LEMMA AnsweredStages ==
  ASSUME IInv, NEW m \in net, Answer(m), UNCHANGED <<pc, said, verdict>>
  PROVE  /\ left' \in [Client -> SUBSET Store]
         /\ left'[m.from] = left[m.from] \ {m.at}
         /\ \A b \in Client : b # m.from => left'[b] = left[b]
         /\ \A b \in Client : Stage(b)'
<1>1. m.from \in Client /\ m.at \in left[m.from]
  BY Senders
<1>2. /\ left' \in [Client -> SUBSET Store]
      /\ left'[m.from] = left[m.from] \ {m.at}
      /\ \A b \in Client : b # m.from => left'[b] = left[b]
  BY <1>1 DEF Answer, IInv, Types
<1>3. ASSUME NEW b \in Client PROVE Stage(b)'
  <2>1. CASE b = m.from
    BY <1>1, <1>2, <2>1 DEF IInv, Stage
  <2>2. CASE b # m.from
    BY <1>2, <2>2, StaysAt DEF IInv
  <2> QED BY <2>1, <2>2
<1> QED BY <1>2, <1>3

(* A copy is given out; its receiver tries to commit what it makes of it.  *)
LEMMA TriedKeeps ==
  ASSUME IInv, NEW m \in net, m.kind \in {"req", "commit"},
         Handle(m, {Try(m.from, m.at, db[m.at])}),
         UNCHANGED <<db, owner, pc, left, found, base, said, verdict>>
  PROVE  IInv'
<1>1. Types' /\ (\A c \in Client : Stage(c)') /\ Owned' /\ Logged'
  BY Clients, StaysAt DEF IInv, Types, Owned, Holds, Logged
<1>2. Mail'
  <2> PICK t : t = Try(m.from, m.at, db[m.at])
    OBVIOUS
  <2>1. \A n \in net : Proper(n) /\ Proper(n)'
    BY Senders, StaysProper DEF Proper
  <2>2. /\ t.at = m.at /\ t.from = m.from /\ t.kind = "commit"
        /\ t.new = Updated(t.old, t.from, t.at)
    BY Says
  <2>3. Proper(t)'
    BY <2>2, Senders DEF Proper
  <2>4. \A n \in net' : n = t \/ (n \in net /\ n # m)
    BY DEF Handle
  <2> QED BY <2>1, <2>2, <2>3, <2>4 DEF IInv, Mail
<1> QED BY <1>1, <1>2 DEF IInv

(* An optimistic commit is accepted.                                       *)
Accepted(m) ==
  /\ m.kind = "commit" /\ owner[m.at] = None /\ m.old = db[m.at]
  /\ Handle(m, {})
  /\ Answer(m)
  /\ db' = [db EXCEPT ![m.at] = m.new]
  /\ base' = [base EXCEPT ![m.from][m.at] = m.old]
  /\ found' = [found EXCEPT ![m.from][m.at] = m.new.id]
  /\ UNCHANGED <<owner, pc, said, verdict>>

LEMMA AcceptedFacts ==
  ASSUME IInv, NEW m \in net, Accepted(m)
  PROVE  /\ m.from \in Client /\ m.at \in Store /\ m.at \in Needs[m.from]
         /\ pc[m.from] \in {"sorting", "writing"} /\ verdict[m.from] = None
         /\ m.new = Updated(db[m.at], m.from, m.at) /\ m.new \in Database
         /\ db[m.at] \in Database
         /\ db'[m.at] = m.new /\ \A s \in Store : s # m.at => db'[s] = db[s]
         /\ base'[m.from][m.at] = db[m.at]
         /\ \A b \in Client, s \in Store :
              b # m.from \/ s # m.at => base'[b][s] = base[b][s]
<1>1. /\ m.from \in Client /\ m.at \in Store /\ m.at \in Needs[m.from] /\ Proper(m)
      /\ pc[m.from] \in {"sorting", "writing"} /\ verdict[m.from] = None
      /\ db[m.at] \in Database
  BY Senders DEF Accepted
<1>2. m.new = Updated(m.old, m.from, m.at)
  BY <1>1, Says DEF Proper, Accepted
<1>3. m.new = Updated(db[m.at], m.from, m.at) /\ m.new \in Database
  BY <1>1, <1>2, Updates DEF Accepted
<1>4. db'[m.at] = m.new /\ \A s \in Store : s # m.at => db'[s] = db[s]
  BY <1>1 DEF Accepted, IInv, Types
<1>5. /\ base'[m.from][m.at] = db[m.at]
      /\ \A b \in Client, s \in Store :
           b # m.from \/ s # m.at => base'[b][s] = base[b][s]
  BY <1>1 DEF Accepted, IInv, Types
<1> QED BY <1>1, <1>3, <1>4, <1>5

LEMMA AcceptedKeeps ==
  ASSUME IInv, NEW m \in net, Accepted(m)
  PROVE  IInv'
<1> DEFINE c == m.from  s == m.at
<1>1. /\ c \in Client /\ s \in Store /\ s \in Needs[c] /\ owner[s] = None
      /\ pc[c] \in {"sorting", "writing"} /\ verdict[c] = None
      /\ m.new = Updated(db[s], c, s) /\ m.new \in Database /\ db[s] \in Database
      /\ db'[s] = m.new /\ \A t \in Store : t # s => db'[t] = db[t]
      /\ \A b \in Client, t \in Store : b # c \/ t # s => base'[b][t] = base[b][t]
      /\ UNCHANGED <<owner, pc, said, verdict>>
  BY AcceptedFacts DEF Accepted
<1>2. /\ left' \in [Client -> SUBSET Store] /\ left'[c] = left[c] \ {s}
      /\ \A b \in Client : b # c => left'[b] = left[b]
      /\ \A b \in Client : Stage(b)'
  BY AnsweredStages DEF Accepted
<1>3. Types'
  <2>1. m.new.id \in Nat
    BY <1>1 DEF Database
  <2> QED BY <1>1, <1>2, <2>1 DEF IInv, Types, Accepted
<1>4. Owned'
  <2> SUFFICES ASSUME NEW b \in Session, NEW t \in Store
               PROVE  /\ owner'[t] = b <=> Holds(b, t)'
                      /\ owner'[t] = b => base'[b][t] = db'[t]
    BY DEF Owned
  <2>1. b \in Client /\ None # b
    BY Clients
  <2>2. /\ owner[t] = b <=> Holds(b, t)
        /\ owner[t] = b => base[b][t] = db[t]
    BY DEF IInv, Owned
  <2>3. Holds(b, t)' <=> Holds(b, t)
    BY <1>1, <1>2, <2>1 DEF Holds
  <2>4. owner[t] = b => t # s
    BY <1>1, <2>1
  <2> QED BY <1>1, <2>1, <2>2, <2>3, <2>4
<1>5. Mail'
  BY AnsweredMail DEF Accepted, Handle
<1>6. Logged'
  <2> SUFFICES ASSUME NEW b \in Session, NEW t \in Store
               PROVE  InLog(db'[t], b) <=> /\ t \in Needs[b] /\ verdict'[b] = "commit"
                                           /\ t \notin left'[b]
    BY DEF Logged, InLog
  <2>1. InLog(db[t], b) <=> /\ t \in Needs[b] /\ verdict[b] = "commit"
                            /\ t \notin left[b]
    BY DEF IInv, Logged
  <2>2. InLog(db'[t], b) <=> InLog(db[t], b)
    <3>1. CASE t # s
      BY <1>1, <3>1
    <3>2. CASE t = s /\ c \in Session
      BY <1>1, <3>2, Updates DEF InLog
    <3>3. CASE t = s /\ c \in Writer
      <4>1. m.new = Changed(db[s], c) /\ b # c
        BY <1>1, <3>3, Updates, Clients
      <4>2. InLog(Changed(db[s], c), b) <=> InLog(db[s], b)
        BY <1>1, <4>1, Changes
      <4> QED BY <1>1, <3>3, <4>1, <4>2
    <3> QED BY <1>1, <3>1, <3>2, <3>3 DEF Client
  <2>3. b = c => verdict[b] # "commit"
    BY <1>1, Clients
  <2> QED BY <1>1, <1>2, <2>1, <2>2, <2>3, Clients
<1> QED BY <1>2, <1>3, <1>4, <1>5, <1>6 DEF IInv

(* A store is granted to a session, which asks for its next one.           *)
LEMMA GateReqExclKeeps ==
  ASSUME IInv, NEW m \in net, GateReqExcl(m), UNCHANGED <<pc, said, verdict>>
  PROVE  IInv'
<1> DEFINE c == m.from  s == m.at
<1>1. /\ c \in Session /\ c \in Client /\ s \in Store /\ s \in Needs[c]
      /\ s \in left[c] /\ pc[c] = "taking" /\ verdict[c] = None
      /\ owner[s] = None /\ db[s] \in Database /\ UNCHANGED <<db, found>>
      /\ net' = (net \ {m}) \cup AskNext(c, left[c] \ {s})
  BY Senders DEF GateReqExcl, Handle
<1>2. /\ left' \in [Client -> SUBSET Store] /\ left'[c] = left[c] \ {s}
      /\ \A b \in Client : b # c => left'[b] = left[b]
      /\ \A b \in Client : Stage(b)'
  BY AnsweredStages DEF GateReqExcl
<1>3. /\ owner' = [owner EXCEPT ![s] = c] /\ owner'[s] = c
      /\ \A t \in Store : t # s => owner'[t] = owner[t]
      /\ base' \in [Client -> [Store -> Database]] /\ base'[c][s] = db[s]
      /\ \A b \in Client, t \in Store : b # c \/ t # s => base'[b][t] = base[b][t]
  BY <1>1 DEF GateReqExcl, IInv, Types
<1>4. Types'
  BY <1>1, <1>2, <1>3 DEF IInv, Types
<1>5. Owned'
  <2> SUFFICES ASSUME NEW b \in Session, NEW t \in Store
               PROVE  /\ owner'[t] = b <=> Holds(b, t)'
                      /\ owner'[t] = b => base'[b][t] = db'[t]
    BY DEF Owned
  <2>1. b \in Client /\ None # b
    BY Clients
  <2>2. /\ owner[t] = b <=> Holds(b, t)
        /\ owner[t] = b => base[b][t] = db[t]
    BY DEF IInv, Owned
  <2>3. CASE b = c /\ t = s
    BY <1>1, <1>2, <1>3, <2>3 DEF Holds
  <2>4. CASE b = c /\ t # s
    <3>1. Holds(b, t)' <=> Holds(b, t)
      BY <1>1, <1>2, <2>1, <2>4 DEF Holds
    <3> QED BY <1>1, <1>3, <2>1, <2>2, <2>4, <3>1
  <2>5. CASE b # c
    <3>1. Holds(b, t)' <=> Holds(b, t)
      BY <1>2, <2>1, <2>5 DEF Holds
    <3>2. t = s => ~Holds(b, t)
      BY <1>1, <2>1, <2>2
    <3> QED BY <1>1, <1>3, <2>1, <2>2, <2>5, <3>1, <3>2
  <2> QED BY <2>3, <2>4, <2>5
<1>6. Mail'
  <2>1. ASSUME NEW n \in net, n # m
        PROVE  Proper(n)' /\ (n.from = c => n = To(n.at, c, "req-excl"))
    <3>1. Proper(n) /\ n.from \in Client /\ n.at \in left[n.from]
      BY Senders
    <3>2. n.from # c \/ n.at # s
      BY <2>1 DEF IInv, Mail
    <3>3. n.at \in left'[n.from]
      BY <1>2, <3>1, <3>2
    <3>4. Proper(n)'
      BY <3>1, <3>3, StaysProper
    <3>5. n.from = c => n = To(n.at, c, "req-excl")
      BY <1>1, <3>1 DEF Proper
    <3> QED BY <3>4, <3>5
  <2>2. ASSUME NEW n \in AskNext(c, left[c] \ {s})
        PROVE  Proper(n)' /\ n.from = c /\ n = To(n.at, c, "req-excl")
    <3>1. PICK t \in left[c] \ {s} : n = To(t, c, "req-excl")
      BY <2>2 DEF AskNext, Foremost
    <3>2. n.at = t /\ n.from = c /\ n = To(n.at, c, "req-excl")
      BY <3>1, Says
    <3> QED BY <1>1, <1>2, <3>1, <3>2 DEF Proper
  <2>3. \A n \in net' : (n \in net /\ n # m) \/ n \in AskNext(c, left[c] \ {s})
    BY <1>1
  <2>4. \A n \in net' : Proper(n)' /\ (n.from = c => n = To(n.at, c, "req-excl"))
    BY <2>1, <2>2, <2>3
  <2>5. \A n, o \in net' : n.from = o.from /\ n.at = o.at => n = o
    <3> TAKE n, o \in net'
    <3>1. CASE n.from = c
      BY <2>4, <3>1
    <3>2. CASE n.from # c
      BY <2>2, <2>3, <3>2 DEF IInv, Mail
    <3> QED BY <3>1, <3>2
  <2> QED BY <2>4, <2>5 DEF Mail
<1>7. Logged'
  <2> SUFFICES ASSUME NEW b \in Session, NEW t \in Store
               PROVE  InLog(db[t], b) <=> /\ t \in Needs[b] /\ verdict[b] = "commit"
                                          /\ t \notin left'[b]
    BY <1>1 DEF Logged, InLog
  <2>1. InLog(db[t], b) <=> /\ t \in Needs[b] /\ verdict[b] = "commit"
                            /\ t \notin left[b]
    BY DEF IInv, Logged
  <2> QED BY <1>1, <1>2, <2>1, Clients
<1> QED BY <1>2, <1>4, <1>5, <1>6, <1>7 DEF IInv

(* The owner has done and the gate is free.                                *)
LEMMA GateOwnerFacts ==
  ASSUME IInv, NEW m \in net, GateOwner(m), UNCHANGED <<pc, said, verdict>>
  PROVE  /\ m.from \in Session /\ m.from \in Client
         /\ m.at \in Store /\ m.at \in Needs[m.from] /\ m.at \in left[m.from]
         /\ pc[m.from] = "ending" /\ owner[m.at] = m.from
         /\ owner'[m.at] = None /\ \A s \in Store : s # m.at => owner'[s] = owner[s]
         /\ owner' \in [Store -> Session \cup {None}]
         /\ \A s \in Store : s # m.at => db'[s] = db[s]
         /\ db[m.at] \in Database
         /\ \/ verdict[m.from] = "commit" /\ db'[m.at] = Changed(db[m.at], m.from)
            \/ verdict[m.from] = "abort" /\ db'[m.at] = db[m.at]
         /\ db' \in [Store -> Database]
<1>1. /\ m.from \in Client /\ m.at \in Store /\ m.at \in Needs[m.from]
      /\ m.at \in left[m.from] /\ Proper(m) /\ db[m.at] \in Database
  BY Senders
<1>2. owner[m.at] = m.from /\ m.from \in Session
  BY <1>1, Clients DEF GateOwner, IInv, Types
<1>3. m.kind \in {"own-commit", "abort"} /\ pc[m.from] = "ending"
  BY <1>1, Says DEF GateOwner, Proper
<1>4. /\ owner'[m.at] = None /\ \A s \in Store : s # m.at => owner'[s] = owner[s]
      /\ owner' \in [Store -> Session \cup {None}]
  BY <1>1 DEF GateOwner, IInv, Types
<1>5. CASE m.kind = "own-commit"
  <2>1. m.old = db[m.at] /\ db' = [db EXCEPT ![m.at] = m.new]
    BY <1>5 DEF GateOwner
  <2>2. verdict[m.from] = "commit" /\ m.new = Changed(m.old, m.from)
    BY <1>1, <1>5, Says DEF Proper
  <2>3. Changed(db[m.at], m.from) \in Database
    BY <1>1, Changes
  <2>4. /\ db'[m.at] = Changed(db[m.at], m.from)
        /\ \A s \in Store : s # m.at => db'[s] = db[s]
        /\ db' \in [Store -> Database]
    BY <1>1, <2>1, <2>2, <2>3 DEF IInv, Types
  <2> QED BY <1>1, <1>2, <1>3, <1>4, <2>2, <2>4
<1>6. CASE m.kind = "abort"
  <2>1. db' = db
    BY <1>6 DEF GateOwner
  <2>2. verdict[m.from] = "abort"
    BY <1>1, <1>6, Says DEF Proper
  <2> QED BY <1>1, <1>2, <1>3, <1>4, <2>1, <2>2 DEF IInv, Types
<1> QED BY <1>3, <1>5, <1>6

LEMMA GateOwnerKeeps ==
  ASSUME IInv, NEW m \in net, GateOwner(m), UNCHANGED <<pc, said, verdict>>
  PROVE  IInv'
<1> DEFINE c == m.from  s == m.at
<1>1. /\ c \in Session /\ c \in Client /\ s \in Store /\ s \in Needs[c] /\ s \in left[c]
      /\ pc[c] = "ending" /\ owner[s] = c /\ UNCHANGED <<found, base>>
      /\ owner'[s] = None /\ \A t \in Store : t # s => owner'[t] = owner[t]
      /\ owner' \in [Store -> Session \cup {None}]
      /\ \A t \in Store : t # s => db'[t] = db[t]
      /\ db[s] \in Database /\ db' \in [Store -> Database]
      /\ \/ verdict[c] = "commit" /\ db'[s] = Changed(db[s], c)
         \/ verdict[c] = "abort" /\ db'[s] = db[s]
  BY GateOwnerFacts DEF GateOwner
<1>2. /\ left' \in [Client -> SUBSET Store] /\ left'[c] = left[c] \ {s}
      /\ \A b \in Client : b # c => left'[b] = left[b]
      /\ \A b \in Client : Stage(b)'
  BY AnsweredStages DEF GateOwner
<1>3. Types'
  BY <1>1, <1>2 DEF IInv, Types
<1>4. Owned'
  <2> SUFFICES ASSUME NEW b \in Session, NEW t \in Store
               PROVE  /\ owner'[t] = b <=> Holds(b, t)'
                      /\ owner'[t] = b => base'[b][t] = db'[t]
    BY DEF Owned
  <2>1. b \in Client /\ None # b
    BY Clients
  <2>2. /\ owner[t] = b <=> Holds(b, t)
        /\ owner[t] = b => base[b][t] = db[t]
    BY DEF IInv, Owned
  <2>3. CASE t # s
    <3>1. Holds(b, t)' <=> Holds(b, t)
      BY <1>1, <1>2, <2>1, <2>3 DEF Holds
    <3> QED BY <1>1, <2>2, <2>3, <3>1
  <2>4. CASE t = s
    <3>1. ~Holds(b, t)'
      <4>1. CASE b = c
        BY <1>1, <1>2, <2>4, <4>1 DEF Holds
      <4>2. CASE b # c
        BY <1>1, <1>2, <2>1, <2>2, <2>4, <4>2 DEF Holds
      <4> QED BY <4>1, <4>2
    <3> QED BY <1>1, <2>1, <2>4, <3>1
  <2> QED BY <2>3, <2>4
<1>5. Mail'
  BY AnsweredMail DEF GateOwner, Handle
<1>6. Logged'
  <2> SUFFICES ASSUME NEW b \in Session, NEW t \in Store
               PROVE  InLog(db'[t], b) <=> /\ t \in Needs[b] /\ verdict[b] = "commit"
                                           /\ t \notin left'[b]
    BY DEF Logged, InLog
  <2>1. InLog(db[t], b) <=> /\ t \in Needs[b] /\ verdict[b] = "commit"
                            /\ t \notin left[b]
    BY DEF IInv, Logged
  <2>2. b \in Client
    BY Clients
  <2>3. CASE t # s
    BY <1>1, <1>2, <2>1, <2>2, <2>3
  <2>4. CASE t = s /\ db'[s] = db[s] /\ verdict[c] = "abort"
    BY <1>1, <1>2, <2>1, <2>2, <2>4
  <2>5. CASE t = s /\ db'[s] = Changed(db[s], c) /\ verdict[c] = "commit"
    <3>1. InLog(db'[s], b) <=> InLog(db[s], b) \/ b = c
      BY <1>1, <2>5, Changes
    <3> QED BY <1>1, <1>2, <2>1, <2>2, <2>5, <3>1
  <2> QED BY <1>1, <2>3, <2>4, <2>5
<1> QED BY <1>2, <1>3, <1>4, <1>5, <1>6 DEF IInv

(* What the gate of a store does with a message.                           *)
Gated(m) ==
  \/ /\ m.kind \in {"req", "commit"} /\ Handle(m, {Try(m.from, m.at, db[m.at])})
     /\ UNCHANGED <<db, owner, pc, left, found, base, said, verdict>>
  \/ Accepted(m)
  \/ GateReqExcl(m) /\ UNCHANGED <<pc, said, verdict>>
  \/ GateOwner(m) /\ UNCHANGED <<pc, said, verdict>>

LEMMA GateCases ==
  ASSUME NEW c, NEW s, GateStep(c, s)
  PROVE  \E m \in net : m.from = c /\ m.at = s /\ Gated(m)
<1>1. PICK m \in net :
        /\ m.from = c /\ m.at = s
        /\ GateReq(m) \/ GateCommit(m) \/ GateReqExcl(m) \/ GateOwner(m)
        /\ UNCHANGED <<pc, said, verdict>>
  BY DEF GateStep
<1>2. GateReq(m) => Gated(m)
  BY <1>1 DEF GateReq, Gated
<1>3. GateCommit(m) => Gated(m)
  BY <1>1 DEF GateCommit, Accepted, Gated
<1> QED BY <1>1, <1>2, <1>3 DEF Gated

(* Every step keeps the invariant.                                         *)
LEMMA NextKeeps == IInv /\ [Next]_vars => IInv'
<1> SUFFICES ASSUME IInv, [Next]_vars PROVE IInv'
  OBVIOUS
<1>1. ASSUME NEW c \in Client, ClientStep(c) PROVE IInv'
  BY <1>1, StartKeeps, SortedKeeps, ActKeeps, TerminateKeeps, ToldKeeps DEF ClientStep
<1>2. ASSUME NEW c \in Client, NEW s \in Store, GateStep(c, s) PROVE IInv'
  <2>1. PICK m \in net : Gated(m)
    BY <1>2, GateCases
  <2> QED BY <2>1, TriedKeeps, AcceptedKeeps, GateReqExclKeeps, GateOwnerKeeps DEF Gated
<1>3. CASE UNCHANGED vars
  <2>1. Types' /\ Owned' /\ Logged' /\ (\A c \in Client : Stage(c)')
    BY <1>3, StaysAt DEF IInv, Types, Owned, Holds, Logged, vars
  <2>2. Mail'
    BY <1>3, StaysProper DEF IInv, Mail, Proper, vars
  <2> QED BY <2>1, <2>2 DEF IInv
<1> QED BY <1>1, <1>2, <1>3 DEF Next

(* The invariant holds.                                                    *)
THEOREM Invariance == Spec => []IInv
<1> QED BY InitInvariant, NextKeeps, PTL DEF Spec

(* By the time a customer is told (multi-commit.lisp:137-138) each store   *)
(* is free of its session and has its changes, or none of them has.        *)
THEOREM ToldWhenDone == Spec => []OkWhenDone
<1>1. IInv => OkWhenDone
  <2> SUFFICES ASSUME IInv, NEW c \in Session, pc[c] = "told", NEW s \in Needs[c]
               PROVE  /\ owner[s] # c
                      /\ verdict[c] = "commit" <=> InLog(db[s], c)
    BY DEF OkWhenDone, InLog
  <2>0. c \in Client
    BY Clients
  <2>1. c \in Client /\ s \in Store
    BY <2>0, Clients
  <2>2. left[c] = {}
    BY <2>1 DEF IInv, Stage
  <2>3. owner[s] # c
    BY <2>1 DEF IInv, Owned, Holds
  <2>4. InLog(db[s], c) <=> verdict[c] = "commit"
    BY <2>1, <2>2 DEF IInv, Logged
  <2> QED BY <2>3, <2>4
<1> QED BY <1>1, Invariance, PTL

-----------------------------------------------------------------------------
(* Sessions and updates are the transactions of AtomicMap.                 *)

LEMMA Outcomes ==
  /\ NoOutcome("pending") # NoOutcome("aborted")
  /\ \A c, log : Saw(c, log) # NoOutcome("pending")
BY DEF NoOutcome, Saw, Outcome

(* The contents of a store, which is free or held by a session.            *)
LEMMA ContentsOf ==
  ASSUME NEW s \in Store
  PROVE  /\ owner[s] = None => Contents(s) = db[s].log
         /\ owner[s] # None /\ verdict[owner[s]] = "commit" =>
              Contents(s) = Append(db[s].log, owner[s])
         /\ owner[s] # None /\ verdict[owner[s]] # "commit" => Contents(s) = db[s].log
BY DEF Contents

LEMMA ContentsNext ==
  ASSUME NEW s \in Store
  PROVE  /\ owner'[s] = None => Contents(s)' = db'[s].log
         /\ owner'[s] # None /\ verdict'[owner'[s]] = "commit" =>
              Contents(s)' = Append(db'[s].log, owner'[s])
         /\ owner'[s] # None /\ verdict'[owner'[s]] # "commit" =>
              Contents(s)' = db'[s].log
BY DEF Contents

(* What has happened to a session, and to an update.                       *)
Done(c) == c \in Writer /\ pc[c] # "start" /\ left[c] = {}
Logs(f) == [s \in Store |-> f[s].log]

LEMMA HappenedTo ==
  ASSUME IInv, NEW c \in Client
  PROVE  /\ verdict[c] = "abort" => Happened(c) = NoOutcome("aborted")
         /\ verdict[c] = "commit" \/ Done(c) => Happened(c) = Saw(c, Logs(base[c]))
         /\ verdict[c] = None /\ ~Done(c) => Happened(c) = NoOutcome("pending")
<1>1. Done(c) => verdict[c] = None
  BY DEF Done, IInv, Stage
<1>2. None # "commit" /\ None # "abort"
  BY Clients
<1> QED BY <1>1, <1>2 DEF Happened, Done, Logs

LEMMA HappenedNext ==
  ASSUME IInv', NEW c \in Client
  PROVE  /\ verdict'[c] = "abort" => Happened(c)' = NoOutcome("aborted")
         /\ verdict'[c] = "commit" \/ Done(c)' =>
              Happened(c)' = Saw(c, Logs(base'[c]))
         /\ verdict'[c] = None /\ ~Done(c)' => Happened(c)' = NoOutcome("pending")
<1>1. Done(c)' => verdict'[c] = None
  BY DEF Done, IInv, Stage
<1>2. None # "commit" /\ None # "abort"
  BY Clients
<1> QED BY <1>1, <1>2 DEF Happened, Done, Logs

(* An outcome depends on the bases of the stores that are needed only.     *)
LEMMA SameSaw ==
  ASSUME NEW c, NEW f, NEW g, \A s \in Needs[c] : f[s] = g[s]
  PROVE  Saw(c, f) = Saw(c, g)
<1>1. { <<s, f[s]>> : s \in Needs[c] } = { <<s, g[s]>> : s \in Needs[c] }
  OBVIOUS
<1> QED BY <1>1 DEF Saw

(* The map and the outcomes, and the steps of AtomicMap on them.           *)
TheMap == [s \in Store |-> Contents(s)]
TheOutcomes == [c \in Client |-> Happened(c)]

AbstractStep == Abstract!Next \/ UNCHANGED <<TheMap, TheOutcomes>>

LEMMA Stutters ==
  ASSUME \A s \in Store : Contents(s)' = Contents(s),
         \A c \in Client : Happened(c)' = Happened(c)
  PROVE  AbstractStep
BY DEF AbstractStep, TheMap, TheOutcomes

LEMMA Happens ==
  ASSUME NEW c \in Client, Happened(c) = NoOutcome("pending"),
         Happened(c)' = Saw(c, TheMap),
         \A b \in Client : b # c => Happened(b)' = Happened(b),
         \A s \in Store :
           Contents(s)' = IF s \in Needs[c] THEN Append(Contents(s), c) ELSE Contents(s)
  PROVE  AbstractStep
<1>1. TheOutcomes' = [TheOutcomes EXCEPT ![c] = Saw(c, TheMap)]
  BY DEF TheOutcomes
<1>2. TheMap' = [s \in Store |-> IF s \in Needs[c] THEN Append(TheMap[s], c)
                                                 ELSE TheMap[s]]
  BY DEF TheMap
<1>3. Abstract!Happen(c)
  BY <1>1, <1>2 DEF Abstract!Happen, TheMap, TheOutcomes
<1> QED BY <1>3 DEF AbstractStep, Abstract!Next

LEMMA GivesUp ==
  ASSUME NEW c \in Client, Happened(c) = NoOutcome("pending"),
         Happened(c)' = NoOutcome("aborted"),
         \A b \in Client : b # c => Happened(b)' = Happened(b),
         \A s \in Store : Contents(s)' = Contents(s)
  PROVE  AbstractStep
<1>1. TheOutcomes' = [TheOutcomes EXCEPT ![c] = NoOutcome("aborted")] /\ TheMap' = TheMap
  BY DEF TheOutcomes, TheMap
<1>2. Abstract!GiveUp(c)
  BY <1>1 DEF Abstract!GiveUp, TheMap, TheOutcomes
<1> QED BY <1>2 DEF AbstractStep, Abstract!Next

(* A client to which nothing happens.                                      *)
LEMMA NothingHappens ==
  ASSUME IInv, IInv', NEW c \in Client, verdict'[c] = verdict[c],
         Done(c)' <=> Done(c),
         (verdict[c] = None /\ ~Done(c)) \/ base'[c] = base[c]
  PROVE  Happened(c)' = Happened(c)
<1>1. verdict[c] \in {"commit", "abort", None}
  BY DEF IInv, Types
<1> QED BY <1>1, HappenedTo, HappenedNext

(* Only an update is done without a verdict.                               *)
LEMMA OnlyUpdates ==
  ASSUME IInv
  PROVE  /\ \A c \in Client : Done(c) => c \in Writer /\ verdict[c] = None
         /\ \A c \in Session : ~Done(c) /\ c \in Client
BY Clients DEF Done, IInv, Stage

-----------------------------------------------------------------------------
(* The steps.                                                              *)

LEMMA QuietStep ==
  ASSUME IInv, IInv', UNCHANGED <<db, owner, base, verdict>>,
         \A c \in Client : Done(c)' <=> Done(c)
  PROVE  AbstractStep
<1>1. \A s \in Store : Contents(s)' = Contents(s)
  BY DEF Contents
<1>2. \A c \in Client : Happened(c)' = Happened(c)
  BY NothingHappens
<1> QED BY <1>1, <1>2, Stutters

LEMMA ClientSteps ==
  ASSUME IInv, IInv', NEW c \in Client, Start(c) \/ Sorted(c) \/ Act(c) \/ Told(c)
  PROVE  AbstractStep
<1>1. UNCHANGED <<db, owner, base, verdict>>
  BY DEF Start, Sorted, Act, Told
<1>2. ASSUME NEW b \in Client PROVE Done(b)' <=> Done(b)
  <2>1. CASE b # c
    BY <2>1 DEF Done, Start, Sorted, Act, Told, IInv, Types
  <2>2. CASE b = c /\ Start(c)
    BY <2>2, Clients DEF Done, Start, IInv, Types
  <2>3. CASE b = c /\ (Sorted(c) \/ Act(c))
    BY <2>3 DEF Done, Sorted, Act, IInv, Stage
  <2>4. CASE b = c /\ Told(c)
    BY <2>4 DEF Done, Told, IInv, Types
  <2> QED BY <2>1, <2>2, <2>3, <2>4
<1> QED BY <1>1, <1>2, QuietStep

(* With its verdict a session happens, or is given up, on all its stores.  *)
LEMMA TerminateSteps ==
  ASSUME IInv, IInv', NEW c \in Client, Terminate(c)
  PROVE  AbstractStep
<1>1. PICK v \in said[c] :
        /\ verdict' = [verdict EXCEPT ![c] = v]
        /\ UNCHANGED <<db, owner, base>>
  BY DEF Terminate
<1>2. /\ pc[c] = "acted" /\ c \in Session /\ verdict[c] = None
      /\ v \in {"commit", "abort"} /\ verdict'[c] = v
      /\ \A b \in Client : b # c => verdict'[b] = verdict[b]
  <2>1. pc[c] = "acted" /\ v \in {"commit", "abort"}
    BY <1>1 DEF IInv, Types, Stage
  <2>2. c \in Session /\ verdict[c] = None
    BY <2>1, Clients DEF IInv, Types, Stage
  <2> QED BY <1>1, <2>1, <2>2 DEF IInv, Types
<1>3. ASSUME NEW b \in Client, b # c PROVE Happened(b)' = Happened(b)
  <2>1. Done(b)' <=> Done(b)
    BY <1>3 DEF Done, Terminate, IInv, Types
  <2> QED BY <1>1, <1>2, <1>3, <2>1, NothingHappens
<1>4. Happened(c) = NoOutcome("pending")
  BY <1>2, OnlyUpdates, HappenedTo
<1>5. ASSUME NEW s \in Store
      PROVE  /\ s \in Needs[c] <=> owner[s] = c
             /\ owner[s] = c => base[c][s] = db[s] /\ Contents(s) = db[s].log
             /\ owner[s] = None \/ (owner[s] \in Client)
  <2>1. s \in Needs[c] <=> owner[s] = c
    BY <1>2 DEF IInv, Owned, Holds
  <2>2. owner[s] = c => base[c][s] = db[s]
    BY <1>2 DEF IInv, Owned
  <2>3. owner[s] = None \/ owner[s] \in Client
    BY DEF IInv, Types, Client
  <2>4. owner[s] = c => Contents(s) = db[s].log
    BY <1>2, ContentsOf, Clients
  <2> QED BY <2>1, <2>2, <2>3, <2>4
<1>6. CASE v = "abort"
  <2>1. Happened(c)' = NoOutcome("aborted")
    BY <1>2, <1>6, HappenedNext
  <2>2. ASSUME NEW s \in Store PROVE Contents(s)' = Contents(s)
    <3>1. CASE owner[s] = c
      BY <1>1, <1>2, <1>5, <1>6, <3>1, ContentsNext
    <3>2. CASE owner[s] # c
      BY <1>1, <1>2, <1>5, <3>2, ContentsOf, ContentsNext
    <3> QED BY <3>1, <3>2
  <2> QED BY <1>3, <1>4, <2>1, <2>2, GivesUp
<1>7. CASE v = "commit"
  <2>1. Happened(c)' = Saw(c, Logs(base'[c]))
    BY <1>2, <1>7, HappenedNext
  <2>2. \A s \in Needs[c] : Logs(base'[c])[s] = TheMap[s]
    BY <1>1, <1>5, Clients DEF Logs, TheMap
  <2>3. Happened(c)' = Saw(c, TheMap)
    BY <2>1, <2>2, SameSaw
  <2>4. ASSUME NEW s \in Store
        PROVE  Contents(s)' = IF s \in Needs[c] THEN Append(Contents(s), c) ELSE Contents(s)
    <3>1. CASE owner[s] = c
      BY <1>1, <1>2, <1>5, <1>7, <3>1, ContentsNext, Clients
    <3>2. CASE owner[s] # c
      BY <1>1, <1>2, <1>5, <3>2, ContentsOf, ContentsNext
    <3> QED BY <3>1, <3>2
  <2> QED BY <1>3, <1>4, <2>3, <2>4, Happens
<1> QED BY <1>2, <1>6, <1>7

(* An update happens when its commit is accepted; that of an id is not     *)
(* seen in the contents.                                                   *)
LEMMA AcceptedSteps ==
  ASSUME IInv, IInv', NEW m \in net, Accepted(m)
  PROVE  AbstractStep
<1> DEFINE c == m.from  s == m.at
<1>1. /\ c \in Client /\ s \in Store /\ s \in Needs[c] /\ owner[s] = None
      /\ pc[c] \in {"sorting", "writing"} /\ verdict[c] = None
      /\ m.new = Updated(db[s], c, s) /\ db[s] \in Database
      /\ db'[s] = m.new /\ \A t \in Store : t # s => db'[t] = db[t]
      /\ base'[c][s] = db[s]
      /\ \A b \in Client : b # c => base'[b] = base[b]
      /\ UNCHANGED <<owner, pc, said, verdict>>
  <2>1. \A b \in Client : b # m.from => base'[b] = base[b]
    BY DEF Accepted, IInv, Types
  <2> QED BY <2>1, AcceptedFacts DEF Accepted
<1>2. /\ left'[c] = left[c] \ {s}
      /\ \A b \in Client : b # c => left'[b] = left[b]
  BY AnsweredStages DEF Accepted
<1>3. ASSUME NEW b \in Client, b # c PROVE Happened(b)' = Happened(b)
  <2>1. Done(b)' <=> Done(b)
    BY <1>1, <1>2, <1>3 DEF Done
  <2> QED BY <1>1, <1>3, <2>1, NothingHappens
<1>4. \A t \in Store : t # s => Contents(t)' = Contents(t)
  BY <1>1 DEF Contents
<1>5. Contents(s) = db[s].log /\ Contents(s)' = m.new.log
  BY <1>1, ContentsOf, ContentsNext
<1>6. CASE c \in Session
  <2>1. m.new.log = db[s].log
    BY <1>1, <1>6, Updates
  <2>2. Happened(c)' = Happened(c)
    BY <1>1, <1>6, OnlyUpdates, NothingHappens, HappenedTo, HappenedNext, Clients DEF Done
  <2> QED BY <1>3, <1>4, <1>5, <2>1, <2>2, Stutters
<1>7. CASE c \in Writer
  <2>1. Needs[c] = {s}
    <3>1. PICK t \in Store : Needs[c] = {t}
      BY <1>7, NeedsAssumption
    <3> QED BY <1>1, <3>1
  <2>2. left[c] # {} /\ left'[c] = {}
    <3>1. left[c] \subseteq Needs[c] /\ s \in left[c]
      BY <1>1, Senders DEF IInv, Stage
    <3> QED BY <1>2, <2>1, <3>1
  <2>3. ~Done(c) /\ Done(c)'
    BY <1>1, <1>7, <2>2 DEF Done
  <2>4. Happened(c) = NoOutcome("pending") /\ Happened(c)' = Saw(c, Logs(base'[c]))
    BY <1>1, <2>3, HappenedTo, HappenedNext
  <2>5. \A t \in Needs[c] : Logs(base'[c])[t] = TheMap[t]
    BY <1>1, <1>5, <2>1 DEF Logs, TheMap
  <2>6. Happened(c)' = Saw(c, TheMap)
    BY <2>4, <2>5, SameSaw
  <2>7. Contents(s)' = Append(Contents(s), c)
    BY <1>1, <1>5, <1>7, Updates, Changes
  <2> QED BY <1>1, <1>3, <1>4, <2>1, <2>4, <2>6, <2>7, Happens
<1> QED BY <1>1, <1>6, <1>7 DEF Client

(* Granting a store to a session, and taking it back, is not seen.         *)
LEMMA OwnerSteps ==
  ASSUME IInv, IInv', NEW m \in net, GateReqExcl(m) \/ GateOwner(m),
         UNCHANGED <<pc, said, verdict>>
  PROVE  AbstractStep
<1>1. /\ m.from \in Session /\ m.from \in Client /\ m.at \in Store
      /\ \A b \in Client : b # m.from => left'[b] = left[b] /\ base'[b] = base[b]
  <2>1. m.from \in Session
    BY Senders, GateOwnerFacts DEF GateReqExcl
  <2>2. Answer(m)
    BY DEF GateReqExcl, GateOwner
  <2>3. \A b \in Client : b # m.from => left'[b] = left[b]
    BY <2>2, AnsweredStages
  <2>4. \A b \in Client : b # m.from => base'[b] = base[b]
    BY DEF GateReqExcl, GateOwner, IInv, Types
  <2> QED BY <2>1, <2>3, <2>4, Senders
<1>2. GateOwner(m) \/ verdict[m.from] = None
  BY Senders DEF GateReqExcl
<1>3. ASSUME NEW b \in Client PROVE Happened(b)' = Happened(b)
  <2>1. CASE b # m.from
    <3>1. Done(b)' <=> Done(b)
      BY <1>1, <2>1 DEF Done
    <3> QED BY <1>1, <2>1, <3>1, NothingHappens
  <2>2. CASE b = m.from
    <3>1. ~Done(b) /\ ~Done(b)'
      BY <1>1, <2>2, Clients DEF Done
    <3>2. verdict[b] = None \/ base' = base
      BY <1>2, <2>2 DEF GateOwner
    <3> QED BY <3>1, <3>2, NothingHappens
  <2> QED BY <2>1, <2>2
<1>4. \A s \in Store : s # m.at => owner'[s] = owner[s] /\ db'[s] = db[s]
  BY GateOwnerFacts DEF GateReqExcl, IInv, Types
<1>5. \A s \in Store : s # m.at => Contents(s)' = Contents(s)
  BY <1>4 DEF Contents
<1>6. Contents(m.at)' = Contents(m.at)
  <2>1. CASE GateReqExcl(m)
    <3>1. /\ owner[m.at] = None /\ owner'[m.at] = m.from /\ db' = db
          /\ verdict'[m.from] = None /\ m.from # None /\ None # "commit"
      BY <1>1, <2>1, Senders, Clients DEF GateReqExcl, IInv, Types
    <3> QED BY <1>1, <3>1, ContentsOf, ContentsNext
  <2>2. CASE GateOwner(m)
    <3>1. /\ owner[m.at] = m.from /\ owner'[m.at] = None /\ m.from # None
          /\ db[m.at] \in Database
          /\ \/ verdict[m.from] = "commit" /\ db'[m.at] = Changed(db[m.at], m.from)
             \/ verdict[m.from] = "abort" /\ db'[m.at] = db[m.at]
      BY <1>1, <2>2, GateOwnerFacts, Clients
    <3>2. CASE verdict[m.from] = "commit" /\ db'[m.at] = Changed(db[m.at], m.from)
      <4>1. Contents(m.at) = Append(db[m.at].log, m.from)
        BY <1>1, <3>1, <3>2, ContentsOf
      <4>2. Contents(m.at)' = db'[m.at].log
        BY <1>1, <3>1, ContentsNext
      <4>3. db'[m.at].log = Append(db[m.at].log, m.from)
        BY <1>1, <3>1, <3>2, Changes
      <4> QED BY <4>1, <4>2, <4>3
    <3>3. CASE verdict[m.from] = "abort" /\ db'[m.at] = db[m.at]
      BY <1>1, <3>1, <3>3, ContentsOf, ContentsNext
    <3> QED BY <3>1, <3>2, <3>3
  <2> QED BY <2>1, <2>2
<1> QED BY <1>3, <1>5, <1>6, Stutters

LEMMA NextSteps == IInv /\ IInv' /\ [Next]_vars => AbstractStep
<1> SUFFICES ASSUME IInv, IInv', [Next]_vars PROVE AbstractStep
  OBVIOUS
<1>1. ASSUME NEW c \in Client, ClientStep(c) PROVE AbstractStep
  BY <1>1, ClientSteps, TerminateSteps DEF ClientStep
<1>2. ASSUME NEW c \in Client, NEW s \in Store, GateStep(c, s) PROVE AbstractStep
  <2>1. PICK m \in net : Gated(m)
    BY <1>2, GateCases
  <2>2. CASE UNCHANGED <<db, owner, pc, left, found, base, said, verdict>>
    BY <2>2, QuietStep DEF Done
  <2> QED BY <2>1, <2>2, AcceptedSteps, OwnerSteps DEF Gated
<1>3. CASE UNCHANGED vars
  BY <1>3, QuietStep DEF Done, vars
<1> QED BY <1>1, <1>2, <1>3 DEF Next

LEMMA InitMaps == Init => Abstract!Init
<1> SUFFICES ASSUME Init PROVE Abstract!Init
  OBVIOUS
<1>1. IInv
  BY InitInvariant
<1>2. ASSUME NEW s \in Store PROVE Contents(s) = <<>>
  BY <1>2, ContentsOf DEF Init
<1>3. ASSUME NEW c \in Client PROVE Happened(c) = NoOutcome("pending")
  BY <1>1, HappenedTo DEF Init, Done
<1> QED BY <1>2, <1>3 DEF Abstract!Init

(* Sessions over several stores (multi-commit.lisp:50-66), next to updates *)
(* of one store, are transactions that happen one at a time.               *)
THEOREM Atomicity == Spec => SessionsAreAtomic
<1>1. Init => Abstract!Init
  BY InitMaps
<1>2. IInv /\ IInv' /\ [Next]_vars =>
        [Abstract!Next]_<<[s \in Store |-> Contents(s)], [c \in Client |-> Happened(c)]>>
  BY NextSteps DEF AbstractStep, TheMap, TheOutcomes
<1> QED BY <1>1, <1>2, Invariance, PTL DEF Spec, SessionsAreAtomic, Abstract!Spec
=============================================================================
