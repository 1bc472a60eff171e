-------------------------------- MODULE KVDB --------------------------------
(***************************************************************************)
(* The transactional key-value store of actors-extra/kvdb.lisp.            *)
(*                                                                         *)
(* A gate (TRANS-GATE-BEH, BUSY-TRANS-GATE-BEH) holds the database, a      *)
(* read-only table.  Clients read it, make a changed copy, and ask the     *)
(* gate to commit the copy; the gate refuses if the database is not the    *)
(* very object they started from, and gives them the present one to try    *)
(* again.  A client may own the commits for a while (:REQ-EXCL); commits   *)
(* of others are stashed meanwhile.  A saver (SAVE-DATABASE-BEH) writes    *)
(* deltas and full images to a file, from which the store is opened after  *)
(* a crash (UNOPENED-DATABASE-BEH, NASCENT-DATABASE-BEH).                  *)
(*                                                                         *)
(* Messages to the gate and to the clients arrive in any order (NET).      *)
(*                                                                         *)
(* The deltas in the file are self-synchronizing records.  The reader of   *)
(* self-sync.lisp takes a record that a crash has cut short for the end of *)
(* the file, and nothing removes it: what is appended later comes behind.  *)
(* The reader finds its way again at the next record, but for one case:    *)
(* where the cut record lacks just one byte of a segment it takes the      *)
(* first byte of the next record for that, and passes the next record over.*)
(***************************************************************************)
EXTENDS Naturals, Sequences, FiniteSets, SequencesExt

CONSTANTS
  Client,     (* the clients, each with one operation to do                *)
  Op,         (* Op[c]: its operation, see Operation below                 *)
  Key, Val,   (* what the tables hold                                      *)
  None,       (* the absence of a value, of an owner                       *)
  Ordered,    (* whether messages of the gate reach the saver in the order *)
              (* in which the gate's activations committed                 *)
  MaxCrashes  (* bound: how often the process may crash                    *)

Map == [Key -> Val \cup {None}]
Patches == UNION { [K -> Val \cup {None}] : K \in SUBSET Key }

(* :ADD, :REMOVE and :FIND-OR-ADD of one key, :FIND, maintenance, and a    *)
(* session with exclusive commits, asking for them once or twice.          *)
Operation ==
  [kind : {"add", "remove", "find-or-add"}, key : Key, patch : Patches]
    \cup [kind : {"find"}, key : Key]
    \cup [kind : {"session", "session-asks-twice"}, patch : Patches]
    \cup [kind : {"maint"}]

ASSUME OperationAssumption ==
  /\ Op \in [Client -> Operation]
  /\ None \notin Val \cup Client /\ "gate" \notin Client
  /\ Ordered \in BOOLEAN /\ MaxCrashes \in Nat

IsSession(c) == Op[c].kind \in {"session", "session-asks-twice"}

VARIABLES
  mode,       (* "down", "nascent" or "open"                               *)
  db,         (* the database of the gate: [id, ver, map, layered]         *)
  owner,      (* the client that owns the commits, or None                 *)
  stash,      (* the messages a busy or nascent gate keeps for later       *)
  net,        (* messages to the gate and to clients                       *)
  timers,     (* the ids of the databases whose save timer runs            *)
  toSaver,    (* messages to the saver                                     *)
  saver,      (* [last, job]: the database saved last; the write going on  *)
  file,       (* [ver, map, layered, torn, rest]: what the file yields     *)
              (* when read back, whether it has deltas that are read, what *)
              (* write is incomplete; and unless REST is empty the record  *)
              (* appended next is passed over, the file then yields REST   *)
  missed,     (* [keys, version]: keys whose last saved change is in a     *)
              (* record that is passed over, and whether the version is    *)
  pc,         (* pc[c]: how far client c is                                *)
  val,        (* val[c]: the answer c holds, or will get                   *)
  made,       (* how many database objects and versions were made          *)
  crashes,    (* how often the process crashed                             *)
  history     (* the databases there were since the file was opened        *)

gateVars   == <<mode, db, owner, stash>>
saverVars  == <<saver, file, missed>>
clientVars == <<pc, val>>
vars == <<gateVars, net, timers, toSaver, saverVars, clientVars, made, crashes, history>>

-----------------------------------------------------------------------------
(* Tables.                                                                 *)
Apply(map, patch) ==
  [k \in Key |-> IF k \in DOMAIN patch THEN patch[k] ELSE map[k]]

Present(map, k) == map[k] # None

(* FPL-SETHASH returns the table it was given if the value is there;       *)
(* FPL-REMHASH always returns a new one.                                   *)
Same(map, patch) ==
  \A k \in DOMAIN patch : patch[k] # None /\ map[k] = patch[k]

(* What the operation of c does to the database it read.                   *)
PatchOf(c, map) ==
  IF Op[c].kind = "find-or-add" /\ Present(map, Op[c].key)
    THEN [k \in {} |-> None]
    ELSE Op[c].patch

Image(d) == [ver |-> d.ver, map |-> d.map]
Table(d) == [ver |-> d.ver, map |-> d.map, layered |-> d.layered]

(* GET-DIFFS: removals, additions and changes, as a patch.                 *)
GetDiffs(old, new) == [k \in { k \in Key : old[k] # new[k] } |-> new[k]]

-----------------------------------------------------------------------------
EmptyMap == [k \in Key |-> None]
NoJob == [how |-> "none"]
AllRead == [keys |-> {}, version |-> FALSE]

Init ==
  /\ mode = "open"
  /\ db = [id |-> 0, ver |-> 0, map |-> EmptyMap, layered |-> FALSE]
  /\ owner = None
  /\ stash = <<>>
  /\ net = {}
  /\ timers = {}
  /\ toSaver = <<>>
  /\ saver = [last |-> Image(db), job |-> NoJob]
  /\ file = [ver |-> 0, map |-> EmptyMap, layered |-> FALSE, torn |-> "no", rest |-> {}]
  /\ missed = AllRead
  /\ pc = [c \in Client |-> "start"]
  /\ val = [c \in Client |-> None]
  /\ made = 0
  /\ crashes = 0
  /\ history = {Image(db)}

ToGate(kind, c) == [to |-> "gate", kind |-> kind, from |-> c]
CommitOf(c, d, patch) ==
  [to |-> "gate", kind |-> "commit", from |-> c, old |-> d.id,
   map |-> Apply(d.map, patch), same |-> Same(d.map, patch)]
DbTo(c, d)  == [to |-> c, kind |-> "db", db |-> d]
TellTo(c, what) == [to |-> c, kind |-> what]

-----------------------------------------------------------------------------
(* Clients.                                                                *)

Start(c) ==
  /\ mode # "down" /\ pc[c] = "start"
  /\ LET kind == IF IsSession(c) THEN "req-excl"
                 ELSE IF Op[c].kind = "maint" THEN "maint" ELSE "req"
     IN net' = net \cup {ToGate(kind, c)}
  /\ pc' = [pc EXCEPT ![c] = IF Op[c].kind = "maint" THEN "done" ELSE "reading"]
  /\ UNCHANGED <<gateVars, timers, toSaver, saverVars, val, made, crashes, history>>

Receive(c, m, next, ms) ==
  /\ m \in net /\ m.to = c
  /\ net' = (net \ {m}) \cup ms
  /\ pc' = [pc EXCEPT ![c] = next]
  /\ UNCHANGED <<gateVars, timers, toSaver, saverVars, made, crashes, history>>

(* :FIND answers from the database it read.                                *)
Find(c, m) ==
  /\ m.kind = "db" /\ Op[c].kind = "find"
  /\ val' = [val EXCEPT ![c] = m.db.map[Op[c].key]]
  /\ Receive(c, m, "done", {})

(* :ADD, :REMOVE and :FIND-OR-ADD send the commit of a changed copy.       *)
Change(c, m) ==
  /\ m.kind = "db" /\ Op[c].kind \in {"add", "remove", "find-or-add"}
  /\ Op[c].kind = "remove" => Present(m.db.map, Op[c].key)
  /\ LET patch == PatchOf(c, m.db.map)
     IN /\ val' = [val EXCEPT ![c] = Apply(m.db.map, patch)[Op[c].key]]
        /\ Receive(c, m, "committing", {CommitOf(c, m.db, patch)})

(* :REMOVE of a key that is not there: the UNLESS has no other branch.     *)
RemoveNothing(c, m) ==
  /\ m.kind = "db" /\ Op[c].kind = "remove"
  /\ ~Present(m.db.map, Op[c].key)
  /\ Receive(c, m, "silent", {})
  /\ UNCHANGED val

(* A session has its grant.  It changes its copy (the excl proxy) and      *)
(* commits or aborts.                                                      *)
Session(c, m) ==
  /\ m.kind = "db" /\ IsSession(c)
  /\ \/ /\ Op[c].kind = "session-asks-twice" /\ pc[c] = "reading"
        /\ Receive(c, m, "reading again", {ToGate("req-excl", c)})
     \/ /\ Op[c].kind = "session" \/ pc[c] = "reading again"
        /\ \/ Receive(c, m, "committing", {CommitOf(c, m.db, Op[c].patch)})
           \/ Receive(c, m, "committing", {ToGate("abort", c)})
  /\ UNCHANGED val

Told(c, m) ==
  /\ m.kind \in {"committed", "aborted"}
  /\ Receive(c, m, IF m.kind = "aborted" THEN "gave up" ELSE "done", {})
  /\ UNCHANGED val

ClientStep(c) ==
  \/ Start(c)
  \/ \E m \in net :
       /\ m.to = c
       /\ \/ Find(c, m) \/ Change(c, m) \/ RemoveNothing(c, m)
          \/ Session(c, m) \/ Told(c, m)

-----------------------------------------------------------------------------
(* The gate.  Handle(m, ms): message m is handled, ms are sent.            *)

Handle(m, ms) == net' = (net \ {m}) \cup ms

Keep(m) ==
  /\ stash' = Append(stash, m)
  /\ Handle(m, {})
  /\ UNCHANGED <<mode, db, owner, timers, toSaver, made, history>>

(* :REQ, in any open state: readers are never held up.                     *)
GateReq(m) ==
  /\ m.kind = "req"
  /\ Handle(m, {DbTo(m.from, db)})
  /\ UNCHANGED <<gateVars, timers, toSaver, made, history>>

GateReqExcl(m) ==
  /\ m.kind = "req-excl"
  /\ \/ /\ owner \in {None, m.from}
        /\ owner' = m.from
        /\ Handle(m, {DbTo(m.from, db)})
        /\ UNCHANGED <<mode, db, stash, timers, toSaver, made, history>>
     \/ /\ owner \notin {None, m.from}
        /\ Keep(m)

(* Mutant: the version given out is not used up.                           *)
InstallUnnumbered(m) ==
  LET n == made + 1
      new == [id |-> n, ver |-> n, map |-> m.map, layered |-> TRUE]
  IN IF m.same
       THEN UNCHANGED <<db, timers, made, history>>
       ELSE /\ db' = new
            /\ timers' = timers \cup {n}
            /\ history' = history \cup {Image(new)}
            /\ UNCHANGED made

(* A changed copy becomes the database, with a version of its own and a    *)
(* timer to save it in ten seconds.                                        *)
Install(m) ==
  LET n == made + 1
      new == [id |-> n, ver |-> n, map |-> m.map, layered |-> TRUE]
  IN IF m.same
       THEN UNCHANGED <<db, timers, made, history>>
       ELSE /\ db' = new
            /\ timers' = timers \cup {n}
            /\ made' = n
            /\ history' = history \cup {Image(new)}

(* Mutant: no look at the version the copy was made from.                  *)
GateCommitBlindly(m) ==
  /\ m.kind = "commit" /\ owner = None
  /\ Install(m)
  /\ Handle(m, {TellTo(m.from, "committed")})
  /\ UNCHANGED <<mode, owner, stash, toSaver>>

(* TRANS-GATE-BEH, :COMMIT.                                                *)
GateCommit(m) ==
  /\ m.kind = "commit" /\ owner = None
  /\ \/ /\ m.old = db.id
        /\ Install(m)
        /\ Handle(m, {TellTo(m.from, "committed")})
     \/ /\ m.old # db.id
        /\ Handle(m, {DbTo(m.from, db)})
        /\ UNCHANGED <<db, timers, made, history>>
  /\ UNCHANGED <<mode, owner, stash, toSaver>>

(* Mutant: the stash is forgotten.                                         *)
UnstashNothing(m, reply) ==
  /\ Handle(m, {reply})
  /\ owner' = None
  /\ stash' = <<>>

(* RELEASE: what was stashed is sent again, to a gate that is free.        *)
Unstash(m, reply) ==
  /\ Handle(m, {reply} \cup ToSet(stash))
  /\ owner' = None
  /\ stash' = <<>>

(* BUSY-TRANS-GATE-BEH, :COMMIT of the owner, who has the database.        *)
OwnerCommit(m) ==
  /\ m.kind = "commit" /\ m.from = owner /\ m.old = db.id
  /\ Install(m)
  /\ Unstash(m, TellTo(m.from, "committed"))
  /\ UNCHANGED <<mode, toSaver>>

OwnerAbort(m) ==
  /\ m.kind = "abort" /\ m.from = owner
  /\ Unstash(m, TellTo(m.from, "aborted"))
  /\ UNCHANGED <<mode, db, timers, toSaver, made, history>>

(* Mutant: commits of others go through while a client owns the commits.   *)
OthersCommitAnyway(m) ==
  /\ m.kind = "commit" /\ owner \notin {None, m.from} /\ m.old = db.id
  /\ Install(m)
  /\ Handle(m, {TellTo(m.from, "committed")})
  /\ UNCHANGED <<mode, owner, stash, toSaver>>

OthersWait(m) ==
  /\ \/ m.kind = "commit" /\ owner \notin {None, m.from}
     \/ m.kind = "maint" /\ owner # None
  /\ Keep(m)

(* MAINT-FULL-SAVE: a table with layers of changes is rebuilt as a new one.*)
GateMaint(m) ==
  /\ m.kind = "maint" /\ owner = None
  /\ \/ /\ db.layered
        /\ made' = made + 1
        /\ db' = [db EXCEPT !.id = made + 1, !.layered = FALSE]
     \/ /\ ~db.layered
        /\ UNCHANGED <<db, made>>
  /\ toSaver' = Append(toSaver, [kind |-> "full-save", db |-> Image(db)])
  /\ Handle(m, {})
  /\ UNCHANGED <<mode, owner, stash, timers, history>>

GateHandles(c) ==
  /\ mode = "open"
  /\ \E m \in net :
       /\ m.to = "gate" /\ m.from = c
       /\ \/ GateReq(m) \/ GateReqExcl(m) \/ GateCommit(m) \/ OwnerCommit(m)
          \/ OwnerAbort(m) \/ OthersWait(m) \/ GateMaint(m)
  /\ UNCHANGED <<saverVars, clientVars, crashes>>

(* Mutant: no save when the timer goes off.                                *)
SaveTimerIdle(i) ==
  /\ mode = "open" /\ i \in timers
  /\ timers' = timers \ {i}
  /\ UNCHANGED <<gateVars, net, toSaver, saverVars, clientVars, made, crashes, history>>

(* A save timer goes off.  It counts only if no update came in between.    *)
SaveTimer(i) ==
  /\ mode = "open" /\ i \in timers
  /\ timers' = timers \ {i}
  /\ toSaver' = IF i = db.id
                  THEN Append(toSaver, [kind |-> "save-log", db |-> Image(db)])
                  ELSE toSaver
  /\ UNCHANGED <<gateVars, net, saverVars, clientVars, made, crashes, history>>

-----------------------------------------------------------------------------
(* The saver.  It is behind a serializer: one message at a time.           *)

Writing(how, d) ==
  /\ saver' = [saver EXCEPT !.job = [how |-> how, db |-> d]]
  /\ file' = [file EXCEPT !.torn = how]

(* :FULL-SAVE starts an image.  :SAVE-LOG starts to append a delta, unless *)
(* the version is not newer; then the saver believes it saved all the same.*)
SaverTake(i) ==
  /\ mode = "open" /\ saver.job = NoJob
  /\ i \in DOMAIN toSaver /\ (Ordered => i = 1)
  /\ toSaver' = RemoveAt(toSaver, i)
  /\ LET m == toSaver[i]
     IN \/ /\ m.kind = "full-save"
           /\ Writing("image", m.db)
        \/ /\ m.kind = "save-log" /\ saver.last.ver < m.db.ver
           /\ Writing("delta", m.db)
        \/ /\ m.kind = "save-log" /\ ~(saver.last.ver < m.db.ver)
           /\ saver' = [saver EXCEPT !.last = m.db]
           /\ UNCHANGED file
  /\ UNCHANGED <<gateVars, net, timers, missed, clientVars, made, crashes, history>>

(* Appending fails: write an image instead.                                *)
DeltaFails ==
  /\ saver.job # NoJob /\ saver.job.how = "delta"
  /\ Writing("image", saver.job.db)
  /\ UNCHANGED <<gateVars, net, timers, toSaver, missed, clientVars, made, crashes, history>>

(* The file yields t, and what comes behind is read.                       *)
Yields(t) ==
  file' = [ver |-> t.ver, map |-> t.map, layered |-> t.layered, torn |-> "no", rest |-> {}]

(* What reading a delta makes of what was read before it.                  *)
WithPatch(d, patch) == [ver |-> d.ver, map |-> Apply(file.map, patch), layered |-> TRUE]

(* A record that sets keys is passed over: the file goes on with t.        *)
PassOver(t, keys, version) ==
  /\ Yields(t)
  /\ missed' = [keys    |-> missed.keys \cup keys \cup DOMAIN GetDiffs(file.map, t.map),
                version |-> missed.version \/ version]

(* The image or the delta is in the file.  A delta is what has changed     *)
(* since the saver saved last.                                             *)
WriteImage(d) ==
  /\ saver.job.how = "image"
  /\ Yields([ver |-> d.ver, map |-> d.map, layered |-> FALSE])
  /\ missed' = AllRead

(* Mutant: a delta without the removals.                                   *)
WriteDeltaWithoutRemovals(d) ==
  LET diffs == GetDiffs(saver.last.map, d.map)
      kept == [k \in { k \in DOMAIN diffs : diffs[k] # None } |-> diffs[k]]
  IN /\ saver.job.how = "delta"
     /\ \/ /\ file.rest = {}
           /\ Yields(WithPatch(d, kept))
           /\ missed' = [keys |-> missed.keys \ DOMAIN diffs, version |-> FALSE]
        \/ \E t \in file.rest : PassOver(t, DOMAIN diffs, TRUE)

WriteDelta(d) ==
  LET diffs == GetDiffs(saver.last.map, d.map)
  IN /\ saver.job.how = "delta"
     /\ \/ /\ file.rest = {}
           /\ Yields(WithPatch(d, diffs))
           /\ missed' = [keys |-> missed.keys \ DOMAIN diffs, version |-> FALSE]
        \/ \E t \in file.rest : PassOver(t, DOMAIN diffs, TRUE)

Written ==
  /\ saver.job # NoJob /\ mode = "open"
  /\ LET d == saver.job.db
     IN /\ WriteImage(d) \/ WriteDelta(d)
        /\ saver' = [last |-> d, job |-> NoJob]
  /\ UNCHANGED <<gateVars, net, timers, toSaver, clientVars, made, crashes, history>>

-----------------------------------------------------------------------------
(* Crash and restart.                                                      *)

(* A delta is cut short.  It is not read, and is found to be damaged where *)
(* the next record begins: or only behind that one, if it lacks a byte.    *)
(* Then the next may have given it the very byte it lacks.  A delta that   *)
(* is passed over anyway may be cut short as well.                         *)
CutShort(d) ==
  \/ /\ file' = [file EXCEPT !.torn = "no"]
     /\ UNCHANGED missed
  \/ /\ file.rest = {}
     /\ \E t \in {Table(file), WithPatch(d, GetDiffs(saver.last.map, d.map))} :
          file' = [file EXCEPT !.torn = "no", !.rest = {t}]
     /\ UNCHANGED missed
  \/ \E t \in file.rest : PassOver(t, {}, t.ver # file.ver)

(* The file stays, with what has been written of an image or a delta;      *)
(* clients that had no answer try again.                                   *)
Crash ==
  /\ mode # "down" /\ crashes < MaxCrashes
  /\ crashes' = crashes + 1
  /\ mode' = "down"
  /\ owner' = None
  /\ stash' = <<>>
  /\ net' = {}
  /\ timers' = {}
  /\ toSaver' = <<>>
  /\ IF saver.job.how = "delta" THEN CutShort(saver.job.db) ELSE UNCHANGED <<file, missed>>
  /\ saver' = [saver EXCEPT !.job = NoJob]
  /\ pc' = [c \in Client |-> IF pc[c] \in {"done", "gave up"} THEN pc[c] ELSE "start"]
  /\ UNCHANGED <<db, val, made, history>>

(* DB-SVC-INIT-BEH: the gate comes up and has the saver open the file.     *)
Restart ==
  /\ mode = "down"
  /\ mode' = "nascent"
  /\ UNCHANGED <<db, owner, stash, net, timers, toSaver, saverVars, clientVars, made, crashes, history>>

(* NASCENT-DATABASE-BEH accumulates the requests.                          *)
NascentKeeps ==
  /\ mode = "nascent"
  /\ \E m \in net : m.to = "gate" /\ Keep(m)
  /\ UNCHANGED <<saverVars, clientVars, crashes>>

(* Mutant: a new database for any file.                                    *)
RewriteAnyFile ==
  /\ mode = "nascent" /\ saver.job = NoJob
  /\ made' = made + 1
  /\ saver' = [saver EXCEPT !.job = [how |-> "open", db |-> [ver |-> made + 1, map |-> EmptyMap]]]
  /\ UNCHANGED <<gateVars, net, timers, toSaver, file, missed, clientVars, crashes, history>>

(* Restart CORRUPT-KVDB: an image that cannot be read makes way for the    *)
(* image of a new database.                                                *)
Rewrite ==
  /\ mode = "nascent" /\ file.torn = "image" /\ saver.job = NoJob
  /\ made' = made + 1
  /\ saver' = [saver EXCEPT !.job = [how |-> "open", db |-> [ver |-> made + 1, map |-> EmptyMap]]]
  /\ UNCHANGED <<gateVars, net, timers, toSaver, file, missed, clientVars, crashes, history>>

(* :OPENED.  The database is what the image and the deltas yield, to the   *)
(* end of the file or of what can be read; a delta cut short stays in the  *)
(* file.  Open for business: the clients' requests are sent again.         *)
Opened ==
  /\ mode = "nascent"
  /\ \/ /\ file.torn = "no"
        /\ UNCHANGED file
     \/ /\ saver.job # NoJob
        /\ Yields([ver |-> saver.job.db.ver, map |-> saver.job.db.map, layered |-> FALSE])
  /\ missed' = AllRead
  /\ mode' = "open"
  /\ made' = made + 1
  /\ db' = [id |-> made + 1, ver |-> file'.ver, map |-> file'.map,
            layered |-> file'.layered]
  /\ saver' = [last |-> Image(file'), job |-> NoJob]
  /\ history' = {Image(file')}
  /\ net' = net \cup ToSet(stash)
  /\ stash' = <<>>
  /\ UNCHANGED <<owner, timers, toSaver, clientVars, crashes>>

(* At rest: each client has its answer, but for a :REMOVE of nothing.      *)
Quiet ==
  /\ mode = "open" /\ net = {} /\ timers = {} /\ toSaver = <<>> /\ saver.job = NoJob
  /\ \A c \in Client : pc[c] \in {"done", "gave up", "silent"}
  /\ UNCHANGED vars

GateStep == \E c \in Client : GateHandles(c)
SaverStep == (\E i \in DOMAIN toSaver : SaverTake(i)) \/ DeltaFails \/ Written

Next ==
  \/ \E c \in Client : ClientStep(c)
  \/ GateStep
  \/ \E i \in timers : SaveTimer(i)
  \/ SaverStep
  \/ Crash \/ Restart \/ NascentKeeps \/ Rewrite \/ Opened
  \/ Quiet

Spec == Init /\ [][Next]_vars

(* Every message is handled, every timer goes off, every write ends, and   *)
(* the program is started again after a crash.                             *)
FairSpec ==
  /\ Spec
  /\ \A c \in Client : WF_vars(ClientStep(c)) /\ WF_vars(GateHandles(c))
  /\ WF_vars(\E i \in timers : SaveTimer(i))
  /\ WF_vars(SaverStep)
  /\ WF_vars(Restart) /\ WF_vars(Rewrite) /\ WF_vars(Opened)
-----------------------------------------------------------------------------
Messages ==
  [to : {"gate"}, kind : {"req", "req-excl", "abort", "maint"}, from : Client]
    \cup [to : {"gate"}, kind : {"commit"}, from : Client, old : 0..made,
          map : Map, same : BOOLEAN]
    \cup [to : Client, kind : {"db"},
          db : [id : 0..made, ver : 0..made, map : Map, layered : BOOLEAN]]
    \cup [to : Client, kind : {"committed", "aborted"}]

TypeOK ==
  /\ mode \in {"down", "nascent", "open"}
  /\ db \in [id : 0..made, ver : 0..made, map : Map, layered : BOOLEAN]
  /\ owner \in Client \cup {None}
  /\ net \subseteq Messages /\ ToSet(stash) \subseteq Messages
  /\ timers \subseteq 1..made
  /\ file.map \in Map /\ file.ver \in 0..made
  /\ file.torn \in {"no", "delta", "image"}
  /\ file.rest \subseteq [ver : 0..made, map : Map, layered : BOOLEAN]
  /\ missed \in [keys : SUBSET Key, version : BOOLEAN]
  /\ val \in [Client -> Val \cup {None}]

(* While a client owns the commits the database changes by its own commit, *)
(* which also ends the ownership (kvdb.lisp:355-406).                      *)
OwnerHoldsCommits ==
  [][owner # None /\ db' # db => owner' = None /\ pc[owner] = "committing"]_vars

(* "COMMIT (which always succeeds)": the owner's copy was made from the    *)
(* present database; the error "Should not happen" (kvdb.lisp:392-395)     *)
(* does not.                                                               *)
OwnerIsUpToDate ==
  \A m \in net : m.to = "gate" /\ m.kind = "commit" /\ m.from = owner => m.old = db.id

(* Optimistic commits and exclusive sessions together look like operations *)
(* that happen one at a time, each on the whole table.                     *)
OutcomeOf(c, map) ==
  CASE Op[c].kind = "find" -> map[Op[c].key]
    [] Op[c].kind = "find-or-add" -> Apply(map, PatchOf(c, map))[Op[c].key]
    [] OTHER -> "told"

EffectOf(c, map) ==
  IF Op[c].kind \in {"find", "maint"} THEN map ELSE Apply(map, PatchOf(c, map))

Happened(c) ==
  CASE pc[c] = "gave up" \/ TellTo(c, "aborted") \in net -> "aborted"
    [] Op[c].kind = "find" /\ \E m \in net : m.to = c ->
         (CHOOSE m \in net : m.to = c).db.map[Op[c].key]
    [] pc[c] = "done" \/ TellTo(c, "committed") \in net ->
         IF Op[c].kind \in {"find", "find-or-add"} THEN val[c]
         ELSE IF Op[c].kind = "maint" THEN "pending" ELSE "told"
    [] OTHER -> "pending"

Abstract == INSTANCE AtomicMap WITH
  map <- db.map, outcome <- [c \in Client |-> Happened(c)],
  Pending <- "pending", Aborted <- "aborted", Empty <- EmptyMap, Outcome <- OutcomeOf, Effect <- EffectOf

Serializable == Abstract!Spec

(* Every client has an answer in the end, retries and stashes              *)
(* notwithstanding.                                                        *)
EveryoneTold == \A c \in Client : pc[c] = "reading" ~> pc[c] \in {"done", "gave up"}

(* What is read of the file is what is in d, but for what is passed over.  *)
Agrees(f, d) ==
  /\ \A k \in Key \ missed.keys : f.map[k] = d.map[k]
  /\ missed.version \/ f.ver = d.ver

(* What the file yields is what the saver saved last: base image and       *)
(* deltas add up, also those that come behind a delta cut short            *)
(* (kvdb.lisp:429-460, 638-662).  Only the changes in a record that is     *)
(* passed over are missing, and only after a crash.                        *)
FileAddsUp ==
  file.torn # "image" => Agrees(file, saver.last) /\ (crashes = 0 => missed = AllRead)

(* What the file yields has been the database since the file was opened,   *)
(* unless changes are missing.                                             *)
FileWasCommitted ==
  file.torn # "image" /\ missed = AllRead => Image(file) \in history

(* A restart brings back what was saved last, but for the changes that are *)
(* passed over, unless the crash hit an image being written                *)
(* (kvdb.lisp:567-613).                                                    *)
ReopensLastSaved ==
  [][mode = "nascent" /\ mode' = "open" /\ file.torn # "image"
       => Agrees(db', saver.last)]_vars

(* Ten quiet seconds after the last update the file is up to date, but for *)
(* the changes that are passed over.                                       *)
SavedInTheEnd == <>[](mode = "open" /\ file.torn = "no" /\ Agrees(file, db))
=============================================================================
