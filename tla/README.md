# A verification development for Lisp-Actors

Lisp-Actors is a Common Lisp implementation of the Actor model after Hewitt
and Agha: Actors are mutable cells that hold a behaviour function; `SEND` and
`BECOME` are transactional; a pool of threads executes messages taken from one
central mailbox.  On top of that kernel the repository builds services
(serializers, futures, timers, custodian), a transactional key/value store
with a persistent image, Reppy-style channels, and a secure network layer.

This directory holds TLA+ specifications of that system, the TLC models that
check them and TLAPS proofs about them.  The reference is the code under
`src/xTActors/`, the generation that `com.ral.actors` loads.

## 1. Inventory

### 1.1 Components

| Component | Source (`src/xTActors/...`) | State it keeps | Operations |
|---|---|---|---|
| Dispatcher | `actors-base/actors-mstr.lisp`, `actor-types.lisp` | `*central-mail*`; `actor-beh` of each Actor; per thread: event in hand, staged `sends`, `pend-beh`, `done` of an ASK | `send`, `become`, `abort-beh`, `run-actors`, `ask`, error response and restarts |
| Primitive Actors | `actors-base/prim-actors.lisp`, `par-xlate.lisp` | the behaviour of each small Actor | `once`, `tag`, `race`, `timed-gate`, `future`, `lazy`, `fork`/`join`, `ser`, `sequenced-beh`, `watchdog-timer`, `send-after`, pipes, membranes |
| Serializer | `actors-base/serializer.lisp` | idle/busy; the tag of the current busy period; the queue of waiting messages | accept or queue a message; accept the reply of the service; timeout |
| Queue | `actors-base/cheapq.lisp` | front list, rear list | `addq`, `pushq`, `popq`, `normq`, `emptyq?` |
| Startup, custodian | `actors-base/startup.lisp`, `actors-mstr.lisp:117-128` | `*SEND*`, `*CENTRAL-MAIL*`, the list of dispatch threads | `startup-send`, `:add-executive(s)`, `:ensure-executives`, `:kill-executives`, `:get-threads` |
| Single-thread send | `actors-base/st-send.lisp` | a local event queue for one call | `stsend`, `call-actor` |
| Key/value store | `actors-extra/kvdb.lisp`; its reader, `lisp-object-encoder/self-sync/self-sync.lisp` | the current database version; the owner of an exclusive commit and its queue; the saver's last saved database; the file | `:find`, `:add`, `:remove`, `:commit`, `:req-excl`, `:commit-excl`, `:abort`, `:save`, `:save-log`, `:full-save`, open, orchestrator, proxies |
| Multi-store commit | `actors-extra/multi-commit.lisp` | the ordered list of stores to lock | request exclusive commits in order, finish or roll back |
| Orchestrator | `actors-extra/kvdb.lisp` | the open stores, by the inode of their files | `:make-kvdb`, `:update-entry`, `:remove-entry` |
| Resource handling, reactive, filer | `actors-extra/resource.lisp`, `reactive.lisp`, `actors-base/filer.lisp` | cleanup Actors, cached values, open files | open/close, dataflow update |
| Reppy channels | `Reppy/sync-msg.lisp` | waiting senders and receivers of a channel | `sync`, `send-evt`, `recv-evt`, `choose-evt`, `timeout-evt` |
| Connections | `secure-channel/network-connection-ss.lisp` | the list of connection records; of each socket the count of I/O, the writer's gate, the kill timer | find or add a socket, connect, accept, negotiate, set channel, write, read, shut down, remove |
| Framing | `secure-channel/self-sync-actors.lisp`, `encoding.lisp` | the decoder's state machine and its queue of packets; the history of packet numbers; the chain of half-assembled messages | write a record, decode, check for replays, chunk, dechunk |
| Local services | `secure-channel/secure-bridging.lisp`, `secure-client.lisp`, `secure-server.lisp` | services by id, lasting and ephemeral, with their removals under way | list, use, remove; handshake, proxies |
| Lock-free data | `data-objects/` (MCAS, lock-free bag) | descriptors | multi-word CAS |

Older generations of the same code (`Actors/`, `TActors/`, `StActors/`,
`xTActors/Old/`) and vendored libraries are not part of the system that is
loaded and are not modelled.

### 1.2 How the components interact

Everything above the dispatcher is a set of Actors that interact only by
messages.  The dispatcher is the single place with shared memory: threads
share the mailbox (`mp:mailbox`, thread-safe) and each Actor's behaviour slot,
changed by compare-and-swap.  Client threads enter by `send` (foreign) or
`ask`, which makes the client a dispatcher until its answer is there.
Replies go to customer Actors given in the message (continuation passing).
Timers are foreign threads that `send`.

Nothing but the dispatcher's threads, timers and sockets runs outside of
Actors.  For whatever is written as Actors, the abstract Actor model is
therefore the right level: one message is one indivisible step, messages are
handled in any order, each once.  The dispatcher is shown to provide exactly
that, and the other modules start from it.

### 1.3 What is hard in it

* **Optimistic activations.**  Threads run the same Actor at once and retry when
  the compare-and-swap of its behaviour fails; frames are recycled while they
  are retried; a thread may keep its own chain of messages to itself.
* **Asking from outside.**  A client that asks is a dispatcher for a while; its
  answer may be stored by another thread.
* **Replies that do not come, come late, or come twice.**  Serializers, forks,
  futures, the key/value proxies and the network all wait for one message.
  Timeouts race with answers.
* **Optimistic and exclusive transactions together**, with stashed commits.
* **A file written in two forms** (image, deltas) by a saver that gets its
  messages in whatever order, and a crash at any time.
* **Rendezvous with choice**, where two branches meet partners at once.
* **Packets and chunks** that come doubled, interleaved and out of order, put
  together by parallel activations; a socket closed by whoever is last.

`PROJECT.json` lists the hazards with their lines.  Smaller ones that are left
to their modules: a doubled `:READY` (`prim-actors.lisp:440`), a doubled answer
to a join (`par-xlate.lisp:260`), a future that gets its value while customers
arrive (`prim-actors.lisp:113`), the rollback of the single-threaded send
(`st-send.lisp:100`), the inactivity timer of open files (`filer.lisp:74`), the
second branch of a choice (`sync-msg.lisp:195`), start patterns at the boundary
of a segment (`self-sync-actors.lisp:124`), helpers of a multi-word
compare-and-swap (`mcas-v4.lisp:90`).

### 1.4 What makes each component correct

| Component | Properties |
|---|---|
| Dispatcher | each message in one place and handled once; handling looks indivisible; an error leaves no trace but its reply; every message is handled while a thread is left; an asker with an answer leaves |
| Serializer | one request at a time is let through, in order of arrival, one answer each; stray answers are harmless; nobody waits for ever if services answer or there is a timeout |
| Queue, hash table | behave as a sequence, as a map |
| Key/value store | operations look indivisible; the owner of commits is not disturbed and commits on the present database; everyone is told; file = what was saved last = something that was committed, but for deltas passed over after a crash; a restart brings it back; the last update is saved in the end |
| Multi-store commit | a session looks like one transaction on all of its stores; sessions end, in whatever order the stores get their ids; the customer is told when all stores are free |
| Orchestrator | one store for a file (violated) |
| Channels | offers meet in pairs; a customer is told once and of what happened; partners do not both wait for ever; time limits are kept |
| Framing | decoder output is encoder input, in order, and all of it; a message is given once however its packets are doubled and jumbled; it is given whole (violated) |
| Connections | one live socket for an address; the count of I/O is its users; a closed socket is news to the list; nobody waits on a dead record; what is not read any more goes |
| Local services | an id is found as long as it is used and goes afterwards |
| Primitives (planned) | a future tells each customer once, the same value; a join answers with both results; a race answers once |
| Startup, custodian | at rest, the list of threads is the set of threads that run; a message that was sent is taken by one (it need not be: section 6) |
| Single-threaded send (planned) | implements the abstract Actor model |
| Store proxies (planned) | updates of a copy are tried again on the database that won |

## 2. Plan

The order follows dependence and weight: the kernel first, what is built on it
next, then the network and the rest.

| Step | Modules | Composes | Abstract specification |
|---|---|---|---|
| done | `Dispatcher`, `DispatcherProofs` | | `ActorModel` |
| done | `Serializer`, `SerializerProofs` | gate, label, tag, timer of the primitives | `SerialService` |
| done | `CheapQ`, `FplHashtable` | | a sequence, a map (in the module) |
| done | `KVDB`, `KVDBProofs` | gate, saver behind its serializer, file, clients | `AtomicMap` |
| done | `MultiCommit`, `MultiCommitProofs` | several gates, fork, action Actor | `AtomicMap`, over the maps of all stores |
| done | `Orchestrator` | its serializer, full saves | |
| done | `SyncChan`, `SyncChanProofs` | channel, ports, choice, timeouts | `Rendezvous` |
| done | `SelfSync`, `StreamDecoder`, `Dechunker`, `ReaderProofs` | writer of records, decoder, replay check, chain of assemblers | the list of messages written (in the module) |
| done | `Connections`, `ConnectionsProofs` | list, socket, reader, writer, shutdown | |
| done | `LocalServices` | list and timers | |
| done | `Startup` | foreign threads, custodian behind its serializer, executives | |
| done | `PartsProofs` | theorems about `CheapQ`, `FplHashtable`, `LocalServices`, `Startup` | |
| next | `Primitives`, `Watchdog` | future, lazy, fork/join, sequenced delivery | single assignment |
| next | `StoreProxy` | proxies over the gate of `KVDB` | `AtomicMap` |
| next | `StSend` | | `ActorModel` |
| last | filer, reactive cells, `MCAS` | | |

Theorems planned: those of the modules still to be written.  Every invariant and every
action property that the runs check has a theorem (section 5); liveness has none (section 5.9).

Runs: one for each question, small enough to be repeated at every change.  Safety
and liveness of one component share a run where their bounds agree; small
components share one (`parts`, `reader`), with an initial choice of which of
them is exercised.

## 3. The modules and the code

### 3.1 `Dispatcher` (`actors-mstr.lisp`), implementing `ActorModel`

| Variable | In the code |
|---|---|
| `mailbox` | `*central-mail*`; an entry is a chain of frames by `msg-link` |
| `beh[a]` | `actor-beh`; represented by the messages whose `BECOME` led to it. Every `BECOME` installs a new closure, so `EQ` of behaviours is equality of these sequences |
| `pc[t]` | where thread `t` is in `RUN-ACTORS` |
| `evt[t]` | `evt` and what its `msg-link` leads to |
| `seen[t]`, `pend[t]`, `sends[t]` | `self-beh`, `pend-beh`, `sends` |
| `done` | the askers whose `DONE` is set |
| `finished` | history: messages whose handling is over |

One action per access to shared state: taking from the mailbox (`Read`), putting
the rest of a chain back (`Spill`), reading the behaviour (`Retry`), the
compare-and-swap (`Commit`, `CommitFails`), the test of the mailbox
(`FlushToMailbox`, `GrabOwnSends`), posting (`Post`).  Running the behaviour
(`Apply`) touches nothing shared, but for the `ME` Actor of an `ASK`, whose
`SETF DONE` is not staged.  Errors (`Err`) may happen in any handling; the
handler of `WITH-ERROR-RESPONSE` discards the staged and posts its reply
directly; then a restart is taken: next event, or the end of the thread.

Behaviours are a parameter: `Chains[m]` is what handling `m` may send.  A message
is an individual that is sent once; a tree of them (`Parent`) makes a world.
Frames are not modelled apart from the messages in them: reuse of a frame shows
as a chain that is linked in two places, which `OnePlace` excludes.

`ABORT-BEH` called by a behaviour that goes on, is a behaviour with fewer sends,
and is covered by `Chains`.

### 3.2 `Serializer` (`serializer.lisp`, `prim-actors.lisp`), implementing `SerialService`

Messages are a set: the order of delivery is free.  The chain from the service
back to the serializer is gate (`ONCE`), label, tag.  Label and tag never change
state and forward at once, so their hops are part of the gate's step (`Pass`);
taking them apart only delays a message.  Starting the timer is likewise part of
`TimedService`.  A tag is named after the request that opened the busy period.
The service is external: it starts work, may make a request of its own to
another serializer and wait for its answer, and answers; a faulty one answers
more than once, or never.

### 3.3 `KVDB` (`kvdb.lisp`), implementing `AtomicMap`

| Variable | In the code |
|---|---|
| `mode` | behaviour of the gate: none yet, `NASCENT-DATABASE-BEH`, `(BUSY-)TRANS-GATE-BEH` |
| `db` | the database: `id` is the identity of the object (`EQL`), `ver` the version key, `layered` whether it has a list in front of its hash table |
| `owner`, `stash` | parameters of `BUSY-TRANS-GATE-BEH` |
| `net`, `toSaver` | messages under way, to gate and clients, and to the saver |
| `timers` | the ten-second timers (`SEND-AFTER 10`) |
| `saver.last` | `last-db` of `SAVE-DATABASE-BEH` |
| `saver.job`, `file.torn` | a write that has begun; what a crash leaves of it |
| `file` | what reading the file back yields |
| `file.rest` | empty, unless a delta that was cut short will make the reader pass over the next record; then what the file may yield after that |
| `missed` | the keys (and the version) whose last saved change is in a delta that the reader passes over |

An image or delta is written in two steps (begin, end), with a crash, or a failed
append, possible in between.  `Crash` clears everything but the file; `Restart`,
`Rewrite`, `Opened` are `UNOPENED-DATABASE-BEH` with its restarts.

What is left of an image that was cut short cannot be read: `Rewrite` is the restart
`CORRUPT-KVDB`.  A delta that was cut short is no error to the reader
(`self-sync.lisp:245-293`): at the end of the file it yields `:EOF`, so that the loop in
`UNOPENED-DATABASE-BEH` ends as usual (`kvdb.lisp:584-585`).  The store opens with what was
read before, the remains stay in the file, and later deltas are appended behind them
(`446-453`).  There the reader finds the start sequence `FE FD` of the later delta, drops
the remains and reads on, with one exception: if the remains lack just one byte of a
segment, the reader takes the `FE` for that byte, and does not see the start sequence.  Then the
later delta is passed over; and if the missing byte was the last of the record, and an `FE`,
the older delta is complete after all.  `CutShort` takes both into account
(`file.rest` holds the two possible outcomes), and `WriteDelta` and `PassOver` what comes
of it.  The restart `CORRUPT-DELTAS` (`605`) is not reached by way of a delta cut short.

The ids and versions are one counter, `made`: UUIDs of version 1 increase in
time.  Clients retry by the Actor they give as `retry`, which runs the operation
again on the database it is sent.

### 3.4 `CheapQ`, `FplHashtable`

The operators are the functions of the files; each module also has a
small machine that applies them in any sequence next to a plain sequence or
map.  They justify the abstractions in the modules above: the queue
of a serializer is a sequence (`queue`), a database is a function (`db.map`).  The one
exception is the value `NIL` (section 6); `KVDB` uses other values.

### 3.5 `MultiCommit` (`multi-commit.lisp`, `kvdb.lisp`), implementing `AtomicMap`

| Variable | In the code |
|---|---|
| `db[s]` | the database of store `s`: who changed it, in which order (`log`), and its `KVDB-SEQUENCE` (`id`), which older files lack |
| `owner[s]` | the owner of the commits of `s` (`BUSY-TRANS-GATE-BEH`) |
| `net` | messages to the gates |
| `pc[c]`, `left[c]` | how far a session is; the stores it waits for (the `FORK`s of `SORT-KVDBS` and `TERMINATE-SESSION`, the recursion of `EXCL-COMMITS`) |
| `found[c]` | the ids it was told, by which it sorts |
| `base[c]` | the databases its exclusive proxies hold |
| `said[c]`, `verdict[c]` | answers of the action Actor to the handler; the one it took |

The gates are those of `KVDB` without files.  There, messages to a busy gate are stashed
and sent again when it is free; here they wait.  `KVDB` shows that they
are served (`EveryoneTold`).  The hops of proxies and of the fork, which hold no
state that matters, are part of the gate's step.  `SessionsAreAtomic` takes the
databases of all stores as one map: a session whose commits are still on their
way counts as having happened when its handler decided, since it holds all its
stores then.

### 3.6 `Orchestrator` (`kvdb.lisp`)

One file, known by its inode.  `entries` are the `open-dbs`; `Find` and `Make`
are `:MAKE-KVDB`, `FullSave` is the renaming and writing in `FULL-SAVE`,
`UpdateEntry` the handling of its message.  Each handling is one step, since the
orchestrator is behind a serializer.  `:REMOVE-ENTRY` has no action: its only sender
stages it in an error handler, from where it is never sent (section 6).

### 3.7 `SyncChan` (`sync-msg.lisp`), implementing `Rendezvous`

| Variable | In the code |
|---|---|
| `line[c][d]` | the read or write port of a channel, a `SERIALIZER` around its control Actor |
| `ctrl[c]` | the behaviour of the control Actor: `SYNC-CHAN-BEH`, or waiting for the partner of this offer |
| `kill`, `timer` | the `KILL` gate of a `TIMEOUT-EVT` and its timer, around an event or a whole `SYNC` |
| `rcvr[s]` | the `RCVR` of a choice: how many failures it still takes, 0 once it is a sink |
| `told[s]`, `met` | what the customers were told; history of the pairs that met |

A `SYNC` makes one offer for each event of its choice, each once.  `:RESET`
travels as in the code, to a control Actor that does not react to it
(section 6); `Meet` and `Wait` are its clauses.  `Meetings` is the refinement:
each step is a meeting of two offers, an answer to a customer, or nothing.

### 3.8 `SelfSync`, `StreamDecoder`, `Dechunker`, together in `MCReader`

`SelfSync` holds the two conversions as functions: `Record` writes a message as
segments without the start sequence, behind a length, a checksum and a header;
`Inhale` is the state machine that takes one byte (`SSFSM-BEH`) and
`InhaleAll` runs it over a buffer.  The radix is a parameter (`Base`), and so are the
start bytes and the checksum.  `FramingAssumption` says that the start bytes are no counts, and
that checksum and length fit a short segment.

`StreamDecoder` is `RD-CALLBACK-FN`, which numbers packets (`ctr`), and the
decoder: `mode`, `waitIx` and `queue` are its behaviour and parameters, `atFsm`
and `next` the messages to and from the state machine, `fsm` its state.  When the machine
fails its activation sends nothing, neither messages found earlier in the packet nor `:NEXT`.

In `Dechunker`, `chain` are the Actors of `DECHUNK-PENDING-BEH` and
`DECHUNK-INTERCEPTOR-BEH` in front of `NULL-DECHUNK-BEH`; `travel` the packets on
their way along it; `seqs` the history of the replay check; `assembling`,
`seen`, `copying`, `copied` the assemblers and the Actors that copy.  Packets are
numbers and kinds: their encryption is a pure function, and makes forged
ones impossible, not replayed ones.

### 3.9 `Connections` (`network-connection-ss.lisp`)

| Variable | In the code |
|---|---|
| `list[a]` | the `CONNECTION-REC` of an address: its state, whether it is reserved for an accepted socket, its channel, the customers who wait |
| `client[c]` | what the customer of `:FIND-SOCKET` knows |
| `stage[s]` | how far a socket is: connecting, to be added, open, shaking hands, secured |
| `net` | messages to the list, and the first request for a shutdown |
| `io[s]` | `IO-RUNNING` |
| `reader`, `writer`, `queued`, `gate` | the asynchronous reader; `PHYSICAL-WRITER-BEH` behind its serializer, with what waits there; `WRITER-GATE-BEH` |
| `ending` | the callback that has taken the count to zero, and has not closed the socket yet |
| `shut`, `closed` | the shutdown, which is wrapped in a `ONCE`; what was done to the socket |

The list is an Actor: each message to it is one action (`FindNone`, `FindRec`,
`AddServer`, `AddSocket`, `Abort`, `Negotiate`, `SetChannel`, `Remove`).  The
count is shared memory, changed in the threads of Actors and of I/O callbacks:
`PhysWrite` is its compare-and-swap.  `DECR-IO-COUNT` is two actions, the decrement
(`DecrIoCount`, in `ReadError`, `WriteOk` and `WriteFail`) and, if that yields zero, `Close`; the
shutdown is three, which read the count (`ShutdownBegin`), set it (`ShutdownReset`), and abort
the socket (`ShutdownEnd`, in which its `SEND`s go as well).
The handshake is one step, `HandshakeDone`, which comes with what the reader reads.

### 3.10 `LocalServices` (`secure-bridging.lisp`)

`copies` counts the pairs of an id on the list (they are alike, and a
removal takes one); `timers` are the removals under way; `toList` what
`CLIENT-MARSHAL-ENCODER` still has to list before the message goes out; `net`
what the peer has sent to an id.  `fresh` is history: the time left since the id was listed
or used.  Time passes by `Tick`; a timer whose time is up may act late.

### 3.11 `Startup` (`startup.lisp`, `actors-mstr.lisp`)

`sendFn` is `*SEND*`; `boxes` are the central mailboxes made so far, `*CENTRAL-MAIL*`
the last; `execs[e]` is the mailbox executive `e` sleeps in.  `STARTUP-SEND` is two
actions and a call, because other foreign threads run in between.  `CALL-ACTOR`
runs the custodian in the calling thread: `busy` is the thread that does, `queue` the
requests which other threads left at its `SERIALIZER`, `task` what is next to be done
there.  The start of a thread in `:ADD-EXECUTIVE` and the `BECOME` after it are two
actions, `AddExecutive` and `Become`.  What executives do with messages is
module `Dispatcher`.

## 4. What is checked

| Run | Question | States |
|---|---|---|
| `dispatcher` | Is each message in one place, handled once, and does it all look indivisible?  Does each message get handled, and does the asker leave? | 86 thousand |
| `serializer` | One service held while another is used, whose serializer has a timeout and whose service may be faulty: one at a time, in turn, one answer each, nobody waits for ever | 156 thousand |
| `kvdb_trans` | Two sessions, a find-or-add and a reader: undisturbed ownership, atomic operations, everyone told | 72 thousand |
| `kvdb_save` | A key added, removed, and maintenance, with up to two crashes: is the file what was saved last and once committed; is it read back; is the last update saved?  (But for deltas that are passed over behind one cut short.) | 325 thousand |
| `channels` | A choice, a competing receiver and a sender, with time limits: meetings in pairs, true answers, no two partners that wait | 33 thousand |
| `reader` | Packets of a stream, cut and jumbled; packets of messages, doubled and jumbled: everything comes out once, in order | 252 thousand |
| `connections` | Two clients, a peer and every kind of failure at one address: one live socket, counted right, nobody left behind | 198 thousand |
| `parts` | Queue, hash table, sessions over several stores, ephemeral services, start and kill of the system, each by itself | 147 thousand |
| `kvdb_reorder`, `framing_crc`, `dechunk_whole`, `two_stores` | Statements of comments that the code does not keep; section 6 | |

Every property of a passing run has a mutant, a plausible error in one of the
definitions (named `Mutant:` in the modules), under which the run fails.

### 4.1 Bounds and why they are enough

* `MCDispatcher`: two pool threads, one asker, six messages (the request with a
  chain of two, one of which answers; a foreign message whose handling sends one
  or fails with a reply; an Actor that up to four messages try to change).  Two
  threads are needed for a failed compare-and-swap, a third to take the
  asker's answer; a chain of two for `Spill`.  No constraint is set: the tree of
  messages is finite.
* `MCSerializer`: two serializers because of nesting; three requests at `B` so that one
  works, one waits and one arrives, and one of the services is faulty.  A service that
  answers more than twice adds nothing: the gate is shut after the first.
* `MCKVDB`: two sessions (one asks for its grant twice) to contend for
  ownership, a find-or-add that must retry, a reader, on a key they all
  share and one they do not.  The same properties but liveness hold with an
  `:ADD` as a fifth client (2.2 million states; take all of
  `TransOps`).  For the file: an addition, a removal, and maintenance are the least that
  gives an image and deltas with removals; `MaxCrashes = 2` allows a crash during recovery
  from a crash, and a second delta cut short behind the first.  The timers are untimed: they go off at any time.
* `MCSyncChan`: two channels because of the choice; on one of them two receivers
  and a sender, so that the loser of the choice may be in the way of
  another; a time limit on a branch of the choice and on a whole `SYNC`.
* `MCReader`: `Base = 5` makes segments of length up to 24 and messages that fill
  more than one; bytes are ordinary or those of the start sequence.  All messages
  of up to three bytes, one with start sequences in all positions, one with 29
  bytes, and pairs; packets of 4 and 9 bytes end at every place of a record.
  For the dechunker one small message and two in `Chunks = 2` chunks; `Window = 2`
  packets under way at a time; one `Resent` under new numbers.
* `MCConnections`: two clients for joining a record, one socket of ours and one of
  the peer's that contend for the address, two writes on ours so that one queues
  behind a failure, none on the peer's.  The proofs of section 5.2 hold without these bounds.
* `MCParts`: `MaxLen = 5` turns the rear list of the queue around more than once;
  `MaxLayers = 4` allows a key to be added, removed, added and removed again
  before a rebuild.  Two sessions over two stores that would give ids in opposite orders,
  and a writer of one of them; all, some or none of the stores have ids.  (A ring
  of three sessions over three stores was explored as well: 521 thousand states.)
  Two ids of one message, a lasting and a brief service; `Ttl = 2` leaves a removal
  of an earlier use under way when a later use comes; `MaxAnswers = 2` uses of each.
  Two first `SEND`s and a kill for `Startup`, with two executives to be started.
  Deadlock is not an error there: parts come to their bounds and stop.  In
  `two_stores` one full save suffices.

### 4.2 Fairness and why the code justifies it

* `Dispatcher`: weak fairness of each thread's steps: the operating system
  schedules threads.  Foreign senders have none.  A pool thread may end by an
  error (someone must choose that restart), so messages are promised to be handled only
  as long as some thread is left.  Handling may fail for ever for no message: it
  is handled once.  A retry is possible only if another thread committed, and
  commits are finitely many in the model; that retries come to an
  end for unbounded traffic is not claimed.
* Everything above it: weak fairness of the handling of each message, of timers,
  of writes, of the saver.  This is `EveryMessageHandled` of the dispatcher.  It is given
  for each request, client or socket, since the mailbox is a queue that starves
  nobody.  A service answers unless faulty; a stopped process is started again.
  A session commits or aborts in the end: "customer must promise to either
  :commit or :abort" (`kvdb.lisp:318`), and so does an action Actor
  (`multi-commit.lisp:127-129`).
* `SyncChan`: messages and timers; nobody has to `SYNC`.
* `MCReader`: the network delivers, and messages are handled.
* `Connections`: messages, the timeout of an attempt to connect, and the threads that close
  a socket or shut it down go on.  The inactivity timer has fairness only while nothing is read: reads
  start it again.  The peer, and the end of a write, have none: `WaitsOnlyForPeer`
  and `DeafIsRemoved` are stated without them.
* `LocalServices`: messages, timers, time.  The peer has none.
* Crashes, failed appends, errors of readers and writers have no fairness.

### 4.3 Assumptions that are not checked

* `Ordered = TRUE` in `kvdb_save`: the messages of the gate to the saver arrive
  in the order sent.  The code does not guarantee that; `kvdb_reorder` shows
  what happens without.
* A crash cuts the record that was being written short, anywhere, and changes nothing else; the
  file system keeps what was written.  An image cut short is recognised as such when read.
  In what is passed over no start sequence occurs but those of records (`self-sync.lisp:46`);
  checksums that contain one are item 2 of section 6.
* `reader` runs with checksums in which no start sequence occurs; `framing_crc` shows what happens
  otherwise.  `DecodesInOrder` (section 5.8) holds for any checksum; it is the end of the stream
  that such a checksum prevents.
* A session over several stores names each of them once.  Named twice, the
  store would be granted twice to its owner and released once; the second commit
  would be taken for that of a stranger.
* Ids made by different clients differ, as UUIDs do.

## 5. What is proved

All theorems are checked by TLAPS for arbitrary sets in place of the small ones of the
runs, from the assumptions named in the modules.

### 5.1 `DispatcherProofs`

Assumed in `Dispatcher`: askers are threads; messages have one parent, and chains
list distinct children of the message that sends them; distinct askers have
distinct requests.

* `TypeCorrect`: `Spec => []TypeOK`.
* `MessagesInOnePlace`: `Spec => []OnePlace`.
* `Implementation`: `Spec => HandledAtomically`, that is, `Dispatcher`
  implements `ActorModel` with `pending` as defined in `Dispatcher`.

`OnePlace` alone is not inductive.  It says nothing about what a thread is about to
link (`sends` in `commit`), nor about messages that do not exist yet.  The
invariant `IInv` adds

* `Registers`: at each location what `evt`, `seen`, `pend` and `sends` hold, such as
  that what a thread commits is one of the chains of its message, and the
  behaviour it installs is the one it read with its message appended;
* `BornAfterParent`: a message that exists has a parent that is finished.  When
  a thread commits, its message is still pending (`OnePlace`), hence not
  finished, hence none of its children exists: the new chain is disjoint from
  everything, and no message can come back.

The proof goes in three layers: facts about sequences (`ChainSplit` to
`TakeChain`); types and registers (`ShapeStep`, one step for each action);
the movement of chains (`TakeMoves`, `SpillMoves`, `PostMoves`, `FinishMoves`, `NewMoves`), from
which `StepOutcome` gets for each step both `OnePlace'` and its meaning in
`ActorModel`: nothing, `Inject`, `Handle` or `Fail`.  The compare-and-swap matters
in one place: `beh[Self(t)] = seen[t]` makes the new behaviour the old one with the message appended,
as `Handle` demands.

### 5.2 `ConnectionsProofs`

Assumed in `Connections` (`SocketAssumption`): sockets lead to, and clients want,
addresses; the absence of a socket or a record is none.

* `TypeCorrect`: `Spec => []TypeOK`, with the bounds of the counters.
* `OneSocket`: `Spec => []OneSocketPerAddress`.
* `CountedRight`: `Spec => []CountsTheUsers`.
* `ClosedNews`: `Spec => []ClosedIsNews`.

None of them is inductive.  The invariant `IInv`, proved in `Invariance`, has
these parts, each of which the others need:

* `ListTypes`, `IoTypes`: types without the bounds of the counters;
* `Reserved`: a socket in the making has a record to itself that has no socket yet.  It is
  why nobody else can begin one, and why `AddSocket` finds its place;
* `Recorded`: the socket of a record is open and leads to its address, and an open one has
  its record until it is closed or its count is zero and a callback about to close it: with
  `Reserved`, two live sockets of one address are the same;
* `Courier`: which messages may be under way at which stage; without it `Abort`
  or `AddSocket` could come twice;
* `Unused`: a socket that is not open yet has nothing running;
* `Counted`: the count is exact until the socket is closed or the shutdown has set it, and
  positive until then or until a callback has taken it to zero; from then on it is
  below one, and behind the users by two at most (a shutdown that sets it to zero
  ignores a reader and a writer, each of which still decrements);
* `News`: from the closing to the removal, the message or the shutdown that
  carries the news.  A shutdown that found zero acts on a socket that is closed, or that
  is about to be by the callback which took the count there: this is as much as the code
  guarantees, and the reason why `OneSocketPerAddress` speaks of live sockets;
* `Queue`: what is queued has been written, but for one `:DISCARD`.

The proof has one lemma per action (`FindNoneKeeps` to `ShutdownEndKeeps`), with a step for
each part it can disturb; `NextKeeps` combines them.

### 5.3 `SerializerProofs`

Assumed in `Serializer` (`RequestAssumption`): each request is made to one
serializer, and is the inner request of at most one other.

* `OneBeyond`: `Spec => []OneAtATime`.
* `NoneAstray`: `Spec => []NoStrayAnswer`.
* `Implementation`: `Spec => ServedInTurn`, that is, `Serializer` implements
  `SerialService`.
* `TypeCorrect`: `Spec => []Types`, types of the variables and of the messages
  under way.

`OneAtATime` is about the present, and says nothing of why the next dispatch waits
for the answer.  The invariant `IInv`, proved in `Invariance`, has these parts:

* `Place`: a request is not sent, on its way to the serializer, queued, dispatched, at
  the service, or returning with a tag; it is in one of these at a time, and
  goes through them in one order.  The once-only gate is what makes the step
  from the service to the return irreversible, however often the service answers;
* `LineUp`: a queue holds requests of its serializer, each once;
* `Labelled`: the label and the answer of a request that is through carry the
  present tag of its serializer, and at most one answer is returning;
* `Sole`: a serializer has one request through if it has a tag, and none, nor a
  queue, if it has none.  `Labelled` and `Sole` need each other: an answer ends
  a period only if it carries its tag, and it carries it because
  no other request was let through since.

There is one lemma per action (`SendKeeps` to `ReleaseNextKeeps`), combined in `NextKeeps`.
For the refinement, `Lines` says what the line of a serializer is before and
after a step; `AcceptArrives`, `EnqueueArrives` and `ReleaseServes` show which
steps are steps of `SerialService`; all others leave lines and answers alone.

### 5.4 `KVDBProofs`

Assumed in `KVDB` (`OperationAssumption`): operations are well formed, the
absence of a value or an owner is neither, and no client is the gate.

* `TypeCorrect`: `Spec => []TypeOK`.
* `OwnerCommits`: `Spec => []OwnerIsUpToDate`, and `OwnerUndisturbed`:
  `Spec => OwnerHoldsCommits`, with any number of crashes.
* `FileIsLastSaved`, `FileIsCommitted`, `Reopening`: under `Ordered`,
  `FileAddsUp`, `FileWasCommitted` and `ReopensLastSaved`, with any number of
  crashes and failed writes.  They except the changes in deltas that are passed over
  (`missed`), and say that there are none as long as nothing has crashed.  Without `Ordered`
  they do not hold in general: run `kvdb_reorder`, section 6.
* `Serializability`: if `MaxCrashes = 0`, `Spec => Serializable`, that is, `KVDB`
  implements `AtomicMap`.  A crash loses commits that were not saved yet, and
  clients begin again: the promise is one for the time between crashes.

None of the properties is inductive.  The invariant has three parts:

* `Types`;
* `Talk`, the conversation of the gate with each client.  `Once`: between the gate and a client
  there is at most one message, in `net` or in `stash`.  `Owned`: only sessions own
  the commits.  For each message, `Proper`: which kinds the operation and the stage of its client
  allow; `Held`: a session that has a database, or sends its commit or abort, is the owner,
  and its database is the present one; `Copied`: a copy of the present
  database is that database, changed by its client.  `OwnerIsUpToDate` is a part of
  `Held`; `Once` is what makes `Held` survive the commit that ends an ownership, and
  `Copied` is what turns the comparison of identities (`EQL`) into one of contents, on which
  `Serializable` rests;
* `Stored`, the way to the file.  `Committed`: what the saver has, writes or will
  be sent was committed, and versions identify databases.  `InOrder`: it gets them in
  the order of their versions, which is why `SAVE-LOG` may skip one that is not
  newer without losing anything, and why a skipped one is what was saved last.  `Phases`: what the
  saver can be at in each mode, and what mark it leaves on the file.  `Whole`: without a crash
  nothing is passed over.  And `FileAddsUp` itself, which survives a delta that is passed over
  because its keys are then among those missed, and a delta that is read because that sets all keys
  in which the last two databases differ.

The proof has one section per part, with a lemma for each group of actions
(`ClientTalks`, `GateTalks`, `TakeStored`, `WrittenStored`, ...).  For the refinement,
`Happens` computes the outcome of a client from the one message that may be
under way to it; `ClientStutters` and `GateHappens` then show that only the
gate makes operations happen: a `:FIND` when the database is sent, a change
when its commit is accepted.

### 5.5 `MultiCommitProofs`

Assumed in `MultiCommit` (`NeedsAssumption`): sessions are no single updates; a
session needs at least one store and a single update just one; the ids that
sessions would give are positive and all different.

* `ToldWhenDone`: `Spec => []OkWhenDone`.
* `Atomicity`: `Spec => SessionsAreAtomic`, that is, sessions and updates together
  implement `AtomicMap`, over the databases of all stores as one map.

The invariant `IInv`, proved in `Invariance`:

* `Types`, and `Stage`: what a client waits for at each stage, and when its verdict is made;
* `Owned`: a store belongs to a session exactly while that session is between the
  grant and the end at that store, and the session's copy is then the present database.
  The order in which stores are taken plays no part here: it is for liveness;
* `Mail`: one message between a client and a store, of a kind that fits its stage.
  It is what keeps a grant, or an end, from coming twice;
* `Logged`: a session's change is in a store just if its commit has been accepted there.
  It is `OkWhenDone` before the end.

For the refinement, a session happens in the step in which its handler makes the verdict
to commit: by `Owned` it holds all its stores then, so that what it read is
present in all of them at that instant (`TerminateSteps`).  From then on the map counts its changes as made,
and the commits that follow store by store are stutters (`OwnerSteps`).  A single
update happens when its commit is accepted (`AcceptedSteps`); giving an id changes no contents.

### 5.6 `SyncChanProofs`

Assumed in `SyncChan` (`OfferAssumption`): each offer has a channel and a `SYNC`; offers are finitely many
(events come in lists); the failure of a time limit is no message anybody
offers (`+FAIL+` is an object of its own, `sync-msg.lisp:45`).

* `OnlyFirstThrough`: `Spec => []OnePerSide`.
* `Refinement`: `Spec => Meetings`, that is, `SyncChan` implements `Rendezvous`.

The invariant `IInv`, proved in `Invariance`:

* `Types`; `LineUp`: a port has offers of its own, each once, and a channel waits for the
  partner of one of its own;
* `Place`: an offer is on its way to its port, in line, and, only as the
  first of the line, past it: on its way to the channel, waiting there, or answered. This is
  `OnePerSide` with its reason; and an offer that has met is answered or gone, so that it
  meets nobody else;
* `Gates`: a `KILL` gate is made before a timer or an answer can come to it;
* `Truth`: an answer under way is that of a meeting of this offer, or a failure of one with a
  time limit;
* `Heard` and `Count`: of each offer the `RCVR` of its choice hears at most once, and the
  failures it still takes are as many as the offers it has yet to hear of; those
  it has heard of already were failures, hence had time limits.  So it passes a failure on
  only if all offers of the choice are limited, which is what `Rendezvous` allows.  `Count`
  would fail if one offer could be heard of twice: hence `Heard`, and the gates.

There is first a lemma for each action on which messages come and go (`StartSends` to `TellSends`), then
one on the invariant (`StartKeeps` to `TellKeeps`), and three on the refinement: `MeetingStep`,
`TellingStep`, and `OtherSteps`, which are stutters.

### 5.7 `PartsProofs`

About parts that `MCParts` puts side by side; an invariant for each, independent of the others.
Assumed (`PartsAssumption`): the assumptions of the modules on their constants.

* `QueueIsSequence`: `MCSpec => []StandsForSequence`.  The invariant adds
  the type of the lists.  `Normalised` is the lemma that matters: normalising
  neither changes the sequence nor leaves the front empty unless all is;
  `AroundBoth` and `FirstOfBoth` are the algebra of adding and taking at an end.
* `TableIsMap`: `MCSpec => []StandsForMap`, if `NIL` is not among the values: `ADD` makes no new
  table when the look-up yields the value already, and for an absent key it yields `NIL`, so that
  adding `NIL` there is no addition.  `TableInv`: the binding in effect of each key is that of
  the map.  Binding in front changes one key (`BindingInFront`, `SethashBinds`).  `RebuildSame`, that
  `REBUILD` changes none, is the work: `FoldRight` is defined by a recursive equation on subsets
  of the list's indices; `Solvable` gives it a solution, and `SolutionIs` shows
  that any other agrees with that one, since there would be a least index where it does not.
  In the solution the binding applied last to a key is its first in the list (`FirstCounts`),
  which is what `ASSOC` finds.
* `ServicesKept`: `MCSpec => []KeptWhileUsed`.  `Timing` adds the count: each copy of an id has
  its timer, and the last timer is that of the last use.  A removal takes some copy, and
  others are left as long as the last timer runs.
* `RestingCustodianKnows`: `MCSpec => []ThreadsListed`.  At work, the list may lack
  a thread: `ListedBut` says that it lacks just the one started by an
  `:ADD-EXECUTIVE` that is before its `BECOME`, and that nothing has changed since the
  behaviour which that `BECOME` compares with.  `OneAtWork`, one thread at a time runs the
  custodian, is why; it is what the `SERIALIZER` provides, and without it the invariant
  fails, as the mutant `CallBare` shows.

### 5.8 `ReaderProofs`

* `NothingTwice`: `MCSpec => []GivenOnce`, from `DechunkAssumption`: chunked messages have at least two
  chunks, and only their packets are sent again under new numbers.

`OneEnd` says of each message that there is one carrier that may
give it to the customer (the packet of a small message, the `REPLACER` of the last
chunk of a large one), or one answer on its way, or one message given, and none before it has
begun.  What begins it happens once: for a small message that its packet enters the history of
the replay check; for a large one that the count of chunks reaches the
number of chunks, which it does not do again since chunks are counted once.  The chain of
nodes plays no part in this; it matters for liveness (`MessagesGiven`).

* `DecodesInOrder`: `MCSpec => []DecodedInOrder`, for packets of any sizes and for any
  checksum, from `FramingAssumption` and from `StreamsAssumption` of `StreamDecoder`: messages
  are sequences of bytes, and a checksum has its length.
* `RoundTrip`: the state machine makes of the bytes of some messages just these messages, if
  no start sequence begins in their checksums and lengths (`HeaderWhole`).  The hypothesis is
  needed: `framing_crc` shows a message that is lost otherwise.

The proof has two parts.  The first is about functions, and goes from the byte to the stream:

* A byte keeps the machine a machine, and what was sent on stays sent on (`InhaleAfter`);
  a buffer is taken byte by byte, so that two buffers in turn are the same as
  both at once (`InhaleConcat`).
* The bytes of a segment are all added, but for an `FE` that the machine holds back until the byte
  after it (`SegmentRead`).  What a segment ends with is the end of the message, a full segment, or
  a start sequence, which the machine puts back (`SegmentTaken`).
* By induction from the last segment, the long segments complete the message
  (`LongSegmentsRead`).  With the first segment this is a record (`RecordRead`): one more
  message is sent on, or, if a start sequence begins in checksum and length, the machine is
  stuck, and nothing is sent on any more.
* By induction over the records: a stream, and each beginning of one, yields a
  prefix of the messages (`StreamRead`, `BeginningRead`).

The second part is the inductive invariant `StreamInv`.  `Packets` names what has been read, the
`i`-th packet and the bytes of the first `i`, and says that what is under way are these packets
under their numbers.  `Progress` is one of two.  `Decoded` names how many are decoded: the state machine is where
the bytes of these leave it, the packet at the machine is the next one, and `waitIx` is
one or two ahead, depending on whether there is one.  `Stopped`: the state machine has failed, the
messages of that activation are discarded, and the decoder stays busy.  `DecodedInOrder` alone is not inductive, for
it does not say what a half-read record has left in the machine.

`InhaleAll`, `LongSegments` and `FlattenSeq` are recursive functions; the equation of each is shown to
have a solution (`RemainingExists`, `SegmentingExists`, `FlatteningExists`).  Induction is the lemma
`Induction` about subsets of `Nat`: `<` is well founded, so a set that misses a number misses a least
one.

### 5.9 Model-checked only

* Liveness under fairness (`EveryMessageHandled`, `AskReturns`, `EveryRequestAnswered`,
  `EveryoneTold`, `SavedInTheEnd`, `PartnersMeet`, `SessionsEnd`, `PurgedInTheEnd`,
  `StreamDecoded`, `MessagesGiven`, and of `Connections` `WaitsOnlyForPeer` and `DeafIsRemoved`).

Runs check these, with the fairness of section 4.2.  A recursive operator, a temporal
formula under fairness and `ENABLED` are out of the prover's reach.

## 6. Where code and comments disagree

Shown by runs:

1. `kvdb_reorder`.  The saver takes an older database for the last saved
   (`kvdb.lisp:459`) and computes its next delta from it.
2. `framing_crc`.  A checksum that contains the start sequence ends the first segment of a
   record within its header, which the decoder then takes from too few bytes
   (`self-sync-actors.lisp:221`).
3. `dechunk_whole`.  A large message is sent on when the last chunk has been
   copied that arrived, though the copying of earlier ones may be under way
   (`encoding.lisp:681`).
4. `two_stores`.  Between a full save and its `:UPDATE-ENTRY` a file has an inode
   that the orchestrator does not know, and gets a second store (`kvdb.lisp:827`).

Shown by configurations that are kept beside the runs:

5. `MCDispatcherOrder`.  A rest of a chain goes behind messages of later activations;
   `actors-mstr.lisp:180-182` says otherwise.
6. `MCSerializerOverlap`.  After a timeout the next request enters a service that is
   still at work; `serializer.lisp:78-79` promises the body to one.
7. `MCKVDBSilent`.  Removing what is not there is not answered
   (`kvdb.lisp:707`).
8. `MCFplHashtableNil`.  Adding `NIL` for an absent key is dropped (`fpl-hashtable.lisp:59`).
9. `MCSyncChanReset`.  A `:RESET` does not withdraw an offer from its channel
   (`sync-msg.lisp:60-74`, `102`): the comment of `CHOOSE-EVT` says that the
   attempts on the other events are cancelled (`174-177`).
10. `MCStartup`.  Of two threads that `SEND` first at the same time, the later makes another
   central mailbox (`actors-mstr.lisp:119`) after executives of the earlier may have gone to sleep
   in the one before.  If all have, no message is handled, while
   `README.md:372` of the repository has all executives watch one mailbox.
11. `MCKVDBTorn`.  A delta that a crash has cut short by one byte of a segment makes the reader pass
   over the delta appended behind it, start sequence and all: keys saved there are not read back, while
   `self-sync.lisp:48` has "Damaged encodings can be resync'd at next start sequence".  They
   stay missing until they change again or an image is written.
12. `MCConnectionsOverlap`.  The callback that takes the count to zero closes the socket in a later
   step (`network-connection-ss.lisp:446-448`).  A shutdown that was asked for by the timer or
   the writer may find the zero in between, have the record removed, and another socket to the
   address be opened before the first is closed.

Noticed while reading, and modelled as the code has it:

* The customers of a record that is removed or aborted are told nothing
  ("leaves all waiting custs hanging").
* A client that asks for an address which the peer has opened gets the channel `NIL`.
* A socket may be closed twice, gracefully by the last of its users and by force by a
  shutdown that saw the count before.
* A store that failed to open stays entered: its `:REMOVE-ENTRY`, and its becoming
  a sink, are staged in the error handler (`kvdb.lisp:519-522`) and discarded with
  everything that a failing Actor staged (`actors-mstr.lisp:344`).
* Ephemeral services live on after a use, while a comment gives them "only one
  message send" (`secure-bridging.lisp:231`).

## 7. Not modelled, and why

* Planned components: section 2, with their status in `PROJECT.json`.
* The wrappers of events (`WRAP-EVT`, `WRAP-ABORT-EVT`, `ON-EVT`) and choices within
  choices; `CHUNK-MONITOR`, which no pipeline that is loaded uses; starting and stopping
  the listening server.
* A crash between the saves of two stores of one session: each store is saved by its own
  timer, so that a session may be on file in one and not in the other.  Nothing
  in the code promises more.
* Clients outside of sessions that read two stores: they may see one with a session's changes
  and the other without.
* A kill from an Actor thread, which ends in the middle of the custodian's own
  activation; `ADD-EXECUTIVES`; listing the threads.
* Ciphers, hashes, serialization of Lisp objects: pure functions of libraries.
* `macros.lisp`, packages, the instrumented copy of the dispatcher: no state.
* Older generations and vendored code: not loaded.
* The variant of the store on trees (`MAPS:TREE`, `kvdb.lisp:270-293`): the
  build selects hash tables (`com.ral.actors.extra.asd:3`).
* Prompts to the user when a file is no database or is missing: the
  store then starts new, as after a corrupt image.
