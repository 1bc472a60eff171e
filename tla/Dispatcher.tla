----------------------------- MODULE Dispatcher -----------------------------
(***************************************************************************)
(* RUN-ACTORS of actors-base/actors-mstr.lisp: a pool of threads that take *)
(* messages from one central mailbox, run the behaviour of the Actor each  *)
(* message is for, and commit its staged SENDs and BECOME, or roll both    *)
(* back and try again when another thread changed the Actor meanwhile.     *)
(* A client thread that calls ASK joins the pool until its answer is here. *)
(*                                                                         *)
(* Messages travel in chains: the frames of the messages one activation    *)
(* sends are linked together and put in the mailbox as one entry.          *)
(*                                                                         *)
(* Behaviours are the parameter of this system.  Chains[m] holds what a    *)
(* behaviour may send when it handles m (in link order, one sequence per   *)
(* state the behaviour may be in); whether it calls BECOME or exits with   *)
(* an error is left open.  A behaviour is represented by the messages      *)
(* whose BECOMEs led to it, so two behaviours are EQ only if no BECOME     *)
(* came between them: every BECOME installs a closure made on the spot.    *)
(***************************************************************************)
EXTENDS Naturals, Sequences

CONSTANTS
  Thread,     (* the threads that run RUN-ACTORS                           *)
  Asker,      (* those among them that entered it through ASK              *)
  Actor,      (* the Actors                                                *)
  Msg,        (* every message that may ever be sent, each one sent once   *)
  NoMsg,      (* the absence of a message or of an asker                   *)
  Parent,     (* Parent[m]: the message whose handling sends m, or NoMsg   *)
  Target,     (* Target[m]: the Actor m is sent to                         *)
  Chains,     (* Chains[m]: the chains that handling m may send            *)
  ErrReply,   (* ErrReply[m]: what WITH-ERROR-RESPONSE sends, or NoMsg     *)
  Request,    (* Request[q]: the message by which asker q asks             *)
  Answers     (* Answers[m]: the asker whose ME Actor m is for, or NoMsg   *)

Elements(s) == { s[i] : i \in DOMAIN s }

IsInjectiveSeq(s) == \A i, j \in DOMAIN s : s[i] = s[j] => i = j

Root == { m \in Msg : Parent[m] = NoMsg }

ASSUME ThreadAssumption == Asker \subseteq Thread

ASSUME MsgAssumption ==
  /\ NoMsg \notin Msg
  /\ NoMsg \notin Asker
  /\ Parent \in [Msg -> Msg \cup {NoMsg}]
  /\ Target \in [Msg -> Actor]
  /\ Chains \in [Msg -> SUBSET Seq(Msg)]
  /\ ErrReply \in [Msg -> Msg \cup {NoMsg}]
  /\ Answers \in [Msg -> Asker \cup {NoMsg}]

(* A frame is made by one activation and linked into one chain.            *)
ASSUME FamilyAssumption ==
  \A m \in Msg :
    /\ \A c \in Chains[m] :
         /\ IsInjectiveSeq(c)
         /\ \A i \in DOMAIN c : Parent[c[i]] = m
    /\ ErrReply[m] # NoMsg => Parent[ErrReply[m]] = m

ASSUME RequestAssumption ==
  /\ Request \in [Asker -> Root]
  /\ \A p, q \in Asker : Request[p] = Request[q] => p = q

VARIABLES
  mailbox,    (* *central-mail*: the queue of chains                       *)
  beh,        (* beh[a]: actor-beh of a                                    *)
  pc,         (* pc[t]: where thread t is in RUN-ACTORS                    *)
  evt,        (* evt[t]: the chain in the hand of t, its head the message  *)
              (* being handled, the rest what msg-link leads to            *)
  seen,       (* seen[t]: self-beh, the behaviour the retry loop read      *)
  pend,       (* pend[t]: pend-beh, the behaviour to install               *)
  sends,      (* sends[t]: the chain of staged messages                    *)
  done,       (* the askers whose DONE holds an answer                     *)
  finished    (* the messages whose handling is over (history)             *)

vars == <<mailbox, beh, pc, evt, seen, pend, sends, done, finished>>

-----------------------------------------------------------------------------
(* Where a message can be: in the mailbox, or in the hands of a thread.    *)
(* Staged messages exist once their activation has committed; before that  *)
(* they are private to the thread and may vanish.                          *)

Holding(t) == IF pc[t] \in {"flush", "post"} THEN sends[t] ELSE evt[t]

Posted(q) == UNION { Elements(q[i]) : i \in DOMAIN q }

pending == Posted(mailbox) \cup UNION { Elements(Holding(t)) : t \in Thread }

Locations ==
  {"ask", "fetch", "read", "next", "retry", "apply", "commit", "flush",
   "post", "failing", "returned"}

-----------------------------------------------------------------------------
Init ==
  /\ mailbox  = <<>>
  /\ beh      = [a \in Actor |-> <<>>]
  /\ pc       = [t \in Thread |-> IF t \in Asker THEN "ask" ELSE "fetch"]
  /\ evt      = [t \in Thread |-> <<>>]
  /\ seen     = [t \in Thread |-> <<>>]
  /\ pend     = [t \in Thread |-> <<>>]
  /\ sends    = [t \in Thread |-> <<>>]
  /\ done     = {}
  /\ finished = {}

Goto(t, from, to) ==
  /\ pc[t] = from
  /\ pc' = [pc EXCEPT ![t] = to]

Transaction == <<seen, pend, sends>>

Message(t) == Head(evt[t])                       (* *current-message*      *)
Self(t) == Target[Message(t)]                    (* *current-actor*        *)

(* Nothing reads the registers of t before they are set again.             *)
Forget(t) ==
  /\ evt'  = [evt  EXCEPT ![t] = <<>>]
  /\ seen' = [seen EXCEPT ![t] = <<>>]
  /\ pend' = [pend EXCEPT ![t] = <<>>]

(* SEND-TO-POOL, the SEND of threads outside of the pool and of timers.    *)
ForeignSend(m) ==
  /\ m \in Root \ (pending \cup finished)
  /\ \A q \in Asker : Request[q] # m
  /\ mailbox' = Append(mailbox, <<m>>)
  /\ UNCHANGED <<beh, pc, evt, Transaction, done, finished>>

(* ASK enters RUN-ACTORS and puts its request in the mailbox.              *)
Ask(t) ==
  /\ t \in Asker
  /\ Goto(t, "ask", "fetch")
  /\ mailbox' = Append(mailbox, <<Request[t]>>)
  /\ UNCHANGED <<beh, evt, Transaction, done, finished>>

(* An asker leaves with its answer.                                        *)
Return(t) ==
  /\ t \in done
  /\ Goto(t, "fetch", "returned")
  /\ UNCHANGED <<mailbox, beh, evt, Transaction, done, finished>>

StartRead(t) ==
  /\ t \notin done
  /\ Goto(t, "fetch", "read")
  /\ UNCHANGED <<mailbox, beh, evt, Transaction, done, finished>>

Read(t) ==
  /\ mailbox # <<>>
  /\ Goto(t, "read", "next")
  /\ evt' = [evt EXCEPT ![t] = Head(mailbox)]
  /\ mailbox' = Tail(mailbox)
  /\ UNCHANGED <<beh, Transaction, done, finished>>

(* Mutant: the read that timed out starts over, without a look at DONE.    *)
ReadAgain(t) ==
  /\ t \in Asker
  /\ mailbox = <<>>
  /\ Goto(t, "read", "read")
  /\ UNCHANGED <<mailbox, beh, evt, Transaction, done, finished>>

(* Only an asker reads with a timeout (+ASK-TIMEOUT+).                     *)
ReadTimeout(t) ==
  /\ t \in Asker
  /\ mailbox = <<>>
  /\ Goto(t, "read", "fetch")
  /\ UNCHANGED <<mailbox, beh, evt, Transaction, done, finished>>

(* Mutant: no test for a rest.                                             *)
SpillAlways(t) ==
  /\ Goto(t, "next", "retry")
  /\ mailbox' = Append(mailbox, Tail(evt[t]))
  /\ evt' = [evt EXCEPT ![t] = <<Head(evt[t])>>]
  /\ UNCHANGED <<beh, Transaction, done, finished>>

(* Mutant: the frame in hand stays linked to the rest it has posted.       *)
SpillStillLinked(t) ==
  /\ Goto(t, "next", "retry")
  /\ mailbox' = IF Tail(evt[t]) = <<>> THEN mailbox
                                       ELSE Append(mailbox, Tail(evt[t]))
  /\ UNCHANGED <<beh, evt, Transaction, done, finished>>

(* Mutant: the rest of a chain is dropped.                                 *)
SpillNothing(t) ==
  /\ Goto(t, "next", "retry")
  /\ evt' = [evt EXCEPT ![t] = <<Head(evt[t])>>]
  /\ UNCHANGED <<mailbox, beh, Transaction, done, finished>>

(* The rest of the chain goes back to the mailbox, as one entry.           *)
Spill(t) ==
  /\ Goto(t, "next", "retry")
  /\ mailbox' = IF Tail(evt[t]) = <<>> THEN mailbox
                                       ELSE Append(mailbox, Tail(evt[t]))
  /\ evt' = [evt EXCEPT ![t] = <<Head(evt[t])>>]
  /\ UNCHANGED <<beh, Transaction, done, finished>>

(* The retry label: read the behaviour, forget what was staged.            *)
Retry(t) ==
  /\ Goto(t, "retry", "apply")
  /\ seen'  = [seen  EXCEPT ![t] = beh[Self(t)]]
  /\ pend'  = [pend  EXCEPT ![t] = beh[Self(t)]]
  /\ sends' = [sends EXCEPT ![t] = <<>>]
  /\ UNCHANGED <<mailbox, beh, evt, done, finished>>

(* The behaviour runs to its end.  The behaviour of an asker's ME Actor    *)
(* stores the answer right here: that assignment is not staged.            *)
Apply(t) ==
  /\ Goto(t, "apply", "commit")
  /\ \E c \in Chains[Message(t)] : sends' = [sends EXCEPT ![t] = c]
  /\ \/ /\ Answers[Message(t)] = NoMsg
        /\ pend' \in {pend, [pend EXCEPT ![t] = Append(seen[t], Message(t))]}
        /\ UNCHANGED done
     \/ /\ Answers[Message(t)] # NoMsg
        /\ done' = done \cup {Answers[Message(t)]}
        /\ UNCHANGED pend
  /\ UNCHANGED <<mailbox, beh, evt, seen, finished>>

(* The behaviour signals an error.  DO-WITH-ERROR-RESPONSE, if present,    *)
(* discards what is staged and sends its reply at once.                    *)
Err(t) ==
  /\ Goto(t, "apply", "failing")
  /\ Answers[Message(t)] = NoMsg
  /\ mailbox' = IF ErrReply[Message(t)] = NoMsg
                  THEN mailbox
                  ELSE Append(mailbox, <<ErrReply[Message(t)]>>)
  /\ Forget(t)
  /\ sends' = [sends EXCEPT ![t] = <<>>]
  /\ finished' = finished \cup {Message(t)}
  /\ UNCHANGED <<beh, done>>

(* Restart "Handle next event".                                            *)
HandleNextEvent(t) ==
  /\ Goto(t, "failing", "fetch")
  /\ UNCHANGED <<mailbox, beh, evt, Transaction, done, finished>>

(* Restarts "Terminate Actor thread" and "Terminate ASK".                  *)
Terminate(t) ==
  /\ Goto(t, "failing", "returned")
  /\ UNCHANGED <<mailbox, beh, evt, Transaction, done, finished>>

(* Mutant: a plain store in place of the compare-and-swap.                 *)
CommitStore(t) ==
  /\ Goto(t, "commit", IF sends[t] = <<>> THEN "fetch" ELSE "flush")
  /\ beh' = [beh EXCEPT ![Self(t)] = pend[t]]
  /\ Forget(t)
  /\ finished' = finished \cup {Message(t)}
  /\ UNCHANGED <<mailbox, sends, done>>

(* No BECOME, or a compare-and-swap that finds the behaviour unchanged.    *)
Commit(t) ==
  /\ Goto(t, "commit", IF sends[t] = <<>> THEN "fetch" ELSE "flush")
  /\ \/ /\ pend[t] = seen[t]
        /\ UNCHANGED beh
     \/ /\ pend[t] # seen[t] /\ beh[Self(t)] = seen[t]
        /\ beh' = [beh EXCEPT ![Self(t)] = pend[t]]
  /\ Forget(t)
  /\ finished' = finished \cup {Message(t)}
  /\ UNCHANGED <<mailbox, sends, done>>

(* The compare-and-swap fails: another thread changed the Actor.           *)
CommitFails(t) ==
  /\ Goto(t, "commit", "retry")
  /\ pend[t] # seen[t] /\ beh[Self(t)] # seen[t]
  /\ UNCHANGED <<mailbox, beh, evt, Transaction, done, finished>>

(* Messages wait, or the asker is about to leave: post the sends.          *)
FlushToMailbox(t) ==
  /\ mailbox # <<>> \/ t \in done
  /\ Goto(t, "flush", "post")
  /\ UNCHANGED <<mailbox, beh, evt, Transaction, done, finished>>

(* Nobody waits: the first of our own sends is next.                       *)
GrabOwnSends(t) ==
  /\ mailbox = <<>> /\ t \notin done
  /\ Goto(t, "flush", "next")
  /\ evt'   = [evt EXCEPT ![t] = sends[t]]
  /\ sends' = [sends EXCEPT ![t] = <<>>]
  /\ UNCHANGED <<mailbox, beh, seen, pend, done, finished>>

Post(t) ==
  /\ Goto(t, "post", "fetch")
  /\ mailbox' = Append(mailbox, sends[t])
  /\ sends' = [sends EXCEPT ![t] = <<>>]
  /\ UNCHANGED <<beh, evt, seen, pend, done, finished>>

ThreadStep(t) ==
  \/ Ask(t) \/ Return(t) \/ StartRead(t) \/ Read(t) \/ ReadTimeout(t)
  \/ Spill(t) \/ Retry(t) \/ Apply(t) \/ Err(t) \/ HandleNextEvent(t)
  \/ Terminate(t) \/ Commit(t) \/ CommitFails(t)
  \/ FlushToMailbox(t) \/ GrabOwnSends(t) \/ Post(t)

(* The only rest: each thread has left, or waits and there is no message.  *)
Quiet ==
  /\ \A t \in Thread :
       \/ pc[t] = "returned"
       \/ pc[t] = "read" /\ t \notin Asker /\ mailbox = <<>>
  /\ UNCHANGED vars

Next ==
  \/ \E m \in Msg : ForeignSend(m)
  \/ \E t \in Thread : ThreadStep(t)
  \/ Quiet

Spec == Init /\ [][Next]_vars

(* Threads are scheduled by the operating system: each of them moves on.   *)
(* Nothing makes foreign threads send.                                     *)
FairSpec == Spec /\ \A t \in Thread : WF_vars(ThreadStep(t))
-----------------------------------------------------------------------------
(* Types, and the shape of the registers of a thread at each location.     *)
TypeOK ==
  /\ mailbox \in Seq(Seq(Msg) \ {<<>>})
  /\ beh \in [Actor -> Seq(Msg)]
  /\ pc \in [Thread -> Locations]
  /\ evt \in [Thread -> Seq(Msg)]
  /\ seen \in [Thread -> Seq(Msg)]
  /\ pend \in [Thread -> Seq(Msg)]
  /\ sends \in [Thread -> Seq(Msg)]
  /\ done \subseteq Asker
  /\ finished \subseteq Msg

Disjoint(c, d) == Elements(c) \cap Elements(d) = {}

Unshared(q) ==
  \A i \in DOMAIN q :
    /\ IsInjectiveSeq(q[i])
    /\ \A k \in DOMAIN q : i # k => Disjoint(q[i], q[k])

(* Each message is in one place only: no chain is linked into two entries  *)
(* of the mailbox or held by two threads, no message is handled twice, and *)
(* so a retried, spilled, grabbed or posted chain neither loses nor        *)
(* duplicates what it carries (run-actors, lines 224-264).                 *)
OnePlace ==
  /\ Unshared(mailbox)
  /\ \A t \in Thread :
       /\ IsInjectiveSeq(Holding(t))
       /\ Elements(Holding(t)) \cap Posted(mailbox) = {}
       /\ \A u \in Thread : t # u => Disjoint(Holding(t), Holding(u))
  /\ pending \cap finished = {}

(* What holds of the registers of a thread at each location.               *)
Registers ==
  \A t \in Thread :
    /\ pc[t] = "next" => evt[t] # <<>>
    /\ pc[t] \in {"retry", "apply", "commit"} =>
         evt[t] # <<>> /\ evt[t] = <<Message(t)>>
    /\ pc[t] \notin {"next", "retry", "apply", "commit"} => evt[t] = <<>>
    /\ pc[t] = "apply" => pend[t] = seen[t]
    /\ pc[t] = "commit" =>
         /\ sends[t] \in Chains[Message(t)]
         /\ pend[t] \in {seen[t], Append(seen[t], Message(t))}
    /\ pc[t] \in {"flush", "post"} => sends[t] # <<>>

(* Nobody meets a message before the activation that sends it is over.     *)
BornAfterParent ==
  /\ \A m \in pending \cup finished :
       Parent[m] = NoMsg \/ Parent[m] \in finished
  /\ \A q \in Asker : pc[q] = "ask" => Request[q] \notin pending \cup finished

(* The inductive invariant.                                                *)
IInv == TypeOK /\ Registers /\ OnePlace /\ BornAfterParent

(* Concurrent activations, spills, retries and errors together look like   *)
(* messages handled one at a time, each once: SEND and BECOME "will commit *)
(* *ONLY* upon error free completion" (actors-mstr.lisp:105-106).          *)
Abstract == INSTANCE ActorModel
HandledAtomically == Abstract!Spec

(* As long as a thread of the pool is left, a message that was sent is     *)
(* handled in the end, whoever holds its chain.                            *)
EveryMessageHandled ==
  \A m \in Msg :
    m \in pending ~> (m \in finished \/ \A t \in Thread : pc[t] = "returned")

(* An asker whose answer has come leaves, even if another thread stored    *)
(* the answer while the asker slept in MAILBOX-READ (lines 222-224).       *)
AskReturns == \A q \in Asker : q \in done ~> pc[q] = "returned"
=============================================================================
