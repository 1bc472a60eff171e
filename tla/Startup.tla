------------------------------- MODULE Startup ------------------------------
(***************************************************************************)
(* Starting and stopping the Actors system (actors-mstr.lisp, STARTUP-SEND;*)
(* startup.lisp): the first SEND of a foreign thread makes a new central   *)
(* mailbox and has the custodian start executive threads; a kill has it    *)
(* end them, and makes the next SEND a first one.                          *)
(*                                                                         *)
(* Foreign threads call the custodian by CALL-ACTOR (st-send.lisp), which  *)
(* runs all Actors concerned in the calling thread, until no message is    *)
(* left.  The custodian is behind a SERIALIZER: the thread that finds it   *)
(* busy leaves its request there and goes on without an answer; the one    *)
(* that keeps it busy serves that request too.                             *)
(***************************************************************************)
EXTENDS Integers, Sequences, FiniteSets

CONSTANTS
  Sender,     (* foreign threads, each of which sends one message          *)
  Killer,     (* foreign threads, each of which kills the Actors system    *)
  Pool,       (* *NBR-POOL*: how many executives there should be           *)
  Nobody

Foreign == Sender \cup Killer

(* MCParts assumes this of the instance.                                   *)
PoolAssumption ==
  Sender \cap Killer = {} /\ Nobody \notin Foreign /\ Pool \in Nat \ {0}

VARIABLES
  sendFn,     (* *SEND*: "startup", or "pool"                              *)
  boxes,      (* boxes[b]: the messages in mailbox b; *CENTRAL-MAIL* is the*)
              (* last one                                                  *)
  pc,         (* pc[t]: where thread t is                                  *)
  busy,       (* the thread that runs the custodian, or Nobody             *)
  queue,      (* requests that wait at its SERIALIZER                      *)
  custodian,  (* CUSTODIAN-BEH: its COUNT and its THREADS                  *)
  task,       (* task[t]: what the custodian is to do next in t: the       *)
              (* message, and the behaviour that it reads                  *)
  execs,      (* execs[e]: the mailbox that executive e waits at, or:      *)
  heard       (* the senders whose message an executive has taken          *)

vars == <<sendFn, boxes, pc, busy, queue, custodian, task, execs, heard>>

Looking == 0              (* about to look up *CENTRAL-MAIL*               *)
Dead    == -1             (* killed                                        *)

CentralMail == Len(boxes)
NoTask == [do |-> "none"]

Init ==
  /\ sendFn = "startup"
  /\ boxes = <<{}>>
  /\ pc = [t \in Foreign |-> IF t \in Sender THEN "send" ELSE "call"]
  /\ busy = Nobody
  /\ queue = <<>>
  /\ custodian = [count |-> 0, threads |-> {}]
  /\ task = [t \in Foreign |-> NoTask]
  /\ execs = <<>>
  /\ heard = {}

Go(t, from, to) == pc[t] = from /\ pc' = [pc EXCEPT ![t] = to]
-----------------------------------------------------------------------------
(* Foreign threads.                                                        *)

(* SEND calls the function that *SEND* is now.                             *)
Send(t) ==
  /\ t \in Sender
  /\ Go(t, "send", IF sendFn = "startup" THEN "box" ELSE "post")
  /\ UNCHANGED <<sendFn, boxes, busy, queue, custodian, task, execs, heard>>

(* SEND-TO-POOL.                                                           *)
Post(t) ==
  /\ Go(t, "post", "sent")
  /\ boxes' = [boxes EXCEPT ![CentralMail] = @ \cup {t}]
  /\ UNCHANGED <<sendFn, busy, queue, custodian, task, execs, heard>>

(* STARTUP-SEND: a new mailbox ...                                         *)
NewMailbox(t) ==
  /\ Go(t, "box", "set")
  /\ boxes' = Append(boxes, {})
  /\ UNCHANGED <<sendFn, busy, queue, custodian, task, execs, heard>>

(* ... and from now on SENDs go to it.                                     *)
SetSend(t) ==
  /\ Go(t, "set", "call")
  /\ sendFn' = "pool"
  /\ UNCHANGED <<boxes, busy, queue, custodian, task, execs, heard>>

Request(t) == IF t \in Sender THEN "ensure" ELSE "kill"
After(t)   == IF t \in Sender THEN "send" ELSE "unset"

(* Mutant: there is no SERIALIZER around the custodian.                    *)
CallBare(t) ==
  /\ Go(t, "call", "flurry")
  /\ busy' = t /\ task' = [task EXCEPT ![t] = [do |-> Request(t)]]
  /\ UNCHANGED <<sendFn, boxes, queue, custodian, execs, heard>>

(* RESTART-ACTORS-SYSTEM or KILL-ACTORS-SYSTEM calls the custodian.        *)
Call(t) ==
  /\ pc[t] = "call"
  /\ \/ /\ busy = Nobody
        /\ Go(t, "call", "flurry")
        /\ busy' = t /\ task' = [task EXCEPT ![t] = [do |-> Request(t)]]
        /\ UNCHANGED queue
     \/ /\ busy # Nobody
        /\ Go(t, "call", After(t))
        /\ queue' = Append(queue, Request(t))
        /\ UNCHANGED <<busy, task>>
  /\ UNCHANGED <<sendFn, boxes, custodian, execs, heard>>

(* KILL-ACTORS-SYSTEM has called the custodian.                            *)
UnsetSend(t) ==
  /\ Go(t, "unset", "over")
  /\ sendFn' = "startup"
  /\ UNCHANGED <<boxes, busy, queue, custodian, task, execs, heard>>
-----------------------------------------------------------------------------
(* The custodian, in thread t.                                             *)

(* It answers: the SERIALIZER lets the next request through, or the flurry *)
(* is over.                                                                *)
Answered(t) ==
  \/ /\ queue # <<>>
     /\ queue' = Tail(queue) /\ task' = [task EXCEPT ![t] = [do |-> Head(queue)]]
     /\ UNCHANGED <<pc, busy>>
  \/ /\ queue = <<>>
     /\ task' = [task EXCEPT ![t] = NoTask] /\ busy' = Nobody
     /\ Go(t, "flurry", After(t))
     /\ UNCHANGED queue

(* :ENSURE-EXECUTIVES                                                      *)
Ensure(t) ==
  /\ task[t].do = "ensure"
  /\ \/ /\ Cardinality(custodian.threads) < Pool
        /\ task' = [task EXCEPT ![t] = [do |-> "add", id |-> custodian.count + 1]]
        /\ UNCHANGED <<pc, busy, queue>>
     \/ /\ Cardinality(custodian.threads) >= Pool
        /\ Answered(t)
  /\ UNCHANGED <<sendFn, boxes, custodian, execs, heard>>

(* :ADD-EXECUTIVE starts a thread, before its BECOME ...                   *)
AddExecutive(t) ==
  /\ task[t].do = "add"
  /\ \/ /\ custodian.count < task[t].id
        /\ execs' = Append(execs, Looking)
        /\ task' = [task EXCEPT ![t] = [do |-> "become", id |-> task[t].id,
                                        new |-> Len(execs) + 1, seen |-> custodian]]
     \/ /\ custodian.count >= task[t].id
        /\ task' = [task EXCEPT ![t] = [do |-> "ensure"]]
        /\ UNCHANGED execs
  /\ UNCHANGED <<sendFn, boxes, pc, busy, queue, custodian, heard>>

(* ... which, if somebody else's came first, has it handled again.  What   *)
(* follows is :ENSURE-EXECUTIVES once more.                                *)
Become(t) ==
  /\ task[t].do = "become"
  /\ \/ /\ custodian = task[t].seen
        /\ custodian' = [count |-> task[t].id, threads |-> custodian.threads \cup {task[t].new}]
        /\ task' = [task EXCEPT ![t] = [do |-> "ensure"]]
     \/ /\ custodian # task[t].seen
        /\ task' = [task EXCEPT ![t] = [do |-> "add", id |-> task[t].id]]
        /\ UNCHANGED custodian
  /\ UNCHANGED <<sendFn, boxes, pc, busy, queue, execs, heard>>

(* :KILL-EXECUTIVES                                                        *)
KillExecutives(t) ==
  /\ task[t].do = "kill"
  /\ execs' = [e \in DOMAIN execs |-> IF e \in custodian.threads THEN Dead ELSE execs[e]]
  /\ custodian' = [count |-> 0, threads |-> {}]
  /\ Answered(t)
  /\ UNCHANGED <<sendFn, boxes, heard>>
-----------------------------------------------------------------------------
(* Executives, in RUN-ACTORS: what it does with a message is left out.     *)

Look(e) ==
  /\ execs[e] = Looking
  /\ execs' = [execs EXCEPT ![e] = CentralMail]
  /\ UNCHANGED <<sendFn, boxes, pc, busy, queue, custodian, task, heard>>

Read(e) ==
  /\ execs[e] > 0
  /\ \E m \in boxes[execs[e]] :
       /\ boxes' = [boxes EXCEPT ![execs[e]] = @ \ {m}]
       /\ heard' = heard \cup {m}
  /\ execs' = [execs EXCEPT ![e] = Looking]
  /\ UNCHANGED <<sendFn, pc, busy, queue, custodian, task>>

ForeignStep(t) ==
  \/ Send(t) \/ Post(t) \/ NewMailbox(t) \/ SetSend(t) \/ Call(t) \/ UnsetSend(t)
  \/ Ensure(t) \/ AddExecutive(t) \/ Become(t) \/ KillExecutives(t)

Next ==
  \/ \E t \in Foreign : ForeignStep(t)
  \/ \E e \in DOMAIN execs : Look(e) \/ Read(e)

Spec == Init /\ [][Next]_vars

(* The operating system schedules threads.                                 *)
FairSpec ==
  /\ Spec
  /\ \A t \in Foreign : WF_vars(ForeignStep(t))
  /\ WF_vars(\E e \in DOMAIN execs : Look(e) \/ Read(e))
-----------------------------------------------------------------------------
(* "Not Idempotent - so we need to be behind a SERIALIZER"                 *)
(* (startup.lisp:13): a thread is started before the custodian knows of it,*)
(* and is not ended by a failure.  Yet whenever the custodian is at rest it*)
(* has on its list just the threads that run, and no more than wanted.     *)
ThreadsListed ==
  busy = Nobody =>
    /\ custodian.threads = { e \in DOMAIN execs : execs[e] # Dead }
    /\ Cardinality(custodian.threads) <= Pool

(* "Each watching a communal mailbox", "SEND sends new messages to the     *)
(* communal mailbox" (README.md:372): a message that was sent is taken.    *)
EveryMessageHeard == \A t \in Sender : pc[t] = "sent" ~> t \in heard
=============================================================================
