------------------------- MODULE MCDispatcherOrder --------------------------
(***************************************************************************)
(* The order of messages in the mailbox.  An Actor A is activated by f1    *)
(* and f2; f1 makes it send a chain of two messages, f2 makes it send one. *)
(* The activations are numbered in the order in which they commit.         *)
(***************************************************************************)
EXTENDS Dispatcher

CONSTANTS t1, A, B, f1, f2, g, h, k

VARIABLE commits    (* the messages whose activation committed, in order   *)

MCMsg == {f1, f2, g, h, k}

MCParent ==
  [m \in MCMsg |-> CASE m \in {g, h} -> f1
                     [] m = k        -> f2
                     [] OTHER        -> NoMsg]

MCTarget == [m \in MCMsg |-> IF m \in {f1, f2} THEN A ELSE B]

MCChains ==
  [m \in MCMsg |-> CASE m = f1 -> {<<g, h>>}
                     [] m = f2 -> {<<k>>}
                     [] OTHER  -> {<<>>}]

MCErrReply == [m \in MCMsg |-> NoMsg]
MCAnswers  == [m \in MCMsg |-> NoMsg]
MCRequest  == [q \in {} |-> NoMsg]

OInit == Init /\ commits = <<>>

Committing(m) ==
  \E t \in Thread : pc[t] = "commit" /\ evt[t] = <<m>> /\ pc'[t] # "retry"
                    /\ pc'[t] # pc[t]

ONext ==
  /\ Next
  /\ \/ \E m \in Msg : Committing(m) /\ commits' = Append(commits, m)
     \/ ~(\E m \in Msg : Committing(m)) /\ UNCHANGED commits

OSpec == OInit /\ [][ONext]_<<vars, commits>>

-----------------------------------------------------------------------------
Before(m, n) ==
  \E i, j \in DOMAIN commits : i < j /\ commits[i] = m /\ commits[j] = n

(* "message sent from an earlier Actor activation will appear in the event *)
(* queue in front of messages sent by a later Actor activation.  The event *)
(* queue is a FIFO queue" (actors-mstr.lisp:180-182), for the activations  *)
(* of one Actor.                                                           *)
EarlierActivationInFront ==
  \A i, j \in DOMAIN mailbox :
    \A m \in Elements(mailbox[i]), n \in Elements(mailbox[j]) :
      /\ i < j
      /\ Parent[m] # NoMsg /\ Parent[n] # NoMsg
      /\ Target[Parent[m]] = Target[Parent[n]]
      => ~Before(Parent[n], Parent[m])
=============================================================================
