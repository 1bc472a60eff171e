---------------------------- MODULE MCDispatcher ----------------------------
(***************************************************************************)
(* A small world for the dispatcher: a client asks a service S; a foreign  *)
(* thread sends to an Actor A that several messages try to change at once. *)
(***************************************************************************)
EXTENDS Dispatcher, SequencesExt

CONSTANTS t1, t2, q, A, S, Me, req, ans, job, f, g, e

MCMsg == {req, ans, job, f, g, e}

MCParent ==
  [m \in MCMsg |-> CASE m \in {ans, job} -> req
                     [] m \in {g, e}     -> f
                     [] OTHER            -> NoMsg]

MCTarget ==
  [m \in MCMsg |-> CASE m \in {job, f, g, e} -> A
                     [] m = ans              -> Me
                     [] OTHER                -> S]

MCChains ==
  [m \in MCMsg |-> CASE m = req -> {<<job, ans>>, <<ans>>}
                     [] m = f   -> {<<>>, <<g>>}
                     [] OTHER   -> {<<>>}]

MCErrReply == [m \in MCMsg |-> IF m = f THEN e ELSE NoMsg]

MCAnswers == [m \in MCMsg |-> IF m = ans THEN q ELSE NoMsg]

MCRequest == [k \in {q} |-> req]

=============================================================================
