------------------------------- MODULE MCKVDB -------------------------------
(***************************************************************************)
(* Clients of a store with two keys.                                       *)
(***************************************************************************)
EXTENDS KVDB, TLC

CONSTANTS c1, c2, c3, c4, c5, k1, k2, v1, v2

(* Transactions: two sessions against optimistic operations of each kind,  *)
(* all of them about k1.                                                   *)
AllTransOps ==
  c1 :> [kind |-> "session", patch |-> (k1 :> v1) @@ (k2 :> v1)]
    @@ c2 :> [kind |-> "add", key |-> k1, patch |-> k1 :> v2]
    @@ c3 :> [kind |-> "session-asks-twice", patch |-> k2 :> v2]
    @@ c4 :> [kind |-> "find-or-add", key |-> k1, patch |-> k1 :> v2]
    @@ c5 :> [kind |-> "find", key |-> k1]

TransOps == [c \in Client |-> AllTransOps[c]]

(* Persistence: two keys come and one goes while images and deltas are     *)
(* written, so that a delta behind one that is passed over leaves one key  *)
(* missing and makes good the other.                                       *)
AllSaveOps ==
  c1 :> [kind |-> "session", patch |-> (k1 :> v1) @@ (k2 :> v1)]
    @@ c2 :> [kind |-> "remove", key |-> k1, patch |-> k1 :> None]
    @@ c3 :> [kind |-> "add", key |-> k2, patch |-> k2 :> v2]
    @@ c4 :> [kind |-> "maint"]

SaveOps == [c \in Client |-> AllSaveOps[c]]

(* Whatever was saved is read: "Damaged encodings can be resync'd at next  *)
(* start sequence" (self-sync.lisp:48).  Not so behind a delta that lacks  *)
(* one byte, see MCKVDBTorn.cfg.                                           *)
EverythingRead == missed = AllRead
=============================================================================
