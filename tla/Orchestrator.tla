---------------------------- MODULE Orchestrator ----------------------------
(***************************************************************************)
(* KVDB-ORCHESTRATOR-BEH of actors-extra/kvdb.lisp, which hands out the    *)
(* stores, for one file.  Stores are entered under the file's inode, which *)
(* a full save changes; the saver tells so by a message.                   *)
(*                                                                         *)
(* A :REMOVE-ENTRY never arrives: its only sender stages it in an error    *)
(* handler, and what a failing Actor staged is discarded                   *)
(* (kvdb.lisp:517-522, actors-mstr.lisp:336-345).                          *)
(***************************************************************************)
EXTENDS Naturals, FiniteSets

CONSTANTS
  Asker,      (* those that ask for the store of the file                  *)
  None,       (* no answer yet; stores are numbered from 1                 *)
  MaxSaves    (* bound: how many full saves there are                      *)

VARIABLES
  inode,      (* the inode of the file; each full save gives it a new one  *)
  entries,    (* the open stores, which are numbered: a set of [key, store]*)
  toUpdate,   (* the stores with an :UPDATE-ENTRY under way                *)
  answer      (* answer[a]: the store that a was given                     *)

vars == <<inode, entries, toUpdate, answer>>

Stores == { e.store : e \in entries }

Init ==
  /\ inode = 0
  /\ entries = {}
  /\ toUpdate = {}
  /\ answer = [a \in Asker |-> None]

(* :MAKE-KVDB, the file is known by its inode: hand out its store.         *)
Find(a) ==
  /\ answer[a] = None
  /\ \E e \in entries :
       /\ e.key = inode
       /\ answer' = [answer EXCEPT ![a] = e.store]
  /\ UNCHANGED <<inode, entries, toUpdate>>

(* It is not: make a store.                                                *)
Make(a) ==
  /\ answer[a] = None
  /\ ~ \E e \in entries : e.key = inode
  /\ LET new == Cardinality(Stores) + 1
     IN /\ entries' = entries \cup {[key |-> inode, store |-> new]}
        /\ answer' = [answer EXCEPT ![a] = new]
  /\ UNCHANGED <<inode, toUpdate>>

(* FULL-SAVE renames the file and writes another in its place.             *)
FullSave(s) ==
  /\ s \in Stores /\ inode < MaxSaves
  /\ inode' = inode + 1
  /\ toUpdate' = toUpdate \cup {s}
  /\ UNCHANGED <<entries, answer>>

(* :UPDATE-ENTRY: enter the store under the inode its file has now.        *)
UpdateEntry(s) ==
  /\ s \in toUpdate
  /\ toUpdate' = toUpdate \ {s}
  /\ entries' = { e \in entries : e.store # s } \cup {[key |-> inode, store |-> s]}
  /\ UNCHANGED <<inode, answer>>

Next ==
  \/ \E a \in Asker : Find(a) \/ Make(a)
  \/ \E s \in Stores : FullSave(s) \/ UpdateEntry(s)

Spec == Init /\ [][Next]_vars
-----------------------------------------------------------------------------
(* "Prevent duplicate kvdb Actors for the same file": all are given the    *)
(* same store (kvdb.lisp:823).                                             *)
OneStorePerFile ==
  \A a, b \in Asker : answer[a] # None /\ answer[b] # None => answer[a] = answer[b]
=============================================================================
