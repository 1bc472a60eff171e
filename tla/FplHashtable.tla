---------------------------- MODULE FplHashtable ----------------------------
(***************************************************************************)
(* The functional hash table of useful-macros/fpl-hashtable.lisp, of which *)
(* the databases of the key-value store are made: a hash table that never  *)
(* changes, under a list of later bindings, the latest in front.  Adding   *)
(* and removing makes a new list in front of the same hash table;          *)
(* rebuilding makes a new hash table under an empty list.                  *)
(***************************************************************************)
EXTENDS Naturals, Sequences, SequencesExt

CONSTANTS
  Key, Val,
  Nil,        (* the value NIL, also what a look-up yields by default      *)
  KeyRemoved, (* +KEY-REMOVED+, bound to a key that was removed            *)
  Absent,     (* no entry in the hash table                                *)
  MaxLayers   (* bound: the length of the list                             *)

(* MCParts assumes this of the instance.                                  *)
ValAssumption ==
  /\ KeyRemoved \notin Val /\ Absent \notin Val \cup {KeyRemoved, Nil}
  /\ MaxLayers \in Nat

Bound(tbl, k) == { i \in DOMAIN tbl.alst : tbl.alst[i].key = k }

(* ASSOC: the first binding of k in the list.                              *)
Assoc(tbl, k) == tbl.alst[CHOOSE i \in Bound(tbl, k) : \A j \in Bound(tbl, k) : i <= j].val

(* The value in effect, or Absent; FPL-GETHASH's PRESENT-P is whether      *)
(* there is one.                                                           *)
InEffect(tbl, k) ==
  IF Bound(tbl, k) = {} THEN tbl.htbl[k]
  ELSE IF Assoc(tbl, k) = KeyRemoved THEN Absent ELSE Assoc(tbl, k)

Gethash(tbl, k, default) ==
  IF InEffect(tbl, k) = Absent THEN default ELSE InEffect(tbl, k)

(* Mutant: no new binding in front of an earlier one.                      *)
SethashOverRemoval(tbl, k, v) ==
  IF Bound(tbl, k) # {} THEN tbl
  ELSE [tbl EXCEPT !.alst = <<[key |-> k, val |-> v]>> \o @]

(* No new table if the value looked up, NIL by default, is there already.  *)
Sethash(tbl, k, v) ==
  IF Gethash(tbl, k, Nil) = v
    THEN tbl
    ELSE [tbl EXCEPT !.alst = <<[key |-> k, val |-> v]>> \o @]

GethashOrAdd(tbl, k, v) ==
  IF InEffect(tbl, k) # Absent
    THEN [val |-> InEffect(tbl, k), tbl |-> tbl]
    ELSE [val |-> v, tbl |-> Sethash(tbl, k, v)]

Remhash(tbl, k) == Sethash(tbl, k, KeyRemoved)

Rebind(pair, htbl) ==
  [htbl EXCEPT ![pair.key] = IF pair.val = KeyRemoved THEN Absent ELSE pair.val]

(* Mutant: the bindings are applied in the order of the list.              *)
RebuildLatestFirst(tbl) ==
  [htbl |-> FoldLeft(LAMBDA h, pair : Rebind(pair, h), tbl.htbl, tbl.alst),
   alst |-> <<>>]

(* The bindings are applied from the earliest to the latest.               *)
Rebuild(tbl) ==
  [htbl |-> FoldRight(Rebind, tbl.alst, tbl.htbl), alst |-> <<>>]
-----------------------------------------------------------------------------
(* A table in use, next to the map it stands for.                          *)
VARIABLES tbl, map

vars == <<tbl, map>>

Init ==
  /\ tbl = [htbl |-> [k \in Key |-> Absent], alst |-> <<>>]
  /\ map = [k \in Key |-> Absent]

Room == Len(tbl.alst) < MaxLayers

Add(k, v) ==
  /\ Room
  /\ tbl' = Sethash(tbl, k, v)
  /\ map' = [map EXCEPT ![k] = v]

FindOrAdd(k, v) ==
  /\ Room
  /\ tbl' = GethashOrAdd(tbl, k, v).tbl
  /\ map' = IF map[k] = Absent THEN [map EXCEPT ![k] = v] ELSE map

Drop(k) ==
  /\ Room
  /\ tbl' = Remhash(tbl, k)
  /\ map' = [map EXCEPT ![k] = Absent]

DoRebuild ==
  /\ tbl' = Rebuild(tbl)
  /\ UNCHANGED map

Next ==
  \/ \E k \in Key, v \in Val : Add(k, v) \/ FindOrAdd(k, v)
  \/ \E k \in Key : Drop(k)
  \/ DoRebuild

Spec == Init /\ [][Next]_vars

(* ADDing a pair "overwrites the previous value" (kvdb.lisp:150-151), the  *)
(* other keys keep theirs, and a look-up yields the value last added, or   *)
(* the default if there is none; and rebuilding, as done for every listing *)
(* of keys, every delta and every image, would change nothing of it        *)
(* (fpl-hashtable.lisp:78-99).                                             *)
StandsForMap ==
  /\ \A k \in Key, default \in Val \cup {Nil} :
       Gethash(tbl, k, default) = IF map[k] = Absent THEN default ELSE map[k]
  /\ \A k \in Key : InEffect(Rebuild(tbl), k) = InEffect(tbl, k)
=============================================================================
