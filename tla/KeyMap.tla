------------------------------- MODULE KeyMap -------------------------------
(***************************************************************************)
(* What a hash table promises: a map from keys to values that changes at   *)
(* one key at a time, never replaces a value in place and never holds more *)
(* than Limit of them.                                                     *)
(***************************************************************************)
EXTENDS Naturals, FiniteSets

CONSTANTS Keys, Values, Absent, Limit
VARIABLE map

Present == {k \in Keys : map[k] # Absent}

Init == map = [k \in Keys |-> Absent]

Put(k, v) ==
  /\ map[k] = Absent
  /\ Cardinality(Present) < Limit
  /\ map' = [map EXCEPT ![k] = v]

Del(k) == map[k] # Absent /\ map' = [map EXCEPT ![k] = Absent]

Next == \E k \in Keys : Del(k) \/ \E v \in Values : Put(k, v)

Spec == Init /\ [][Next]_map
=============================================================================
