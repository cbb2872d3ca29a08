---------------------------- MODULE MC_HashTable ----------------------------
(* Instances of HashTable: keys a and b share line 0, c is alone on line 1.  *)
EXTENDS HashTable, TLC

MCKeys == {"a", "b", "c"}
MCValues == {"a1", "b1", "c1"}
MCKeyOf == [v \in MCValues |-> CASE v = "a1" -> "a" [] v = "b1" -> "b" [] OTHER -> "c"]
MCLineOf == [k \in MCKeys |-> IF k = "c" THEN 1 ELSE 0]
MCMatchSets == {MCValues, {"b1", "c1"}}

\* A smaller instance: one key to a line.
SmallKeys == {"a", "c"}
SmallValues == {"a1", "c1"}
SmallKeyOf == [v \in SmallValues |-> IF v = "a1" THEN "a" ELSE "c"]
SmallLineOf == [k \in SmallKeys |-> IF k = "c" THEN 1 ELSE 0]
SmallMatchSets == {SmallValues}

Symmetry == Permutations(Threads) \cup Permutations(Entries)
=============================================================================
