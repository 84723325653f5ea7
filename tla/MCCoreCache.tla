---------------------------- MODULE MCCoreCache ----------------------------
(***************************************************************************)
(* Two versions of a file that do not fit in the cache together, declared  *)
(* smaller than they are, with one download and one replication job at a   *)
(* time; and one version, declared larger than it is, with two downloads   *)
(* that compete for its lock.                                              *)
(***************************************************************************)
EXTENDS CoreCache, TLC

CONSTANTS r1, r2, a, b

MCKeys == {a, b}
MCFileOf == [k \in MCKeys |-> "f"]
MCSize == [k \in MCKeys |-> 2]
MCDeclared == [k \in MCKeys |-> 1]
Symmetry == Permutations(MCKeys)

MCOneKey == {a}
MCOneFileOf == [k \in MCOneKey |-> "f"]
MCOneSize == [k \in MCOneKey |-> 1]
MCOneDeclared == [k \in MCOneKey |-> 2]
=============================================================================
