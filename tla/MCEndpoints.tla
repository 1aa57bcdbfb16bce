---------------------------- MODULE MCEndpoints ----------------------------
(***************************************************************************)
(* Instances of Endpoints for TLC: two identities with one destination     *)
(* hash each, for which the sessions contend.                              *)
(***************************************************************************)
EXTENDS Endpoints, TLC

CONSTANTS i1, i2, h1, h2

TwoIdentities == {i1, i2}
TwoHashes == {h1, h2}
OneEach == [h \in Hash |-> IF h = h1 THEN i1 ELSE i2]

Symmetry == Permutations(Session)
=============================================================================
