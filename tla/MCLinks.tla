------------------------------ MODULE MCLinks ------------------------------
(***************************************************************************)
(* Instances of Links for TLC: one call, and calls that contend for one    *)
(* destination.                                                            *)
(***************************************************************************)
EXTENDS Links, TLC

CONSTANTS o1, o2, d1

OneCall == {o1}
TwoCalls == {o1, o2}
OneDest == {d1}

SharedTarget == [o \in Open |-> d1]

Symmetry == Permutations(Open)
=============================================================================
