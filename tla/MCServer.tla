------------------------------ MODULE MCServer ------------------------------
(***************************************************************************)
(* A small instance of Server for TLC.                                     *)
(***************************************************************************)
EXTENDS Server, TLC

CONSTANTS p1, p2, i1, i2, s1, s2, g1, g2, d1, d2, e1, e2

\* Two devices and their enrollment requests.
TwoApplicants == {[id |-> e1, device |-> d1, token |-> 1], [id |-> e2, device |-> d2, token |-> 1]}

Symmetric == Permutations(Processes)
=============================================================================
