--------------------------- MODULE VersionVectors ---------------------------
(***************************************************************************)
(* The version vectors of record revisions (store/models.go).  A vector    *)
(* maps a device to the highest counter of that device its revision has    *)
(* seen.  The wire form lists only the devices with a positive counter;    *)
(* here an absent entry is the counter 0, which is how vectorDominates     *)
(* reads a missing map key.                                                *)
(***************************************************************************)
EXTENDS Naturals

CONSTANT Device

Vector == [Device -> Nat]

\* v is at least w everywhere and larger somewhere.
Dominates(v, w) ==
  /\ \A d \in Device : v[d] >= w[d]
  /\ \E d \in Device : v[d] > w[d]

\* The members of S that no member of S of the same record dominates, where R
\* maps the members of S to revisions.  This is the frontier that replaying S
\* in any order one revision at a time arrives at: domination is transitive.
Frontier(R, S) ==
  {c \in S : \A x \in S :
     R[x].record = R[c].record => ~Dominates(R[x].vec, R[c].vec)}

=============================================================================
