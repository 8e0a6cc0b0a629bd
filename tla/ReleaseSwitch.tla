---------------------------- MODULE ReleaseSwitch ----------------------------
(***************************************************************************)
(* What a deployment promises, seen from outside: one committed record     *)
(* names the release in use and the one to return to, and an apply, a      *)
(* rollback or an uninstall replaces it in a single step that advances the *)
(* generation by one.  No crash, failed call or recovery is visible here.  *)
(* Deployment.tla is shown to implement this specification.                *)
(***************************************************************************)
EXTENDS Naturals

CONSTANTS
    Releases,   \* the releases that can be installed
    None        \* no release, and the record before the first deployment

VARIABLE current    \* the committed deployment record, or None

Generation == IF current = None THEN 0 ELSE current.generation

Installed == current # None /\ current.active # None

Running == {"active", "foreground"}

Init == current = None

\* The release in use becomes r.  The release it replaces is kept to return to;
\* applying the release already in use keeps the one kept before.
Apply(r) == \E how \in Running :
    current' = [generation |-> Generation + 1, status |-> how, active |-> r,
                previous |-> IF ~Installed THEN None
                             ELSE IF current.active # r THEN current.active
                             ELSE current.previous]

\* The two releases of the record change places.
Rollback == \E how \in Running :
    /\ Installed
    /\ current.previous # None
    /\ current' = [generation |-> Generation + 1, status |-> how,
                   active |-> current.previous, previous |-> current.active]

\* No release is in use; the record remembers the last one.
Uninstall ==
    /\ current = None \/ Installed
    /\ current' = [generation |-> Generation + 1, status |-> "uninstalled", active |-> None,
                   previous |-> IF Installed THEN current.active ELSE None]

Next == (\E r \in Releases : Apply(r)) \/ Rollback \/ Uninstall

Spec == Init /\ [][Next]_current
=============================================================================
