----------------------------- MODULE MCRollout -----------------------------
(***************************************************************************)
(* Instances of Rollout for TLC: a new host or one in use, and a second    *)
(* admin-api elsewhere that seeds the same table.  The tags are            *)
(* interchangeable, so one of them may be taken to be the first; TLC's     *)
(* SYMMETRY would not be sound for AdminServes.                            *)
(***************************************************************************)
EXTENDS Rollout

CONSTANT First      \* the tag in use, or deployed first

FirstTag == deploys = 0 /\ deploys' = 1 => tag' = First

MCSpec ==
    /\ Init /\ state.current \in {None, First}
    /\ [][Next /\ FirstTag]_vars
    /\ Fairness

============================================================================
