---------------------------- MODULE MCKpiReport ----------------------------
(***************************************************************************)
(* Instance of KpiReport for TLC.  The users are interchangeable and the   *)
(* properties are invariants.                                              *)
(***************************************************************************)
EXTENDS KpiReport, TLC

Symmetry == Permutations(Users)

============================================================================
