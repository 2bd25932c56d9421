---------------------------- MODULE MCEmailWorker ----------------------------
(* Small instances of EmailWorker for TLC.                                 *)
EXTENDS EmailWorker

CONSTANT a1   \* the one recipient

(* All records go to the same address, so that they share its blacklist    *)
(* entry.                                                                  *)
SameRecipient == [m \in Records |-> a1]

(* A well-formed job may be pushed twice.                                  *)
Twice == [m \in Records |-> IF m \in Malformed THEN 1 ELSE 2]
=============================================================================
