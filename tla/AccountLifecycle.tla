-------------------------- MODULE AccountLifecycle --------------------------
(***************************************************************************)
(* What auth-api promises about the account of one e-mail address: it is   *)
(* created once at a time, becomes active by one verification that alone   *)
(* reports account_activated, and can be dropped only before that.         *)
(***************************************************************************)
EXTENDS Naturals

CONSTANT Accounts

VARIABLES
    account,       \* none, pending, active, deleted
    activations    \* times the activation of an account was reported

vars == <<account, activations>>

Current == {a \in Accounts : account[a] \in {"pending", "active"}}

(* A database in use: at most one account holds the address.               *)
Init ==
    /\ account \in [Accounts -> {"none", "pending", "active", "deleted"}]
    /\ \A a, b \in Current : a = b
    /\ activations = [a \in Accounts |-> IF account[a] = "active" THEN 1 ELSE 0]

Create(a) ==
    /\ Current = {}
    /\ account[a] = "none"
    /\ account' = [account EXCEPT ![a] = "pending"]
    /\ UNCHANGED activations

Activate(a) ==
    /\ account[a] = "pending"
    /\ account' = [account EXCEPT ![a] = "active"]
    /\ activations' = [activations EXCEPT ![a] = @ + 1]

Drop(a) ==
    /\ account[a] = "pending"
    /\ account' = [account EXCEPT ![a] = "deleted"]
    /\ UNCHANGED activations

Next == \E a \in Accounts : Create(a) \/ Activate(a) \/ Drop(a)

Spec == Init /\ [][Next]_vars
=============================================================================
