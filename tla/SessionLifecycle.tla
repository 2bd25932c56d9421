-------------------------- MODULE SessionLifecycle --------------------------
(***************************************************************************)
(* What the refresh sessions of auth-api promise, without transactions,    *)
(* row locks or requests: a token is issued once to one user, is live      *)
(* until it is spent, and is exchanged for a fresh token of the same user  *)
(* and login in one step.  RefreshSessions implements this specification.  *)
(***************************************************************************)
CONSTANTS
    Tokens,   \* refresh tokens (one refresh_sessions row each)
    Users,    \* users that may log in
    NoToken, NoUser

VARIABLES
    live,     \* the user a token can be refreshed for, or NoUser
    spent,    \* tokens rotated, logged out or revoked
    family    \* the first token of the login a token descends from

vars == <<live, spent, family>>

Issued == {t \in Tokens : live[t] # NoUser} \cup spent

(* A table that may already be in use: a spent token is not live, and each *)
(* token that was issued has a family.                                     *)
Init ==
    /\ live \in [Tokens -> Users \cup {NoUser}]
    /\ spent \subseteq {t \in Tokens : live[t] = NoUser}
    /\ family \in [Tokens -> Tokens \cup {NoToken}]
    /\ \A t \in Issued : family[t] # NoToken

(* Login: a token never issued before becomes live for one user and starts *)
(* a family.                                                               *)
Issue(t, u) ==
    /\ t \notin Issued
    /\ live' = [live EXCEPT ![t] = u]
    /\ family' = [family EXCEPT ![t] = t]
    /\ UNCHANGED spent

(* Refresh: the live token o is spent and the fresh token n takes over for *)
(* its user and in its family.                                             *)
Exchange(o, n) ==
    /\ live[o] # NoUser
    /\ n \notin Issued
    /\ live' = [live EXCEPT ![o] = NoUser, ![n] = live[o]]
    /\ spent' = spent \cup {o}
    /\ family' = [family EXCEPT ![n] = family[o]]

(* Logout of one token or of every token of a user.                        *)
Spend(S) ==
    /\ \A t \in S : live[t] # NoUser
    /\ live' = [t \in Tokens |-> IF t \in S THEN NoUser ELSE live[t]]
    /\ spent' = spent \cup S
    /\ UNCHANGED family

Next ==
    \/ \E t \in Tokens, u \in Users : Issue(t, u)
    \/ \E o, n \in Tokens : Exchange(o, n)
    \/ \E S \in SUBSET Tokens : Spend(S)

Spec == Init /\ [][Next]_vars
=============================================================================
