-------------------------- MODULE MCRefreshSessions --------------------------
(* Small instances of RefreshSessions for TLC.                             *)
EXTENDS RefreshSessions, Integers

(* The run starts after one user has logged in twice, so that two          *)
(* concurrent LogoutAll statements can lock the two rows in opposite order *)
(* while a third request refreshes one of them.                            *)
CONSTANTS LoggedIn, LoggedInUser, Last, Expiring

AfterLogins ==
    /\ owner = [t \in Tokens |-> IF t \in LoggedIn THEN LoggedInUser ELSE NoUser]
    /\ family = [t \in Tokens |-> IF t \in LoggedIn THEN t ELSE NoToken]
    /\ drawn = LoggedIn
    /\ revoked = {} /\ expired = {}
    /\ replacedBy = [t \in Tokens |-> NoToken]
    /\ lock = [t \in Tokens |-> NoRequest]
    /\ pc = [r \in Requests |-> "idle"]
    /\ resp = [r \in Requests |-> "none"]
    /\ old = [r \in Requests |-> NoToken]
    /\ new = [r \in Requests |-> NoToken]
    /\ target = [r \in Requests |-> NoUser]
    /\ todo = [r \in Requests |-> {}]
    /\ marked = [r \in Requests |-> {}]
    /\ snap = [r \in Requests |-> {}]

(* Requests are interchangeable: they are numbered in the order in which   *)
(* they start.  So are fresh tokens: Last is the one drawn last, and the   *)
(* string without a row that a client presents is one of the others.       *)
(* (TLC's own symmetry reduction is unsound for liveness.)                 *)
Numbered ==
    /\ Last \in drawn' \cup {old'[r] : r \in Requests} => drawn' = Tokens
    /\ \A r \in Requests : pc'[r] # "idle" => \A q \in 1 .. r : pc'[q] # "idle"

(* The rows that may expire during the run.                                *)
Expiries == expired' \subseteq Expiring

AfterLoginsSpec == AfterLogins /\ [][Next /\ Numbered /\ Expiries]_vars /\ Fairness
=============================================================================
