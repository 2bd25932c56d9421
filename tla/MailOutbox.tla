----------------------------- MODULE MailOutbox -----------------------------
(***************************************************************************)
(* The contract between auth-api and the e-mail worker over email_records  *)
(* and the list email:send.  A record is issued once, and only by          *)
(* auth-api; its job reaches the list only after the record is committed;  *)
(* auth-api may withdraw the record, before or after that, and what is     *)
(* withdrawn never comes back.                                             *)
(***************************************************************************)
CONSTANT Mails

VARIABLES
    record,    \* mails whose email_records row exists
    issued,    \* mails that ever had one
    pushed     \* mails whose job has reached the list

vars == <<record, issued, pushed>>

Init ==
    /\ issued \in SUBSET Mails
    /\ record \in SUBSET issued
    /\ pushed \in SUBSET issued

Issue(m) ==
    /\ m \notin issued
    /\ record' = record \cup {m}
    /\ issued' = issued \cup {m}
    /\ UNCHANGED pushed

Push(m) ==
    /\ m \in issued
    /\ pushed' = pushed \cup {m}
    /\ UNCHANGED <<record, issued>>

Withdraw(M) ==
    /\ record' = record \ M
    /\ UNCHANGED <<issued, pushed>>

Next ==
    \/ \E m \in Mails : Issue(m) \/ Push(m)
    \/ \E M \in SUBSET record : Withdraw(M)

Spec == Init /\ [][Next]_vars
=============================================================================
