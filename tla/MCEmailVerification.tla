------------------------- MODULE MCEmailVerification -------------------------
(* Small instances of EmailVerification for TLC.                           *)
EXTENDS EmailVerification, TLC

(* The request that came first when a run starts.                          *)
CONSTANT First

(* The others are interchangeable.                                         *)
Symmetry == Permutations(Requests \ {First})

Only(v, w) == [q \in Requests |-> IF q = First THEN v ELSE w]

(* At time 0 First has registered the address and was answered, or it has  *)
(* failed before it changed anything.                                      *)
Start ==
    \E ok \in BOOLEAN :
    /\ clock = 0
    /\ account = Only(IF ok THEN "pending" ELSE "none", "none")
    /\ holder = Only(IF ok THEN First ELSE None, None)
    /\ code = Only(IF ok THEN "open" ELSE "none", "none")
    /\ link = code
    /\ exp = Only(IF ok THEN TTL ELSE 0, 0)
    /\ created = Only(IF ok THEN 1 ELSE 0, 0)
    /\ attempts = [r \in Requests |-> 0]
    /\ record = Only(ok, FALSE)
    /\ pushed = IF ok THEN {First} ELSE {}
    /\ coolUntil = 0
    /\ kind = Only(IF ok THEN "register" ELSE "none", "none")
    /\ pc = Only("done", "idle")
    /\ resp = Only(IF ok THEN "ok" ELSE "error", "none")
    /\ now = [r \in Requests |-> 0]
    /\ stamp = [r \in Requests |-> 0]
    /\ arg = [r \in Requests |-> None]
    /\ seen = [r \in Requests |-> {}]
    /\ saved = [r \in Requests |-> [i \in Requests |-> 0]]
    /\ activations = [r \in Requests |-> 0]
    /\ guesses = [r \in Requests |-> 0]
    /\ revoked = {}
    /\ stale = [r \in Requests |-> FALSE]
    /\ owners = {}

StartSpec == Start /\ [][Next]_vars
=============================================================================
