----------------------------- MODULE RateLimits -----------------------------
(***************************************************************************)
(* The Redis counters in front of Login: the fixed window per client IP of *)
(* the RateLimit middleware, and the counter of failed logins per IP and   *)
(* address.  Clients share one IP and one address.  A Redis command is one *)
(* step; INCR and the EXPIRE that follows it are two.                      *)
(***************************************************************************)
EXTENDS Integers, FiniteSets

CONSTANTS
    Clients,     \* concurrent clients, each sending one request after the other
    IpLimit,     \* limit of the middleware
    FailLimit,   \* LoginFailLimit
    MaxCount     \* bound on the middleware's counter

ASSUME LimitAssumption ==
    /\ IpLimit \in Nat /\ FailLimit \in Nat \ {0} /\ MaxCount \in Nat
    /\ IsFiniteSet(Clients)

Keys == {"ip", "login"}

VARIABLES
    count,       \* value of a key, 0 when it does not exist
    ttl,         \* the key has an expiry
    pc, n,       \* per client: next step, result of its INCR
    \* history
    admitted,    \* requests the middleware let through since its window began
    orphaned     \* keys whose EXPIRE was lost to a fault

history == <<admitted, orphaned>>
vars == <<count, ttl, pc, n, history>>

PC == {"idle", "ip_counted", "admitted", "allowed", "failing", "login_counted", "clearing"}
Goto(c, l) == pc' = [pc EXCEPT ![c] = l]

TypeOK ==
    /\ count \in [Keys -> Nat]
    /\ ttl \in [Keys -> BOOLEAN]
    /\ pc \in [Clients -> PC]
    /\ n \in [Clients -> Nat]
    /\ admitted \in Nat
    /\ orphaned \subseteq Keys

Init ==
    /\ count = [k \in Keys |-> 0]
    /\ ttl = [k \in Keys |-> FALSE]
    /\ pc = [c \in Clients |-> "idle"]
    /\ n = [c \in Clients |-> 0]
    /\ admitted = 0
    /\ orphaned = {}
-----------------------------------------------------------------------------
Incr(c, k) ==
    /\ count' = [count EXCEPT ![k] = @ + 1]
    /\ n' = [n EXCEPT ![c] = count[k] + 1]

(* EXPIRE does nothing to a key that is gone; its error is ignored.        *)
Expire(k) ==
    \/ /\ ttl' = [ttl EXCEPT ![k] = count[k] > 0]
       /\ orphaned' = orphaned \ {k}
    \/ /\ UNCHANGED ttl
       /\ orphaned' = orphaned \cup {k}

(* DEL, or the end of the window.                                          *)
Delete(k) ==
    /\ count' = [count EXCEPT ![k] = 0]
    /\ ttl' = [ttl EXCEPT ![k] = FALSE]
    /\ admitted' = IF k = "ip" THEN 0 ELSE admitted
    /\ orphaned' = orphaned \ {k}

(* RateLimit: INCR ...                                                     *)
IpIncr(c) ==
    /\ pc[c] = "idle"
    /\ count["ip"] < MaxCount
    /\ Incr(c, "ip")
    /\ Goto(c, "ip_counted")
    /\ UNCHANGED <<ttl, history>>

(* Mutant: the limit is off by one.                                        *)
OverLimitLate(i) == i > IpLimit + 1

OverLimit(i) == i > IpLimit

(* ... then EXPIRE by the first request of a window, and the verdict.      *)
IpDecide(c) ==
    /\ pc[c] = "ip_counted"
    /\ \/ n[c] = 1 /\ Expire("ip")
       \/ n[c] # 1 /\ UNCHANGED <<ttl, orphaned>>
    /\ \/ /\ OverLimit(n[c])
          /\ Goto(c, "idle")
          /\ UNCHANGED admitted
       \/ /\ ~OverLimit(n[c])
          /\ Goto(c, "admitted")
          /\ admitted' = admitted + 1
    /\ n' = [n EXCEPT ![c] = 0]
    /\ UNCHANGED count

(* Mutant: the limit is off by one.                                        *)
LoginLimitedLate == count["login"] > FailLimit

LoginLimited == count["login"] >= FailLimit

(* isLoginRateLimited.                                                     *)
CheckLogin(c) ==
    /\ pc[c] = "admitted"
    /\ Goto(c, IF LoginLimited THEN "idle" ELSE "allowed")
    /\ UNCHANGED <<count, ttl, n, history>>

(* What GetLoginUserByEmail and the password say: a good login, a user who *)
(* is unverified or inactive and turned away uncounted, or a failure.      *)
Verdicts == {"clearing", "idle", "failing"}

CheckPassword(c) ==
    /\ pc[c] = "allowed"
    /\ \E l \in Verdicts : Goto(c, l)
    /\ UNCHANGED <<count, ttl, n, history>>

(* Mutant: the EXPIRE is left out.                                         *)
LoginIncrNoExpire(c) ==
    /\ pc[c] = "failing"
    /\ count' = [count EXCEPT !["login"] = @ + 1]
    /\ Goto(c, "idle")
    /\ UNCHANGED <<ttl, n, history>>

(* increaseLoginFailCount: INCR, then EXPIRE by the first.                 *)
LoginIncr(c) ==
    /\ pc[c] = "failing"
    /\ \/ /\ count["login"] = 0
          /\ Incr(c, "login")
          /\ Goto(c, "login_counted")
       \/ /\ count["login"] # 0
          /\ count' = [count EXCEPT !["login"] = @ + 1]
          /\ Goto(c, "idle")
          /\ UNCHANGED n
    /\ UNCHANGED <<ttl, history>>

LoginExpire(c) ==
    /\ pc[c] = "login_counted"
    /\ Expire("login")
    /\ Goto(c, "idle")
    /\ n' = [n EXCEPT ![c] = 0]
    /\ UNCHANGED <<count, admitted>>

(* Mutant: one failure is forgiven instead of all.                         *)
LoginDelOne(c) ==
    /\ pc[c] = "clearing"
    /\ count' = [count EXCEPT !["login"] = @ - 1]
    /\ Goto(c, "idle")
    /\ UNCHANGED <<ttl, n, history>>

(* A successful login deletes the counter.                                 *)
LoginDel(c) ==
    /\ pc[c] = "clearing"
    /\ Delete("login")
    /\ Goto(c, "idle")
    /\ UNCHANGED n

(* Redis removes a key whose window is over.                               *)
WindowEnds(k) ==
    /\ ttl[k]
    /\ Delete(k)
    /\ UNCHANGED <<pc, n>>

(* The first request of a window has still to give its key an expiry.      *)
Owes(c, k) ==
    \/ k = "ip" /\ pc[c] = "ip_counted" /\ n[c] = 1
    \/ k = "login" /\ pc[c] = "login_counted"

(* The request dies: a crash, a failed command, a failed query.            *)
Fail(c) ==
    /\ pc[c] # "idle"
    /\ Goto(c, "idle")
    /\ n' = [n EXCEPT ![c] = 0]
    /\ orphaned' = orphaned \cup {k \in Keys : Owes(c, k)}
    /\ UNCHANGED <<count, ttl, admitted>>

Step(c) ==
    \/ IpDecide(c) \/ CheckLogin(c) \/ CheckPassword(c)
    \/ LoginIncr(c) \/ LoginExpire(c) \/ LoginDel(c)

Next ==
    \/ \E c \in Clients : IpIncr(c) \/ Step(c) \/ Fail(c)
    \/ \E k \in Keys : WindowEnds(k)

Spec == Init /\ [][Next]_vars

(* Handlers run to their end, and Redis expires keys.                      *)
Fairness ==
    /\ \A c \in Clients : WF_vars(Step(c))
    /\ \A k \in Keys : WF_vars(WindowEnds(k))

FairSpec == Spec /\ Fairness
-----------------------------------------------------------------------------
(* The check and the increment of the failure counter are separate, so     *)
(* concurrent logins overshoot: but the wrong passwords of a window,       *)
(* counted or about to be, exceed the limit by no more than the other      *)
(* clients that passed the check.                                          *)
FailuresBounded ==
    count["login"] + Cardinality({c \in Clients : pc[c] = "failing"})
        <= FailLimit + Cardinality(Clients) - 1

(* A window admits IpLimit requests of its own, whatever fails, and        *)
(* besides them only requests that were counted in the window before and   *)
(* decided late, one per client.                                           *)
AdmittedBounded ==
    admitted <= IpLimit + Cardinality(Clients)

Exhausted(k) == count[k] >= IF k = "ip" THEN IpLimit + 1 ELSE FailLimit

(* An exhausted counter does not stay exhausted, unless a fault fell       *)
(* between its INCR and its EXPIRE.                                        *)
LimitsLift ==
    \A k \in Keys : Exhausted(k) ~> count[k] = 0 \/ k \in orphaned

(* README: "Redis fixed-window rate limiting".  A window has an end: an    *)
(* exhausted counter is always reset.                                      *)
FixedWindow ==
    \A k \in Keys : Exhausted(k) ~> count[k] = 0
=============================================================================
