-------------------------- MODULE RateLimitsProofs --------------------------
(***************************************************************************)
(* For any number of clients and any limits: how far concurrent requests   *)
(* overshoot the two Redis counters.                                       *)
(***************************************************************************)
EXTENDS RateLimits, FiniteSetTheorems, TLAPS

(* Clients past the check of the failure counter that may still count up.  *)
Guessing == {c \in Clients : pc[c] \in {"allowed", "failing"}}

(* Clients counted within the limit whose verdict is still to come.        *)
Passing == {c \in Clients : pc[c] = "ip_counted" /\ ~OverLimit(n[c])}

Counted == IF count["ip"] <= IpLimit THEN count["ip"] ELSE IpLimit

(* The guesses under way are paid for before they are counted, and so are  *)
(* the admissions; the other window's requests are one per client.         *)
LimitsInv ==
    /\ TypeOK
    /\ count["login"] + Cardinality(Guessing) <= FailLimit + Cardinality(Clients) - 1
    /\ admitted + Cardinality(Passing) <= Counted + Cardinality(Clients)

(* A set of clients is finite, no larger than all of them, and changes its *)
(* size by one when one client joins or leaves.                            *)
LEMMA Sizes ==
    ASSUME NEW S \in SUBSET Clients, NEW c \in Clients
    PROVE  /\ IsFiniteSet(S) /\ Cardinality(S) \in Nat /\ Cardinality(Clients) \in Nat
           /\ Cardinality(S) <= Cardinality(Clients)
           /\ c \notin S => Cardinality(S \cup {c}) = Cardinality(S) + 1
           /\ c \in S => Cardinality(S \ {c}) = Cardinality(S) - 1
<1>1. IsFiniteSet(Clients)
  BY LimitAssumption DEF LimitAssumption
<1>2. IsFiniteSet(S) /\ Cardinality(S) <= Cardinality(Clients)
  BY <1>1, FS_Subset
<1>3. Cardinality(S) \in Nat /\ Cardinality(Clients) \in Nat
  BY <1>1, <1>2, FS_CardinalityType
<1>4. c \notin S => Cardinality(S \cup {c}) = Cardinality(S) + 1
  BY <1>2, FS_AddElement
<1>5. c \in S => Cardinality(S \ {c}) = Cardinality(S) - 1
  BY <1>2, FS_RemoveElement
<1> QED  BY <1>2, <1>3, <1>4, <1>5

(* A step that takes client c from Guessing or leaves it, and counts no    *)
(* more failures than clients it takes, keeps the bound on failures.       *)
LEMMA FailuresKept ==
    ASSUME LimitsInv, TypeOK', NEW c \in Clients,
           \/ Guessing' = Guessing /\ count'["login"] = count["login"]
           \/ Guessing' = Guessing \ {c} /\ count'["login"] = count["login"]
           \/ c \in Guessing /\ Guessing' = Guessing \ {c} /\ count'["login"] = count["login"] + 1
           \/ count["login"] < FailLimit /\ count'["login"] = count["login"]
           \/ count'["login"] = 0
    PROVE  count'["login"] + Cardinality(Guessing') <= FailLimit + Cardinality(Clients) - 1
<1>1. /\ Cardinality(Guessing) \in Nat /\ Cardinality(Clients) \in Nat
      /\ c \in Guessing => Cardinality(Guessing \ {c}) = Cardinality(Guessing) - 1
  BY Sizes DEF Guessing
<1>2. Cardinality(Guessing') \in Nat /\ Cardinality(Guessing') <= Cardinality(Clients)
  BY Sizes DEF Guessing
<1>3. c \notin Guessing => Guessing \ {c} = Guessing
  OBVIOUS
<1>4. /\ count["login"] \in Nat /\ count'["login"] \in Nat /\ FailLimit \in Nat \ {0}
      /\ count["login"] + Cardinality(Guessing) <= FailLimit + Cardinality(Clients) - 1
  BY LimitAssumption DEF LimitAssumption, LimitsInv, TypeOK, Keys
<1>5. Guessing' = Guessing => Cardinality(Guessing') = Cardinality(Guessing)
  BY Zenon
<1>6. Guessing' = Guessing \ {c} =>
        \/ c \in Guessing /\ Cardinality(Guessing') = Cardinality(Guessing) - 1
        \/ c \notin Guessing /\ Cardinality(Guessing') = Cardinality(Guessing)
  BY <1>1, <1>3, Zenon
<1> HIDE DEF Guessing
<1> QED  BY <1>1, <1>2, <1>4, <1>5, <1>6

(* Likewise the bound on admissions: a client joins Passing with a count   *)
(* within the limit and leaves it with at most one admission.              *)
LEMMA AdmissionsKept ==
    ASSUME LimitsInv, TypeOK', NEW c \in Clients,
           \/ Passing' = Passing /\ count'["ip"] = count["ip"] /\ admitted' = admitted
           \/ Passing' = Passing \ {c} /\ count'["ip"] = count["ip"] /\ admitted' = admitted
           \/ /\ c \in Passing /\ Passing' = Passing \ {c}
              /\ count'["ip"] = count["ip"] /\ admitted' = admitted + 1
           \/ /\ count["ip"] + 1 <= IpLimit /\ c \notin Passing /\ Passing' = Passing \cup {c}
              /\ count'["ip"] = count["ip"] + 1 /\ admitted' = admitted
           \/ /\ count["ip"] + 1 > IpLimit /\ Passing' = Passing
              /\ count'["ip"] = count["ip"] + 1 /\ admitted' = admitted
           \/ count'["ip"] = 0 /\ admitted' = 0
    PROVE  admitted' + Cardinality(Passing') <= Counted' + Cardinality(Clients)
<1>1. /\ Cardinality(Passing) \in Nat /\ Cardinality(Clients) \in Nat
      /\ c \in Passing => Cardinality(Passing \ {c}) = Cardinality(Passing) - 1
      /\ c \notin Passing => Cardinality(Passing \cup {c}) = Cardinality(Passing) + 1
  BY Sizes DEF Passing
<1>2. Cardinality(Passing') \in Nat /\ Cardinality(Passing') <= Cardinality(Clients)
  BY Sizes DEF Passing
<1>3. c \notin Passing => Passing \ {c} = Passing
  OBVIOUS
<1>4. /\ count["ip"] \in Nat /\ count'["ip"] \in Nat /\ IpLimit \in Nat
      /\ admitted \in Nat /\ admitted' \in Nat
      /\ admitted + Cardinality(Passing) <= Counted + Cardinality(Clients)
  BY LimitAssumption DEF LimitAssumption, LimitsInv, TypeOK, Keys
<1>5. Passing' = Passing => Cardinality(Passing') = Cardinality(Passing)
  BY Zenon
<1>6. Passing' = Passing \ {c} =>
        \/ c \in Passing /\ Cardinality(Passing') = Cardinality(Passing) - 1
        \/ c \notin Passing /\ Cardinality(Passing') = Cardinality(Passing)
  BY <1>1, <1>3, Zenon
<1>7. c \notin Passing /\ Passing' = Passing \cup {c} => Cardinality(Passing') = Cardinality(Passing) + 1
  BY <1>1, Zenon
<1> HIDE DEF Passing
<1> QED  BY <1>1, <1>2, <1>4, <1>5, <1>6, <1>7 DEF Counted

(* EXPIRE keeps the types of what it writes.                               *)
LEMMA ExpireTypes ==
    ASSUME TypeOK, NEW k \in Keys, Expire(k)
    PROVE  ttl' \in [Keys -> BOOLEAN] /\ orphaned' \subseteq Keys
<1>1. (count[k] > 0) \in BOOLEAN
  BY DEF TypeOK
<1>2. ttl' \in [Keys -> BOOLEAN]
  BY <1>1, Zenon DEF Expire, TypeOK
<1>3. orphaned' \subseteq Keys
  BY DEF Expire, TypeOK
<1> QED  BY <1>2, <1>3

(* The requests of the middleware.                                         *)
LEMMA IpSteps == ASSUME LimitsInv, NEW c \in Clients, IpIncr(c) \/ IpDecide(c) PROVE LimitsInv'
<1>0. IpLimit \in Nat
  BY LimitAssumption DEF LimitAssumption
<1>1. CASE IpIncr(c)
  <2> USE <1>1 DEF IpIncr, Incr, Goto, history
  <2>1. TypeOK'
    BY DEF LimitsInv, TypeOK, Keys, PC
  <2>2. /\ pc[c] = "idle" /\ pc'[c] = "ip_counted" /\ n'[c] = count["ip"] + 1
        /\ \A d \in Clients \ {c} : pc'[d] = pc[d] /\ n'[d] = n[d]
        /\ count'["ip"] = count["ip"] + 1 /\ count'["login"] = count["login"] /\ admitted' = admitted
    BY DEF LimitsInv, TypeOK, Keys
  <2>3. Guessing' = Guessing
    BY <2>2 DEF Guessing
  <2>4. c \notin Passing /\ Passing' = IF OverLimit(count["ip"] + 1) THEN Passing ELSE Passing \cup {c}
    BY <2>2 DEF Passing, OverLimit
  <2>5. OverLimit(count["ip"] + 1) <=> ~(count["ip"] + 1 <= IpLimit)
    BY <1>0 DEF LimitsInv, TypeOK, Keys, OverLimit
  <2>6. count["ip"] + 1 <= IpLimit \/ count["ip"] + 1 > IpLimit
    BY <1>0 DEF LimitsInv, TypeOK, Keys
  <2>7. count'["login"] + Cardinality(Guessing') <= FailLimit + Cardinality(Clients) - 1
    BY <2>1, <2>2, <2>3, FailuresKept
  <2>8. admitted' + Cardinality(Passing') <= Counted' + Cardinality(Clients)
    BY <2>1, <2>2, <2>4, <2>5, <2>6, AdmissionsKept
  <2> QED  BY <2>1, <2>7, <2>8 DEF LimitsInv
<1>2. CASE IpDecide(c)
  <2>1. TypeOK'
    <3>1. ttl' \in [Keys -> BOOLEAN] /\ orphaned' \subseteq Keys
      BY <1>2, ExpireTypes DEF IpDecide, LimitsInv, TypeOK, Keys
    <3> QED  BY <1>2, <3>1 DEF IpDecide, Goto, LimitsInv, TypeOK, PC
  <2>2. /\ pc[c] = "ip_counted" /\ pc'[c] \in {"idle", "admitted"} /\ count' = count
        /\ \A d \in Clients \ {c} : pc'[d] = pc[d] /\ n'[d] = n[d]
        /\ admitted' = IF OverLimit(n[c]) THEN admitted ELSE admitted + 1
    BY <1>2 DEF IpDecide, Goto, LimitsInv, TypeOK
  <2>3. Guessing' = Guessing
    BY <2>2 DEF Guessing
  <2>4. Passing' = Passing \ {c} /\ (c \in Passing <=> ~OverLimit(n[c]))
    BY <2>2 DEF Passing, OverLimit
  <2>5. count'["login"] + Cardinality(Guessing') <= FailLimit + Cardinality(Clients) - 1
    BY <2>1, <2>2, <2>3, FailuresKept
  <2>6. admitted' + Cardinality(Passing') <= Counted' + Cardinality(Clients)
    BY <2>1, <2>2, <2>4, AdmissionsKept
  <2> QED  BY <2>1, <2>5, <2>6 DEF LimitsInv
<1> QED  BY <1>1, <1>2

(* The steps of Login.                                                     *)
LEMMA LoginSteps ==
    ASSUME LimitsInv, NEW c \in Clients,
           \/ CheckLogin(c) \/ CheckPassword(c) \/ LoginIncr(c) \/ LoginExpire(c) \/ LoginDel(c)
           \/ Fail(c)
    PROVE  LimitsInv'
<1>1. TypeOK'
  <2>1. ttl' \in [Keys -> BOOLEAN] /\ orphaned' \subseteq Keys
    <3>1. CASE LoginExpire(c)
      BY <3>1, ExpireTypes DEF LoginExpire, LimitsInv, Keys
    <3>2. CASE LoginDel(c)
      BY <3>2 DEF LoginDel, Delete, LimitsInv, TypeOK
    <3>3. CASE UNCHANGED ttl /\ (UNCHANGED orphaned \/ Fail(c))
      BY <3>3 DEF Fail, LimitsInv, TypeOK
    <3> QED
      BY <3>1, <3>2, <3>3 DEF CheckLogin, CheckPassword, LoginIncr, Fail, history
  <2>2. count' \in [Keys -> Nat] /\ admitted' \in Nat
    BY DEF CheckLogin, CheckPassword, LoginIncr, LoginExpire, LoginDel, Fail, Delete, Incr, history,
           LimitsInv, TypeOK, Keys
  <2>3. pc' \in [Clients -> PC]
    BY DEF CheckLogin, CheckPassword, LoginIncr, LoginExpire, LoginDel, Fail, Goto, Verdicts,
           LimitsInv, TypeOK, PC
  <2>4. n' \in [Clients -> Nat]
    BY DEF CheckLogin, CheckPassword, LoginIncr, LoginExpire, LoginDel, Fail, Incr,
           LimitsInv, TypeOK, Keys
  <2> QED  BY <2>1, <2>2, <2>3, <2>4 DEF TypeOK
<1>2. /\ \A d \in Clients \ {c} : pc'[d] = pc[d] /\ n'[d] = n[d]
      /\ pc'[c] # "ip_counted"
      /\ count'["ip"] = count["ip"] /\ admitted' = admitted
  BY DEF CheckLogin, CheckPassword, LoginIncr, LoginExpire, LoginDel, Fail, Goto, Incr, Delete,
         Verdicts, history, LimitsInv, TypeOK, Keys
<1>3. Passing' = Passing \ {c}
  BY <1>2 DEF Passing, OverLimit
<1>4. admitted' + Cardinality(Passing') <= Counted' + Cardinality(Clients)
  BY <1>1, <1>2, <1>3, AdmissionsKept
<1>5. count'["login"] + Cardinality(Guessing') <= FailLimit + Cardinality(Clients) - 1
  <2>1. CASE CheckLogin(c)
    <3>1. CASE count["login"] < FailLimit
      BY <1>1, <2>1, <3>1, FailuresKept DEF CheckLogin
    <3>2. CASE ~(count["login"] < FailLimit)
      <4>1. LoginLimited
        BY <3>2, LimitAssumption DEF LimitAssumption, LoginLimited, LimitsInv, TypeOK, Keys
      <4>2. pc'[c] = "idle"
        BY <2>1, <4>1 DEF CheckLogin, Goto, LimitsInv, TypeOK
      <4>3. Guessing' = Guessing \ {c}
        BY <1>2, <4>2 DEF Guessing
      <4> QED  BY <1>1, <2>1, <4>3, FailuresKept DEF CheckLogin
    <3> QED  BY <3>1, <3>2
  <2>2. CASE CheckPassword(c)
    <3>1. pc[c] = "allowed" /\ count' = count
      BY <2>2 DEF CheckPassword
    <3>2. Guessing' = Guessing \/ Guessing' = Guessing \ {c}
      BY <1>2, <3>1 DEF Guessing
    <3> QED  BY <1>1, <3>1, <3>2, FailuresKept
  <2>3. CASE LoginIncr(c)
    <3>1. /\ pc[c] = "failing" /\ pc'[c] \in {"login_counted", "idle"}
          /\ count'["login"] = count["login"] + 1
      BY <2>3 DEF LoginIncr, Goto, Incr, LimitsInv, TypeOK, Keys
    <3>2. c \in Guessing /\ Guessing' = Guessing \ {c}
      BY <1>2, <3>1 DEF Guessing
    <3> QED  BY <1>1, <3>1, <3>2, FailuresKept
  <2>4. CASE LoginExpire(c) \/ Fail(c)
    <3>1. pc'[c] = "idle" /\ count' = count
      BY <2>4 DEF LoginExpire, Fail, Goto, LimitsInv, TypeOK
    <3>2. Guessing' = Guessing \ {c}
      BY <1>2, <3>1 DEF Guessing
    <3> QED  BY <1>1, <3>1, <3>2, FailuresKept
  <2>5. CASE LoginDel(c)
    <3>1. count'["login"] = 0
      BY <2>5 DEF LoginDel, Delete, LimitsInv, TypeOK, Keys
    <3> QED  BY <1>1, <3>1, FailuresKept
  <2> QED  BY <2>1, <2>2, <2>3, <2>4, <2>5
<1> QED  BY <1>1, <1>4, <1>5 DEF LimitsInv

(* The end of a window.                                                    *)
LEMMA WindowStep == ASSUME LimitsInv, NEW k \in Keys, WindowEnds(k) PROVE LimitsInv'
<1> USE DEF WindowEnds, Delete
<1>1. TypeOK'
  BY DEF LimitsInv, TypeOK, Keys
<1>2. /\ Guessing' = Guessing /\ Passing' = Passing
      /\ Cardinality(Guessing') = Cardinality(Guessing) /\ Cardinality(Passing') = Cardinality(Passing)
  BY Zenon DEF Guessing, Passing, OverLimit
<1>3. /\ Cardinality(Guessing) \in Nat /\ Cardinality(Guessing) <= Cardinality(Clients)
      /\ Cardinality(Passing) \in Nat /\ Cardinality(Passing) <= Cardinality(Clients)
      /\ Cardinality(Clients) \in Nat
  <2>1. Guessing \in SUBSET Clients /\ Passing \in SUBSET Clients /\ IsFiniteSet(Clients)
    BY LimitAssumption DEF LimitAssumption, Guessing, Passing
  <2> QED  BY <2>1, FS_Subset, FS_CardinalityType
<1>4. \/ count'["login"] = 0 /\ count'["ip"] = count["ip"] /\ admitted' = admitted
      \/ count'["login"] = count["login"] /\ count'["ip"] = 0 /\ admitted' = 0
  BY DEF LimitsInv, TypeOK, Keys
<1>5. /\ count["login"] \in Nat /\ count["ip"] \in Nat /\ admitted \in Nat
      /\ FailLimit \in Nat \ {0} /\ IpLimit \in Nat
      /\ count["login"] + Cardinality(Guessing) <= FailLimit + Cardinality(Clients) - 1
      /\ admitted + Cardinality(Passing) <= Counted + Cardinality(Clients)
  BY LimitAssumption DEF LimitAssumption, LimitsInv, TypeOK, Keys
<1> HIDE DEF WindowEnds, Delete
<1>6. count'["login"] + Cardinality(Guessing') <= FailLimit + Cardinality(Clients) - 1
  BY <1>2, <1>3, <1>4, <1>5
<1>7. admitted' + Cardinality(Passing') <= Counted' + Cardinality(Clients)
  BY <1>2, <1>3, <1>4, <1>5 DEF Counted
<1> QED  BY <1>1, <1>6, <1>7 DEF LimitsInv

(* The invariant holds at the start and every step keeps it.               *)
THEOREM Invariance == Spec => []LimitsInv
<1>1. Init => LimitsInv
  <2> SUFFICES ASSUME Init PROVE LimitsInv
    OBVIOUS
  <2>1. TypeOK
    BY DEF Init, TypeOK, Keys, PC
  <2>2. Guessing = {} /\ Passing = {}
    BY DEF Init, Guessing, Passing
  <2>3. Cardinality(Guessing) = 0 /\ Cardinality(Passing) = 0
    BY <2>2, FS_EmptySet
  <2>4. Cardinality(Clients) \in Nat /\ FailLimit \in Nat \ {0} /\ IpLimit \in Nat
    BY LimitAssumption, FS_CardinalityType DEF LimitAssumption
  <2>5. count["login"] = 0 /\ count["ip"] = 0 /\ admitted = 0
    BY DEF Init, Keys
  <2> QED  BY <2>1, <2>3, <2>4, <2>5 DEF LimitsInv, Counted
<1>2. LimitsInv /\ [Next]_vars => LimitsInv'
  <2> SUFFICES ASSUME LimitsInv, [Next]_vars PROVE LimitsInv'
    OBVIOUS
  <2>1. CASE UNCHANGED vars
    BY <2>1 DEF vars, history, LimitsInv, TypeOK, Guessing, Passing, Counted, OverLimit
  <2>2. CASE Next
    BY <2>2, IpSteps, LoginSteps, WindowStep DEF Next, Step
  <2> QED  BY <2>1, <2>2
<1> QED  BY <1>1, <1>2, PTL DEF Spec

(* TypeOK: the counters, their windows and the clients keep their types.   *)
THEOREM TypeCorrect == Spec => []TypeOK
<1>1. LimitsInv => TypeOK
  BY DEF LimitsInv
<1> QED  BY <1>1, Invariance, PTL

(* However many clients guess at once, the wrong passwords of a window     *)
(* exceed LoginFailLimit by no more than the other clients.                *)
THEOREM FailuresStayBounded == Spec => []FailuresBounded
<1>1. LimitsInv => FailuresBounded
  <2> SUFFICES ASSUME LimitsInv PROVE FailuresBounded
    OBVIOUS
  <2> DEFINE F == {c \in Clients : pc[c] = "failing"}
  <2>1. IsFiniteSet(Clients) /\ Guessing \in SUBSET Clients /\ F \in SUBSET Guessing
    BY LimitAssumption DEF LimitAssumption, Guessing
  <2>2. IsFiniteSet(Guessing) /\ IsFiniteSet(F) /\ Cardinality(F) <= Cardinality(Guessing)
    BY <2>1, FS_Subset
  <2>3. Cardinality(F) \in Nat /\ Cardinality(Guessing) \in Nat /\ Cardinality(Clients) \in Nat
    BY <2>1, <2>2, FS_CardinalityType
  <2>4. /\ count["login"] \in Nat /\ FailLimit \in Nat
        /\ count["login"] + Cardinality(Guessing) <= FailLimit + Cardinality(Clients) - 1
    BY LimitAssumption DEF LimitAssumption, LimitsInv, TypeOK, Keys
  <2>5. count["login"] + Cardinality(F) <= FailLimit + Cardinality(Clients) - 1
    <3> HIDE DEF F
    <3> QED  BY <2>2, <2>3, <2>4
  <2> QED  BY <2>5 DEF FailuresBounded
<1> QED  BY <1>1, Invariance, PTL

(* A window of the middleware admits no more than IpLimit requests of its  *)
(* own and one late request per client.                                    *)
THEOREM AdmissionsStayBounded == Spec => []AdmittedBounded
<1>1. LimitsInv => AdmittedBounded
  <2> SUFFICES ASSUME LimitsInv PROVE AdmittedBounded
    OBVIOUS
  <2>1. Cardinality(Passing) \in Nat /\ Cardinality(Clients) \in Nat
    <3>1. IsFiniteSet(Clients) /\ Passing \in SUBSET Clients
      BY LimitAssumption DEF LimitAssumption, Passing
    <3> QED  BY <3>1, FS_Subset, FS_CardinalityType
  <2>2. /\ count["ip"] \in Nat /\ IpLimit \in Nat /\ admitted \in Nat
        /\ admitted + Cardinality(Passing) <= Counted + Cardinality(Clients)
    BY LimitAssumption DEF LimitAssumption, LimitsInv, TypeOK, Keys
  <2> QED  BY <2>1, <2>2 DEF Counted, AdmittedBounded
<1> QED  BY <1>1, Invariance, PTL
=============================================================================
