--------------------------- MODULE RolloutProofs ---------------------------
(***************************************************************************)
(* For every number of admin-api instances and of default rules: what the  *)
(* races, deaths and restarts of PolicySeed may never do to the policy.    *)
(* For all tags, instances and policies, and any number of deployments and *)
(* faults: what remote_deploy.sh guarantees, and that a host under         *)
(* deployment is an instance of PolicySeed, so that the theorems of the    *)
(* first part hold for it.                                                 *)
(***************************************************************************)
EXTENDS Rollout, FiniteSetTheorems, TLAPS

(* The loop has passed the rules it has in memory, and whoever saves or    *)
(* serves has finished it.                                                 *)
LoopInv ==
    \A i \in Instances :
        /\ boot[i] \in {"down", "connected", "loaded"} => turn[i] = 1
        /\ boot[i] \in {"saving", "serving"} => turn[i] = N + 1
        /\ boot[i] \in {"seeding", "saving", "serving"} =>
               \A r \in Rules : r < turn[i] => r \in policy[i]

(* The instances that will still insert the rule.                          *)
Pending(r) == {i \in Instances : boot[i] = "seeding" /\ turn[i] <= r /\ r \notin policy[i]}

(* Every row is there or on its way because of an instance of its own.     *)
RowsInv == \A r \in Rules : copies[r] + Cardinality(Pending(r)) <= Cardinality(Instances)

SeedInv == SeedTypeOK /\ LoopInv

(* N is a positive number.                                                 *)
LEMMA RulesExist == N \in Nat /\ N > 0
BY SeedAssumption DEF SeedAssumption

(* NewEnforcer's type invariant and loop invariant hold in every state.    *)
THEOREM SeedInvariant == SeedSpec => []SeedInv
<1>1. SeedInit => SeedInv
  <2> SUFFICES ASSUME SeedInit PROVE SeedInv
    OBVIOUS
  <2>1. exists \in BOOLEAN /\ changed \in [Instances -> BOOLEAN]
    BY Zenon DEF SeedInit
  <2>2. copies \in [Rules -> Nat] /\ turn \in [Instances -> 1..(N + 1)]
    BY RulesExist DEF SeedInit
  <2>3. boot \in [Instances -> Stages] /\ policy \in [Instances -> SUBSET Rules]
    BY DEF SeedInit, Stages
  <2>4. LoopInv
    BY DEF SeedInit, LoopInv
  <2> QED
    BY <2>1, <2>2, <2>3, <2>4 DEF SeedInv, SeedTypeOK
<1>2. SeedInv /\ [SeedNext]_seedVars => SeedInv'
  <2> SUFFICES ASSUME SeedInv, [SeedNext]_seedVars PROVE SeedInv'
    OBVIOUS
  <2> USE RulesExist DEF SeedInv, SeedTypeOK, LoopInv, Stages, Rules
  <2>1. CASE CreateTable
    BY <2>1 DEF CreateTable
  <2>2. ASSUME NEW i \in Instances, Start(i) PROVE SeedInv'
    BY <2>2 DEF Start, Goto
  <2>3. ASSUME NEW i \in Instances, Die(i) PROVE SeedInv'
    BY <2>3 DEF Die, Goto, Forget
  <2>4. ASSUME NEW i \in Instances, Load(i, "connected", "loaded") PROVE SeedInv'
    BY ZenonT(30), <2>4 DEF Load, Goto, Forget, Loaded
  <2>5. ASSUME NEW i \in Instances, Load(i, "loaded", "seeding") PROVE SeedInv'
    <3>1. CASE exists
      <4>1. SeedTypeOK'
        BY <2>5, <3>1 DEF Load, Goto, Loaded
      <4>2. LoopInv'
        BY <2>5, <3>1 DEF Load, Goto
      <4> QED
        BY <4>1, <4>2
    <3>2. CASE ~exists
      BY ZenonT(30), <2>5, <3>2 DEF Load, Goto, Forget
    <3> QED
      BY <3>1, <3>2
  <2>6. ASSUME NEW i \in Instances, SeedRule(i) PROVE SeedInv'
    <3>1. /\ boot[i] = "seeding" /\ boot' = boot /\ exists' = exists
          /\ turn[i] \in Rules /\ turn' = [turn EXCEPT ![i] = turn[i] + 1]
      BY <2>6 DEF SeedRule
    <3>2. /\ copies' \in [Rules -> Nat] /\ changed' \in [Instances -> BOOLEAN]
          /\ policy' \in [Instances -> SUBSET Rules]
          /\ \A j \in Instances : policy[j] \subseteq policy'[j]
      <4>1. CASE Missing(i)
        <5>1. copies' = [copies EXCEPT ![turn[i]] = copies[turn[i]] + 1]
          BY <2>6, <4>1 DEF SeedRule, AddPolicy
        <5>2. changed' = [changed EXCEPT ![i] = TRUE]
          BY <2>6, <4>1 DEF SeedRule, AddPolicy
        <5>3. policy' = [policy EXCEPT ![i] = policy[i] \cup {turn[i]}]
          BY <2>6, <4>1 DEF SeedRule, AddPolicy
        <5>4. copies' \in [Rules -> Nat]
          BY <3>1, <5>1
        <5>5. changed' \in [Instances -> BOOLEAN]
          BY <5>2
        <5>6. policy' \in [Instances -> SUBSET Rules]
          BY <3>1, <5>3
        <5>7. \A j \in Instances : policy[j] \subseteq policy'[j]
          BY <5>3
        <5> QED
          BY <5>4, <5>5, <5>6, <5>7
      <4>2. CASE ~Missing(i)
        <5>1. copies' = copies /\ policy' = policy /\ changed' = changed
          BY <2>6, <4>2 DEF SeedRule
        <5> QED
          BY <5>1
      <4> QED
        BY <4>1, <4>2
    <3>3. \A j \in Instances : policy[j] \subseteq policy'[j]
      BY <3>2
    <3>4. turn[i] \in policy'[i]
      <4>1. CASE Missing(i)
        BY <2>6, <4>1 DEF SeedRule, AddPolicy
      <4>2. CASE ~Missing(i)
        BY <2>6, <4>2 DEF SeedRule, Missing
      <4> QED
        BY <4>1, <4>2
    <3>5. turn' \in [Instances -> 1..(N + 1)]
      BY <3>1
    <3>6. SeedTypeOK'
      BY <3>1, <3>2, <3>5, Zenon
    <3>7. ASSUME NEW j \in Instances, boot'[j] \in {"seeding", "saving", "serving"},
                 NEW r \in Rules, r < turn'[j]
          PROVE r \in policy'[j]
      <4>1. CASE j = i
        <5>1. r < turn[i] \/ r = turn[i]
          BY <3>1, <3>7, <4>1
        <5>2. r < turn[i] => r \in policy[i]
          BY <3>1
        <5> QED
          BY <5>1, <5>2, <3>3, <3>4, <4>1
      <4>2. CASE j # i
        BY <3>1, <3>3, <3>7, <4>2
      <4> QED
        BY <4>1, <4>2
    <3>8. LoopInv'
      <4> SUFFICES ASSUME NEW j \in Instances
                   PROVE /\ boot'[j] \in {"down", "connected", "loaded"} => turn'[j] = 1
                         /\ boot'[j] \in {"saving", "serving"} => turn'[j] = N + 1
        BY <3>7
      <4> QED
        BY <3>1
    <3> QED
      BY <3>6, <3>8
  <2>7. ASSUME NEW i \in Instances, SeedEnd(i) PROVE SeedInv'
    BY <2>7 DEF SeedEnd, LoopOver, Goto
  <2>8. ASSUME NEW i \in Instances, SavePolicy(i) PROVE SeedInv'
    BY <2>8 DEF SavePolicy, Goto
  <2>9. CASE UNCHANGED seedVars
    BY <2>9 DEF seedVars
  <2> QED
    BY <2>1, <2>2, <2>3, <2>4, <2>5, <2>6, <2>7, <2>8, <2>9 DEF SeedNext, Booting
<1> QED
  BY <1>1, <1>2, PTL DEF SeedSpec

(* ServingHasPolicy for every instance and every policy: an admin-api that *)
(* serves has all the default rules in its model.                          *)
THEOREM ServingPolicy == SeedSpec => []ServingHasPolicy
<1>1. SeedInv => ServingHasPolicy
  <2> SUFFICES ASSUME SeedInv, NEW i \in Instances, boot[i] = "serving"
               PROVE policy[i] = Rules
    BY DEF ServingHasPolicy
  <2>1. policy[i] \subseteq Rules
    BY DEF SeedInv, SeedTypeOK
  <2>2. \A r \in Rules : r \in policy[i]
    BY RulesExist DEF SeedInv, LoopInv, Rules
  <2> QED
    BY <2>1, <2>2
<1> QED
  BY <1>1, SeedInvariant, PTL

(* TableStaysComplete: only SavePolicy lowers a count, and it is reached   *)
(* with every default rule in memory.                                      *)
THEOREM TableComplete == SeedSpec => TableStaysComplete
<1>1. SeedInv /\ [SeedNext]_seedVars => (Complete => Complete')
  <2> SUFFICES ASSUME SeedInv, [SeedNext]_seedVars, Complete, NEW r \in Rules PROVE copies'[r] > 0
    BY DEF Complete, Loaded
  <2>0. copies[r] \in Nat /\ copies[r] > 0
    BY DEF Complete, Loaded, SeedInv, SeedTypeOK
  <2>1. ASSUME NEW i \in Instances, SavePolicy(i) PROVE copies'[r] > 0
    <3>1. r \in policy[i]
      BY <2>1, RulesExist DEF SavePolicy, SeedInv, LoopInv, Rules
    <3> QED
      BY <2>1, <3>1 DEF SavePolicy
  <2>2. ASSUME NEW i \in Instances, SeedRule(i) PROVE copies'[r] > 0
    <3>1. copies' = copies \/ copies' = [copies EXCEPT ![turn[i]] = copies[turn[i]] + 1]
      BY <2>2 DEF SeedRule, AddPolicy
    <3>2. copies \in [Rules -> Nat]
      BY DEF SeedInv, SeedTypeOK
    <3> QED
      BY <2>0, <3>1, <3>2
  <2>3. copies' = copies => copies'[r] > 0
    BY <2>0
  <2> QED
    BY <2>1, <2>2, <2>3 DEF SeedNext, Booting, CreateTable, Start, Die, Load, SeedEnd, seedVars
<1> QED
  BY <1>1, SeedInvariant, PTL DEF SeedSpec, TableStaysComplete

(* A set of instances is finite and no larger than all of them.            *)
LEMMA InstancesCounted ==
    ASSUME NEW S, S \subseteq Instances
    PROVE  /\ IsFiniteSet(S) /\ Cardinality(S) \in Nat
           /\ Cardinality(Instances) \in Nat
           /\ Cardinality(S) <= Cardinality(Instances)
<1>1. IsFiniteSet(Instances)
  BY SeedAssumption DEF SeedAssumption
<1>2. IsFiniteSet(S) /\ Cardinality(S) <= Cardinality(Instances)
  BY <1>1, FS_Subset
<1> QED
  BY <1>1, <1>2, FS_CardinalityType

(* Without one of its members a set of instances is smaller by one.        *)
LEMMA OneLess ==
    ASSUME NEW S, S \subseteq Instances, NEW i \in S, NEW T, T \subseteq S \ {i}
    PROVE  Cardinality(T) + 1 <= Cardinality(S)
<1>1. IsFiniteSet(S) /\ Cardinality(S) \in Nat
  BY InstancesCounted
<1>2. IsFiniteSet(S \ {i}) /\ Cardinality(S \ {i}) = Cardinality(S) - 1
  BY <1>1, FS_RemoveElement
<1>3. Cardinality(T) <= Cardinality(S \ {i})
  BY <1>2, FS_Subset
<1>4. Cardinality(T) \in Nat
  BY InstancesCounted
<1> QED
  BY <1>1, <1>2, <1>3, <1>4

(* Every step keeps the rows of a rule, with those on their way, within    *)
(* one per instance.                                                       *)
LEMMA RowsStep == SeedInv /\ RowsInv /\ [SeedNext]_seedVars => RowsInv'
<1> SUFFICES ASSUME SeedInv, RowsInv, [SeedNext]_seedVars, NEW r \in Rules
             PROVE copies'[r] + Cardinality(Pending(r)') <= Cardinality(Instances)
  BY DEF RowsInv
<1> DEFINE P == Pending(r)
<1> DEFINE Q == Pending(r)'
<1>1. P \subseteq Instances /\ Q \subseteq Instances
  BY DEF Pending
<1>2. /\ Cardinality(P) \in Nat /\ Cardinality(Q) \in Nat /\ IsFiniteSet(P)
      /\ Cardinality(Instances) \in Nat /\ Cardinality(Q) <= Cardinality(Instances)
  BY <1>1, InstancesCounted
<1>3. copies[r] \in Nat /\ copies[r] + Cardinality(P) <= Cardinality(Instances)
  BY DEF SeedInv, SeedTypeOK, RowsInv
<1>4. ASSUME copies'[r] = copies[r], Q \subseteq P
      PROVE  copies'[r] + Cardinality(Q) <= Cardinality(Instances)
  <2>1. Cardinality(Q) <= Cardinality(P)
    BY <1>2, <1>4, FS_Subset
  <2> QED
    BY <1>2, <1>3, <1>4, <2>1
<1> USE DEF SeedInv, SeedTypeOK
<1>5. CASE CreateTable \/ UNCHANGED seedVars
  <2>1. copies' = copies /\ Q \subseteq P
    BY <1>5 DEF CreateTable, seedVars, Pending
  <2> QED
    BY <2>1, <1>4
<1>6. ASSUME NEW i \in Instances, Start(i) \/ Die(i) \/ SeedEnd(i) \/ Load(i, "connected", "loaded")
      PROVE  copies'[r] + Cardinality(Q) <= Cardinality(Instances)
  <2>1. copies' = copies
    BY <1>6 DEF Start, Die, SeedEnd, Load
  <2>2. \A j \in Instances : boot'[j] = "seeding" =>
            boot[j] = "seeding" /\ turn'[j] = turn[j] /\ policy'[j] = policy[j]
    BY <1>6 DEF Start, Die, SeedEnd, Load, Goto, Forget
  <2>3. Q \subseteq P
    BY <2>2 DEF Pending
  <2> QED
    BY <2>1, <2>3, <1>4
<1>7. ASSUME NEW i \in Instances, Load(i, "loaded", "seeding")
      PROVE  copies'[r] + Cardinality(Q) <= Cardinality(Instances)
  <2>1. copies' = copies
    BY <1>7 DEF Load
  <2>2. CASE copies[r] = 0
    BY <1>2, <2>1, <2>2
  <2>3. CASE copies[r] > 0
    <3>1. boot'[i] = "seeding" => r \in policy'[i]
      BY <1>7, <2>3 DEF Load, Goto, Loaded
    <3>2. \A j \in Instances \ {i} :
              boot'[j] = boot[j] /\ turn'[j] = turn[j] /\ policy'[j] = policy[j]
      BY <1>7 DEF Load, Goto, Forget
    <3>3. Q \subseteq P
      BY <3>1, <3>2 DEF Pending
    <3> QED
      BY <2>1, <3>3, <1>4
  <2> QED
    BY <1>3, <2>2, <2>3
<1>8. ASSUME NEW i \in Instances, SeedRule(i)
      PROVE  copies'[r] + Cardinality(Q) <= Cardinality(Instances)
  <2>1. /\ boot' = boot /\ boot[i] = "seeding"
        /\ turn[i] \in Rules /\ turn' = [turn EXCEPT ![i] = turn[i] + 1]
    BY <1>8 DEF SeedRule
  <2>2. CASE ~Missing(i)
    <3>1. copies' = copies /\ policy' = policy
      BY <1>8, <2>2 DEF SeedRule
    <3>2. Q \subseteq P
      BY <2>1, <3>1 DEF Pending, Rules
    <3> QED
      BY <3>1, <3>2, <1>4
  <2>3. CASE Missing(i)
    <3>1. /\ copies' = [copies EXCEPT ![turn[i]] = copies[turn[i]] + 1]
          /\ policy' = [policy EXCEPT ![i] = policy[i] \cup {turn[i]}]
      BY <1>8, <2>3 DEF SeedRule, AddPolicy
    <3>2. Q \subseteq P
      BY <2>1, <3>1 DEF Pending, Rules
    <3>3. CASE r # turn[i]
      BY <3>1, <3>2, <3>3, <1>4
    <3>4. CASE r = turn[i]
      <4>1. i \in P
        BY <2>1, <2>3, <3>4 DEF Pending, Missing, Rules
      <4>2. i \notin Q
        BY <3>1, <3>4 DEF Pending
      <4>3. Cardinality(Q) + 1 <= Cardinality(P)
        BY <1>1, <3>2, <4>1, <4>2, OneLess
      <4>4. copies'[r] = copies[r] + 1
        BY <3>1, <3>4
      <4> QED
        BY <1>2, <1>3, <4>3, <4>4
    <3> QED
      BY <3>3, <3>4
  <2> QED
    BY <2>2, <2>3
<1>9. ASSUME NEW i \in Instances, SavePolicy(i)
      PROVE  copies'[r] + Cardinality(Q) <= Cardinality(Instances)
  <2>1. copies'[r] \in {0, 1}
    BY <1>9 DEF SavePolicy
  <2>2. Q \subseteq Instances \ {i}
    BY <1>9 DEF SavePolicy, Goto, Pending
  <2>3. Cardinality(Q) + 1 <= Cardinality(Instances)
    BY <2>2, OneLess
  <2> QED
    BY <1>2, <2>1, <2>3
<1> QED
  BY <1>5, <1>6, <1>7, <1>8, <1>9 DEF SeedNext, Booting

(* CopiesBounded: duplicates of a default rule never exceed the number of  *)
(* instances, however often they die and start again.                      *)
THEOREM RowsBounded == SeedSpec => []CopiesBounded
<1>1. SeedInit => RowsInv
  <2> SUFFICES ASSUME SeedInit, NEW r \in Rules
               PROVE copies[r] + Cardinality(Pending(r)) <= Cardinality(Instances)
    BY DEF RowsInv
  <2>1. Pending(r) = {} /\ copies[r] \in 0..Cardinality(Instances)
    BY DEF SeedInit, Pending
  <2>2. Cardinality(Pending(r)) = 0 /\ Cardinality(Instances) \in Nat
    BY <2>1, FS_EmptySet, InstancesCounted
  <2> QED
    BY <2>1, <2>2
<1>2. SeedInv /\ RowsInv => CopiesBounded
  <2> SUFFICES ASSUME SeedInv, RowsInv, NEW r \in Rules
               PROVE copies[r] <= Cardinality(Instances)
    BY DEF CopiesBounded
  <2>1. Pending(r) \subseteq Instances /\ copies[r] \in Nat
    BY DEF Pending, SeedInv, SeedTypeOK
  <2>2. Cardinality(Pending(r)) \in Nat /\ Cardinality(Instances) \in Nat
    BY <2>1, InstancesCounted
  <2> QED
    BY <2>1, <2>2 DEF RowsInv
<1> QED
  BY <1>1, <1>2, RowsStep, SeedInvariant, PTL DEF SeedSpec

-----------------------------------------------------------------------------
(* A host under deployment, seen from its admin-api and the others, takes  *)
(* only steps of PolicySeed: recreating the container is a death of the    *)
(* process, and the migrations create the table.                           *)
THEOREM RolloutSeeds == Spec => SeedSpec
<1>1. Init => SeedInit
  <2> SUFFICES ASSUME Init PROVE SeedInit
    OBVIOUS
  <2>1. IsFiniteSet(Instances) /\ Instances # {}
    BY SeedAssumption, RolloutAssumption DEF SeedAssumption, RolloutAssumption
  <2>2. Cardinality(Instances) \in Nat /\ Cardinality(Instances) # 0
    BY <2>1, FS_CardinalityType, FS_EmptySet
  <2>3. exists \in BOOLEAN
    BY Zenon DEF Init, Untouched, InUse
  <2>4. copies \in [Rules -> 0..Cardinality(Instances)]
    BY <2>2 DEF Init, Untouched, InUse
  <2> QED
    BY <2>3, <2>4 DEF Init, SeedInit
<1>2. [Next]_vars => [SeedNext]_seedVars
  <2> SUFFICES ASSUME [Next]_vars PROVE [SeedNext]_seedVars
    OBVIOUS
  <2>0. Host \in Instances
    BY RolloutAssumption DEF RolloutAssumption
  <2>1. ASSUME NEW i \in Instances, Restart(i) \/ Boot(i) \/ Crash(i) PROVE [SeedNext]_seedVars
    BY <2>1 DEF Restart, Boot, Crash, SeedNext
  <2>2. ASSUME NEW s \in Services, BecomeReady(s) \/ StopAnswering(s) PROVE [SeedNext]_seedVars
    BY <2>2 DEF BecomeReady, StopAnswering
  <2>3. CASE \E t \in Tags : Deploy(t)
    BY <2>3 DEF Deploy
  <2>4. CASE Migrate
    BY <2>4 DEF Migrate, SeedNext
  <2>5. ASSUME NEW S, NEW t, Recreate(S, t) PROVE [SeedNext]_seedVars
    BY <2>0, <2>5 DEF Recreate, SeedNext
  <2>6. CASE Up \/ UpBack
    BY <2>5, <2>6 DEF Up, UpBack
  <2>7. CASE Pull \/ Check \/ WriteState \/ PullBack \/ CheckBack \/ CutOff
    BY <2>7 DEF Pull, Check, WriteState, PullBack, CheckBack, CutOff
  <2>8. CASE UNCHANGED vars
    BY <2>8 DEF vars
  <2> QED
    BY <2>1, <2>2, <2>3, <2>4, <2>6, <2>7, <2>8 DEF Next, Command
<1> QED
  BY <1>1, <1>2, PTL DEF Spec, SeedSpec

(* The guarantees of PolicySeed for the host under deployment.             *)
THEOREM RolloutServing == Spec => []ServingHasPolicy /\ []CopiesBounded /\ TableStaysComplete
BY RolloutSeeds, ServingPolicy, RowsBounded, TableComplete

--------------------------------------------------------------------------

MaybeTag == Tags \cup {None}

ScriptType ==
    /\ script \in Commands
    /\ migrated \subseteq Tags
    /\ image \in [Services -> MaybeTag]
    /\ state = Torn \/ state \in [current : MaybeTag, prev : MaybeTag]
    /\ script = "idle" \/ (tag \in Tags /\ outcome = "none")

(* What may be running, or started again, has been migrated to.            *)
MigratedInv ==
    /\ \A s \in Services : image[s] \in migrated \cup {None}
    /\ script \in {"up", "check", "write", "rewrite"} => tag \in migrated
    /\ rollbackTag \in migrated \cup {None}
    /\ state # Torn => state.current \in migrated \cup {None} /\ state.prev \in migrated \cup {None}

(* The containers and the state file while the script is under way.        *)
ImageInv ==
    /\ script \in {"check", "write", "rewrite"} => \A s \in Services : image[s] = tag
    /\ script = "check_back" => \A s \in Services : image[s] = rollbackTag
    /\ script \notin {"idle", "rewrite"} => state # Torn /\ rollbackTag = RollbackTo
    /\ script \in {"pull_back", "up_back", "check_back"} => rollbackTag # None
    /\ state.current = None => state.prev = None
    /\ outcome \in {"deployed", "rolled_back"} => \A s \in Services : image[s] = state.current

ScriptInv == ScriptType /\ MigratedInv /\ ImageInv

(* The invariants of the script hold in every state.                       *)
THEOREM ScriptInvariant == Spec => []ScriptInv
<1>0. None \notin Tags /\ "torn" \notin Tags /\ "torn" # None
  BY RolloutAssumption DEF RolloutAssumption
<1>1. Init => ScriptInv
  BY <1>0 DEF Init, Untouched, InUse, ScriptInv, ScriptType, MigratedInv, ImageInv, Commands, MaybeTag, Fresh, Torn
<1>2. ScriptInv /\ [Next]_vars => ScriptInv'
  <2> SUFFICES ASSUME ScriptInv, [Next]_vars PROVE ScriptInv'
    OBVIOUS
  <2> USE <1>0 DEF ScriptInv, ScriptType, MigratedInv, ImageInv, Commands, MaybeTag, Torn, RollbackTo
  <2>1. ASSUME NEW i \in Instances, Restart(i) \/ Boot(i) \/ Crash(i) PROVE ScriptInv'
    BY <2>1 DEF Restart, Boot, Crash, scriptVars, hostVars
  <2>2. ASSUME NEW s \in Services, BecomeReady(s) \/ StopAnswering(s) PROVE ScriptInv'
    BY <2>2 DEF BecomeReady, StopAnswering, scriptVars
  <2>3. ASSUME NEW t \in Tags, Deploy(t) PROVE ScriptInv'
    BY <2>3 DEF Deploy, hostVars
  <2>4. CASE Pull
    BY <2>4 DEF Pull, To, Exit, hostVars
  <2>5. CASE Migrate
    BY <2>5 DEF Migrate, MigrateFails, To, Exit
  <2>6. CASE Up
    BY <2>6 DEF Up, Recreate, To, Exit
  <2>7. CASE Check
    BY <2>7 DEF Check, To, Exit, hostVars
  <2>8. CASE WriteState
    <3>1. CASE script = "write"
      <4>1. /\ script' = "rewrite" /\ state' = Torn /\ tag' = tag /\ rollbackTag' = rollbackTag
            /\ outcome' = outcome /\ image' = image /\ migrated' = migrated
        BY <2>8, <3>1 DEF WriteState, hostVars
      <4>2. ScriptType'
        BY <3>1, <4>1
      <4>3. MigratedInv'
        BY <3>1, <4>1
      <4>4. ImageInv'
        BY <3>1, <4>1
      <4> QED  BY <4>2, <4>3, <4>4
    <3>2. CASE script = "rewrite"
      BY <2>8, <3>2 DEF WriteState, Exit, hostVars
    <3> QED
      BY <2>8, <3>1, <3>2 DEF WriteState
  <2>9. CASE PullBack
    BY <2>9 DEF PullBack, To, Exit, hostVars
  <2>10. CASE UpBack
    BY <2>10 DEF UpBack, Recreate, To, Exit
  <2>11. CASE CheckBack
    BY <2>11 DEF CheckBack, Exit, hostVars
  <2>12. CASE CutOff
    BY <2>12 DEF CutOff, Exit, hostVars
  <2>13. CASE UNCHANGED vars
    BY <2>13 DEF vars, scriptVars, hostVars
  <2> QED
    BY <2>1, <2>2, <2>3, <2>4, <2>5, <2>6, <2>7, <2>8, <2>9, <2>10, <2>11, <2>12, <2>13 DEF Next, Command
<1> QED
  BY <1>1, <1>2, PTL DEF Spec

(* SchemaFirst: no image runs before its migrations have completed.        *)
THEOREM MigratedFirst == Spec => []SchemaFirst
<1>1. ScriptInv => SchemaFirst
  BY DEF ScriptInv, MigratedInv, SchemaFirst
<1> QED
  BY <1>1, ScriptInvariant, PTL

(* StateTruthful: a reported success leaves the images the state file      *)
(* calls current.                                                          *)
THEOREM SuccessIsTruthful == Spec => []StateTruthful
<1>1. ScriptInv => StateTruthful
  BY DEF ScriptInv, ImageInv, StateTruthful
<1> QED
  BY <1>1, ScriptInvariant, PTL

--------------------------------------------------------------------------

(* What TypeOK says beside SeedTypeOK and ScriptType: only containers that *)
(* exist run, on the host as in the script's own variables.                *)
HostType ==
    /\ tag \in MaybeTag /\ rollbackTag \in MaybeTag
    /\ ready \subseteq Services \ {"admin-api"}
    /\ \A s \in ready : image[s] # None
    /\ boot[Host] # "down" => image["admin-api"] # None
    /\ outcome \in Outcomes
    /\ deploys \in 0..MaxDeploys /\ faults \in 0..MaxFaults

(* compose leaves only containers with an image, and those it recreated    *)
(* have still to come up.                                                  *)
LEMMA RecreateKeeps ==
    ASSUME SeedTypeOK, ScriptInv, HostType, NEW S \in SUBSET Services, NEW t \in Tags, Recreate(S, t)
    PROVE  /\ ready' \subseteq Services \ {"admin-api"}
           /\ \A s \in ready' : image'[s] # None
           /\ boot'[Host] # "down" => image'["admin-api"] # None
<1> DEFINE new == {s \in S : image[s] # t}
<1>0. Host \in Instances /\ None \notin Tags /\ boot \in [Instances -> Stages]
  BY RolloutAssumption DEF RolloutAssumption, SeedTypeOK
<1>1. /\ image' = [s \in Services |-> IF s \in new THEN t ELSE image[s]]
      /\ ready' = ready \ new
      /\ IF "admin-api" \in new THEN Die(Host) ELSE UNCHANGED seedVars
  BY Zenon DEF Recreate
<1> HIDE DEF new
<1>2. ready' \subseteq Services \ {"admin-api"} /\ \A s \in ready' : image'[s] # None
  BY <1>0, <1>1 DEF HostType
<1>3. CASE "admin-api" \in new
  <2>1. boot' = [boot EXCEPT ![Host] = "down"]
    BY <1>1, <1>3 DEF Die, Goto
  <2> QED
    BY <1>0, <1>2, <2>1
<1>4. CASE "admin-api" \notin new
  BY <1>1, <1>2, <1>4 DEF seedVars, HostType, Services
<1> QED  BY <1>3, <1>4

(* Every step keeps HostType.                                              *)
LEMMA HostStep == SeedTypeOK /\ ScriptInv /\ HostType /\ [Next]_vars => HostType'
<1> SUFFICES ASSUME SeedTypeOK, ScriptInv, HostType, [Next]_vars PROVE HostType'
  OBVIOUS
<1>0. /\ None \notin Tags /\ Host \in Instances
      /\ MaxDeploys \in Nat /\ MaxFaults \in Nat
  BY RolloutAssumption DEF RolloutAssumption
<1>01. boot \in [Instances -> Stages]
  BY DEF SeedTypeOK
<1>02. script # "idle" => tag \in Tags
  BY DEF ScriptInv, ScriptType
<1>03. state # Torn => RollbackTo \in MaybeTag
  BY DEF ScriptInv, MigratedInv, ScriptType, RollbackTo, MaybeTag
<1>04. script = "up_back" => rollbackTag \in Tags
  BY DEF ScriptInv, ImageInv, HostType, MaybeTag
<1> USE <1>0 DEF HostType, MaybeTag, Outcomes
<1>1. ASSUME NEW i \in Instances, Restart(i) PROVE HostType'
  BY <1>01, <1>1 DEF Restart, Start, Goto, scriptVars, hostVars
<1>2. ASSUME NEW i \in Instances, Boot(i) PROVE HostType'
  <2>1. boot[i] # "down" /\ \E l \in Stages : boot' = [boot EXCEPT ![i] = l]
    <3>1. CASE SeedRule(i)
      BY <1>01, <3>1 DEF SeedRule, Stages
    <3>2. CASE SeedEnd(i) \/ SavePolicy(i)
      BY <3>2 DEF SeedEnd, SavePolicy, Goto, Stages
    <3>3. CASE Load(i, "connected", "loaded") \/ Load(i, "loaded", "seeding")
      BY <3>3 DEF Load, Goto, Stages
    <3> QED
      BY <1>2, <3>1, <3>2, <3>3 DEF Boot, Booting
  <2> QED
    BY <1>01, <1>2, <2>1 DEF Boot, scriptVars, hostVars
<1>3. ASSUME NEW i \in Instances, Crash(i) PROVE HostType'
  BY <1>01, <1>3 DEF Crash, Die, Goto, scriptVars, hostVars
<1>4. ASSUME NEW s \in Services, BecomeReady(s) \/ StopAnswering(s) PROVE HostType'
  BY <1>4 DEF BecomeReady, StopAnswering, scriptVars, seedVars
<1>5. ASSUME NEW t \in Tags, Deploy(t) PROVE HostType'
  BY <1>03, <1>5 DEF Deploy, hostVars, seedVars
<1>6. CASE Pull \/ PullBack
  BY <1>6 DEF Pull, PullBack, To, Exit, hostVars, seedVars
<1>7. CASE Migrate
  BY <1>7 DEF Migrate, MigrateFails, CreateTable, To, Exit, seedVars
<1>8. CASE Up
  <2>1. PICK S \in SUBSET Services : Recreate(S, tag)
    BY <1>8 DEF Up
  <2>2. /\ ready' \subseteq Services \ {"admin-api"}
        /\ \A s \in ready' : image'[s] # None
        /\ boot'[Host] # "down" => image'["admin-api"] # None
    BY <1>02, <1>8, <2>1, RecreateKeeps DEF Up
  <2> QED
    BY <1>8, <2>2 DEF Up, To, Exit
<1>9. CASE UpBack
  <2>1. PICK S \in SUBSET Services : Recreate(S, rollbackTag)
    BY <1>9 DEF UpBack
  <2>2. /\ ready' \subseteq Services \ {"admin-api"}
        /\ \A s \in ready' : image'[s] # None
        /\ boot'[Host] # "down" => image'["admin-api"] # None
    BY <1>04, <1>9, <2>1, RecreateKeeps DEF UpBack
  <2> QED
    BY <1>9, <2>2 DEF UpBack, To, Exit
<1>10. CASE Check \/ CheckBack
  BY <1>10 DEF Check, CheckBack, To, Exit, hostVars, seedVars
<1>11. CASE WriteState
  BY <1>11 DEF WriteState, Exit, hostVars, seedVars
<1>12. CASE CutOff
  BY <1>12 DEF CutOff, Exit, hostVars, seedVars
<1>13. CASE UNCHANGED vars
  BY <1>13 DEF vars, scriptVars, hostVars, seedVars
<1> QED
  BY <1>1, <1>2, <1>3, <1>4, <1>5, <1>6, <1>7, <1>8, <1>9, <1>10, <1>11, <1>12, <1>13 DEF Next, Command

(* TypeOK: the script, the host and the processes keep their types; no     *)
(* service answers, and no admin-api starts, without a container.          *)
THEOREM DeployTypes == Spec => []TypeOK
<1>1. SeedInv => SeedTypeOK
  BY DEF SeedInv
<1>2. Init => HostType
  BY RolloutAssumption
     DEF RolloutAssumption, Init, Untouched, InUse, HostType, MaybeTag, Outcomes
<1>3. SeedTypeOK /\ ScriptInv /\ HostType => TypeOK
  BY DEF ScriptInv, ScriptType, HostType, TypeOK, MaybeTag
<1> QED
  BY <1>1, <1>2, <1>3, HostStep, RolloutSeeds, SeedInvariant, ScriptInvariant, PTL DEF Spec

============================================================================
