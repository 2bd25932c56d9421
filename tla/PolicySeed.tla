---------------------------- MODULE PolicySeed ----------------------------
(***************************************************************************)
(* The start of admin-api: NewEnforcer loads the casbin_rule table twice   *)
(* and seeds the default policy, which every instance does by itself on a  *)
(* table that has no unique constraint.                                    *)
(*                                                                         *)
(* A statement is one step.  SavePolicy is one transaction whose TRUNCATE  *)
(* keeps every other statement on the table waiting until it commits, and  *)
(* is one step as well.  A process may die between any two statements;     *)
(* Docker starts it again.                                                 *)
(***************************************************************************)
EXTENDS Integers, FiniteSets

CONSTANTS
    Instances,   \* admin-api processes on the same database
    N            \* length of defaultPolicyRules

ASSUME SeedAssumption == N \in Nat \ {0} /\ IsFiniteSet(Instances)

Rules == 1..N

VARIABLES
    exists,      \* the migrations have created casbin_rule
    copies,      \* rows of the table per default rule
    boot,        \* how far NewEnforcer got
    policy,      \* the rules in the enforcer's model
    turn,        \* the next rule of the loop in SeedDefaultPolicy
    changed

seedVars == <<exists, copies, boot, policy, turn, changed>>

Stages == {"down", "connected", "loaded", "seeding", "saving", "serving"}

SeedTypeOK ==
    /\ exists \in BOOLEAN
    /\ copies \in [Rules -> Nat]
    /\ boot \in [Instances -> Stages]
    /\ policy \in [Instances -> SUBSET Rules]
    /\ turn \in [Instances -> 1..(N + 1)]
    /\ changed \in [Instances -> BOOLEAN]

(* Whatever earlier starts have left in the table, and no instance yet.    *)
SeedInit ==
    /\ exists \in BOOLEAN
    /\ copies \in [Rules -> 0..Cardinality(Instances)]
    /\ boot = [i \in Instances |-> "down"]
    /\ policy = [i \in Instances |-> {}]
    /\ turn = [i \in Instances |-> 1]
    /\ changed = [i \in Instances |-> FALSE]

--------------------------------------------------------------------------

Goto(i, s) == boot' = [boot EXCEPT ![i] = s]

(* Back to nothing but the table.                                          *)
Forget(i) ==
    /\ policy' = [policy EXCEPT ![i] = {}]
    /\ turn' = [turn EXCEPT ![i] = 1]
    /\ changed' = [changed EXCEPT ![i] = FALSE]

(* The process starts and NewPostgresAdapter connects.                     *)
Start(i) ==
    /\ boot[i] = "down"
    /\ Goto(i, "connected")
    /\ UNCHANGED <<exists, copies, policy, turn, changed>>

Loaded == {r \in Rules : copies[r] > 0}

(* LoadPolicy, by casbin.NewEnforcer and again by NewEnforcer: the model   *)
(* holds a rule once, however many rows it has.  Without the table the     *)
(* process ends.                                                           *)
Load(i, from, to) ==
    /\ boot[i] = from
    /\ \/ /\ exists
          /\ policy' = [policy EXCEPT ![i] = Loaded]
          /\ Goto(i, to)
          /\ UNCHANGED <<turn, changed>>
       \/ ~exists /\ Goto(i, "down") /\ Forget(i)
    /\ UNCHANGED <<exists, copies>>

(* Mutant: AddPolicy without HasPolicy.                                    *)
MissingAlways(i) == TRUE

Missing(i) == turn[i] \notin policy[i]

(* Mutant: the rule is inserted but not added to the model.                *)
AddPolicyUnremembered(i) ==
    /\ copies' = [copies EXCEPT ![turn[i]] = @ + 1]
    /\ changed' = [changed EXCEPT ![i] = TRUE]
    /\ UNCHANGED policy

(* AddPolicy inserts a row, then the rule joins the model.                 *)
AddPolicy(i) ==
    /\ copies' = [copies EXCEPT ![turn[i]] = @ + 1]
    /\ changed' = [changed EXCEPT ![i] = TRUE]
    /\ policy' = [policy EXCEPT ![i] = @ \cup {turn[i]}]

(* One turn of the loop of SeedDefaultPolicy.                              *)
SeedRule(i) ==
    /\ boot[i] = "seeding" /\ turn[i] \in Rules
    /\ \/ ~Missing(i) /\ UNCHANGED <<copies, policy, changed>>
       \/ Missing(i) /\ AddPolicy(i)
    /\ turn' = [turn EXCEPT ![i] = @ + 1]
    /\ UNCHANGED <<exists, boot>>

(* Mutant: the loop leaves out the last rule.                              *)
LoopOverEarly(i) == turn[i] >= N

LoopOver(i) == turn[i] = N + 1

SeedEnd(i) ==
    /\ boot[i] = "seeding" /\ LoopOver(i)
    /\ Goto(i, IF changed[i] THEN "saving" ELSE "serving")
    /\ UNCHANGED <<exists, copies, policy, turn, changed>>

(* SavePolicy: the table becomes what this instance has in memory.         *)
SavePolicy(i) ==
    /\ boot[i] = "saving"
    /\ copies' = [r \in Rules |-> IF r \in policy[i] THEN 1 ELSE 0]
    /\ Goto(i, "serving")
    /\ UNCHANGED <<exists, policy, turn, changed>>

(* An error (log.Fatal), or the process is killed if there is one.         *)
Die(i) ==
    /\ Goto(i, "down") /\ Forget(i)
    /\ UNCHANGED <<exists, copies>>

Booting(i) ==
    \/ Load(i, "connected", "loaded")
    \/ Load(i, "loaded", "seeding")
    \/ SeedRule(i)
    \/ SeedEnd(i)
    \/ SavePolicy(i)

(* Mutant: the migrations of admin-api are left out.                       *)
CreateTableNot == UNCHANGED seedVars

(* The migrations, of auth-api and admin-api.                              *)
CreateTable ==
    /\ exists' = TRUE
    /\ UNCHANGED <<copies, boot, policy, turn, changed>>

SeedNext ==
    \/ CreateTable
    \/ \E i \in Instances : Start(i) \/ Booting(i) \/ Die(i)

SeedSpec == SeedInit /\ [][SeedNext]_seedVars

--------------------------------------------------------------------------

(* An instance that serves requests has every default rule in its model,   *)
(* whatever the others inserted, truncated or left half done.              *)
ServingHasPolicy == \A i \in Instances : boot[i] = "serving" => policy[i] = Rules

(* Once the table holds every default rule it does so forever: no instance *)
(* that loaded an older state truncates a rule away for good.              *)
Complete == Loaded = Rules
TableStaysComplete == [][Complete => Complete']_seedVars

(* Instances that race, or die half way and start again, leave at most one *)
(* row of a rule each.                                                     *)
CopiesBounded == \A r \in Rules : copies[r] <= Cardinality(Instances)

============================================================================
