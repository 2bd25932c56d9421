------------------------------ MODULE Rollout ------------------------------
(***************************************************************************)
(* remote_deploy.sh on one host: migrations, `docker compose up`, the      *)
(* health check, the state file and the rollback, composed with the start  *)
(* of admin-api (PolicySeed).  The host's admin-api container is one of    *)
(* the instances; the others run elsewhere on the same database.           *)
(*                                                                         *)
(* Deployments of an environment follow one another (the workflow's        *)
(* concurrency group).  The script, or its ssh session, may be cut off     *)
(* between any two commands, also inside the write of the state file.      *)
(***************************************************************************)
EXTENDS PolicySeed

CONSTANTS
    Tags,        \* image tags
    Host,        \* the admin-api container of this host
    None,
    MaxDeploys,  \* deployments tried, the one that left a host in use included
    MaxFaults    \* processes that die and sessions that are cut off

ASSUME RolloutAssumption ==
    /\ Host \in Instances /\ None \notin Tags
    /\ "torn" \notin Tags \cup {None}
    /\ MaxDeploys \in Nat \ {0} /\ MaxFaults \in Nat

Services == {"auth-api", "admin-api", "email-worker"}

VARIABLES
    script,      \* the script's next command
    tag,         \* DEPLOY_TAG
    rollbackTag,
    state,       \* .deploy_state: [current, prev], or torn
    image,       \* the tag each service's container runs
    ready,       \* services other than admin-api that answer /healthz
    outcome,     \* how the last deployment ended; none while one runs
    \* history
    migrated,    \* tags whose migrations have completed
    deploys, faults

scriptVars == <<script, tag, rollbackTag, state, outcome, deploys>>
hostVars == <<image, ready, migrated>>
vars == <<seedVars, scriptVars, hostVars, faults>>

Torn == [current |-> "torn", prev |-> "torn"]
Fresh == [current |-> None, prev |-> None]      \* no file
Commands == {"idle", "pull", "migrate", "up", "check", "write", "rewrite", "pull_back", "up_back", "check_back"}
Outcomes == {"none", "deployed", "rolled_back", "failed"}

TypeOK ==
    /\ SeedTypeOK
    /\ script \in Commands
    /\ tag \in Tags \cup {None} /\ rollbackTag \in Tags \cup {None}
    /\ state = Torn \/ state \in [current : Tags \cup {None}, prev : Tags \cup {None}]
    /\ image \in [Services -> Tags \cup {None}]
    /\ \A s \in ready : s # "admin-api" /\ image[s] # None
    /\ boot[Host] # "down" => image["admin-api"] # None
    /\ outcome \in Outcomes
    /\ migrated \subseteq Tags
    /\ deploys \in 0..MaxDeploys /\ faults \in 0..MaxFaults

(* A new host on a new database.                                           *)
Untouched ==
    /\ exists = FALSE /\ copies = [r \in Rules |-> 0]
    /\ state = Fresh
    /\ image = [s \in Services |-> None]
    /\ migrated = {}
    /\ deploys = 0

(* A host that is about to start tag a, deployed after tag b.              *)
InUse(a, b) ==
    /\ exists = TRUE /\ copies = [r \in Rules |-> 1]
    /\ state = [current |-> a, prev |-> b]
    /\ image = [s \in Services |-> a]
    /\ migrated = {a, b}
    /\ deploys = 1

Init ==
    /\ Untouched \/ \E a, b \in Tags : InUse(a, b)
    /\ boot = [i \in Instances |-> "down"]
    /\ policy = [i \in Instances |-> {}]
    /\ turn = [i \in Instances |-> 1]
    /\ changed = [i \in Instances |-> FALSE]
    /\ ready = {}
    /\ script = "idle" /\ tag = None /\ rollbackTag = None
    /\ outcome = "none"
    /\ faults = 0

--------------------------------------------------------------------------
(* The containers.                                                         *)

Healthy(s) == IF s = "admin-api" THEN boot[Host] = "serving" ELSE s \in ready

(* compose recreates a container whose image changes and leaves the others *)
(* alone; when the command fails only some are recreated.                  *)
Recreate(S, t) ==
    LET new == {s \in S : image[s] # t} IN
    /\ image' = [s \in Services |-> IF s \in new THEN t ELSE image[s]]
    /\ ready' = ready \ new
    /\ IF "admin-api" \in new THEN Die(Host) ELSE UNCHANGED seedVars

BecomeReady(s) ==
    /\ s \in Services \ ({"admin-api"} \cup ready) /\ image[s] # None
    /\ ready' = ready \cup {s}
    /\ UNCHANGED <<seedVars, scriptVars, image, migrated, faults>>

StopAnswering(s) ==
    /\ s \in ready /\ faults < MaxFaults
    /\ ready' = ready \ {s}
    /\ faults' = faults + 1
    /\ UNCHANGED <<seedVars, scriptVars, image, migrated>>

(* restart: unless-stopped, once there is a container.                     *)
Restart(i) ==
    /\ i = Host => image["admin-api"] # None
    /\ Start(i)
    /\ UNCHANGED <<scriptVars, hostVars, faults>>

Boot(i) == Booting(i) /\ UNCHANGED <<scriptVars, hostVars, faults>>

Crash(i) ==
    /\ boot[i] # "down"
    /\ faults < MaxFaults /\ faults' = faults + 1
    /\ Die(i)
    /\ UNCHANGED <<scriptVars, hostVars>>

--------------------------------------------------------------------------
(* The script.                                                             *)

To(c) == script' = c /\ UNCHANGED <<tag, rollbackTag, state, outcome, deploys>>

Exit(o) ==
    /\ script' = "idle" /\ tag' = None /\ rollbackTag' = None
    /\ outcome' = o
    /\ UNCHANGED deploys

(* Mutant: the tag before the current one.                                 *)
RollbackToPrev == state.prev

RollbackTo == IF state.current # None THEN state.current ELSE state.prev

(* Mutant: what a torn file holds is taken for the tag to go back to.      *)
DeployTorn(t) ==
    /\ script = "idle" /\ deploys < MaxDeploys
    /\ deploys' = deploys + 1
    /\ script' = "pull" /\ tag' = t /\ rollbackTag' = RollbackTo
    /\ outcome' = "none"
    /\ UNCHANGED <<state, seedVars, hostVars, faults>>

(* The state file is read; grep finds nothing in a torn one, and pipefail  *)
(* ends the script.                                                        *)
Deploy(t) ==
    /\ script = "idle" /\ deploys < MaxDeploys
    /\ deploys' = deploys + 1
    /\ \/ /\ state # Torn
          /\ script' = "pull" /\ tag' = t /\ rollbackTag' = RollbackTo
          /\ outcome' = "none"
       \/ /\ state = Torn
          /\ outcome' = "failed" /\ UNCHANGED <<script, tag, rollbackTag>>
    /\ UNCHANGED <<state, seedVars, hostVars, faults>>

Pull ==
    /\ script = "pull"
    /\ \/ To("migrate")
       \/ Exit("failed") /\ UNCHANGED state
    /\ UNCHANGED <<seedVars, hostVars, faults>>

(* Mutant: a failed migration is only reported.                            *)
MigrateFailsGoesOn == To("up")

(* Some migrations may have been applied, casbin_rule among them.          *)
MigrateFails == Exit("failed") /\ UNCHANGED state

Migrate ==
    /\ script = "migrate"
    /\ \/ /\ To("up")
          /\ migrated' = migrated \cup {tag}
          /\ CreateTable
       \/ /\ MigrateFails
          /\ CreateTable \/ UNCHANGED seedVars
          /\ UNCHANGED migrated
    /\ UNCHANGED <<image, ready, faults>>

Up ==
    /\ script = "up"
    /\ \/ To("check") /\ Recreate(Services, tag)
       \/ \E S \in SUBSET Services : Recreate(S, tag) /\ Exit("failed") /\ UNCHANGED state
    /\ UNCHANGED <<migrated, faults>>

(* Three curls in an `if`: errexit is off and the last one decides.        *)
HealthCheck == Healthy("email-worker")

Check ==
    /\ script = "check"
    /\ \/ HealthCheck /\ To("write")
       \/ ~HealthCheck /\ rollbackTag # None /\ To("pull_back")
       \/ ~HealthCheck /\ rollbackTag = None /\ Exit("failed") /\ UNCHANGED state
    /\ UNCHANGED <<seedVars, hostVars, faults>>

(* The redirection truncates the file; then both lines are written.        *)
WriteState ==
    /\ \/ /\ script = "write"
          /\ script' = "rewrite" /\ state' = Torn
          /\ UNCHANGED <<tag, rollbackTag, outcome, deploys>>
       \/ /\ script = "rewrite"
          /\ state' = [current |-> tag, prev |-> rollbackTag]
          /\ Exit("deployed")
    /\ UNCHANGED <<seedVars, hostVars, faults>>

PullBack ==
    /\ script = "pull_back"
    /\ \/ To("up_back")
       \/ Exit("failed") /\ UNCHANGED state
    /\ UNCHANGED <<seedVars, hostVars, faults>>

UpBack ==
    /\ script = "up_back"
    /\ \/ To("check_back") /\ Recreate(Services, rollbackTag)
       \/ \E S \in SUBSET Services : Recreate(S, rollbackTag) /\ Exit("failed") /\ UNCHANGED state
    /\ UNCHANGED <<migrated, faults>>

CheckBack ==
    /\ script = "check_back"
    /\ Exit(IF HealthCheck THEN "rolled_back" ELSE "failed")
    /\ UNCHANGED <<state, seedVars, hostVars, faults>>

CutOff ==
    /\ script # "idle" /\ faults < MaxFaults
    /\ faults' = faults + 1
    /\ Exit("failed")
    /\ UNCHANGED <<state, seedVars, hostVars>>

Command == Pull \/ Migrate \/ Up \/ Check \/ WriteState \/ PullBack \/ UpBack \/ CheckBack

Next ==
    \/ \E i \in Instances : Restart(i) \/ Boot(i) \/ Crash(i)
    \/ \E s \in Services : BecomeReady(s) \/ StopAnswering(s)
    \/ \E t \in Tags : Deploy(t)
    \/ Command
    \/ CutOff

Spec == Init /\ [][Next]_vars

(* Docker restarts what died, a started process runs, and a script that is *)
(* not cut off goes on.                                                    *)
Fairness ==
    /\ \A i \in Instances : WF_vars(Restart(i)) /\ WF_vars(Boot(i))
    /\ WF_vars(Command)

FairSpec == Spec /\ Fairness

--------------------------------------------------------------------------

(* Whenever the script reports success, after a deployment or a rollback,  *)
(* every service runs the image the state file calls current.              *)
StateTruthful ==
    outcome \in {"deployed", "rolled_back"} =>
        \A s \in Services : image[s] = state.current

(* No service ever runs an image whose migrations have not completed,      *)
(* through failed deployments, rollbacks and cut-off sessions.             *)
SchemaFirst == \A s \in Services : image[s] \in migrated \cup {None}

(* Once deployed, admin-api comes to serve: neither processes that died in *)
(* the middle of the seeding nor another instance that seeds the same      *)
(* table keep it from starting.                                            *)
AdminServes == image["admin-api"] # None ~> boot[Host] = "serving"

(* What the README says of the health check: a deployment reported as      *)
(* successful had the services up when it was checked.                     *)
CheckedServicesUp == script = "write" => \A s \in Services : Healthy(s)

============================================================================
