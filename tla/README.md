# A TLA+ model of the auth template

This directory specifies the stateful parts of the repository (`auth-api`,
`admin-api`, `email-worker`, the packages they share, the KPI report and the
deployment script), model-checks them with TLC on small instances and proves all
of their safety invariants with TLAPS for instances of any size. `PROJECT.json`
is the machine-readable index: components, runs, mutants, the map from
definitions to source lines, findings, hazards and theorems.

## 1. Inventory

| part | state | operations | what is hard |
|---|---|---|---|
| refresh sessions (`auth-api`) | `refresh_sessions` rows and their locks | Login, Refresh, Logout, LogoutAll | concurrent rotations, a bulk UPDATE that races with an INSERT, aborts, lost acknowledgements, lock-order deadlock |
| registration and verification (`auth-api`) | `users`, `email_verifications`, `email_records`, the Redis list and cooldown key | Register with cleanup, Bootstrap of a new owner, ResendVerification with rollback, VerifyEmail, VerifyMagicLink | compensation racing with success, a clock read before a lock, unlocked validation, a push that fails after taking effect |
| login limits (`auth-api`, `common-go`) | two Redis counters | RateLimit middleware, `isLoginRateLimited`, `increaseLoginFailCount`, DEL | INCR and EXPIRE are two commands, check and increment are apart, keys expire in between |
| tenants and members (`auth-api`, `admin-api`) | `tenants`, `tenant_users`, `user_roles` | Bootstrap, SwitchTenant, AdminRBAC, AddMember, UpdateMemberRole, RemoveMember, AssignRole | a role checked before it is used, a name checked before it is inserted |
| mail delivery (`email-worker`) | the Redis list, in-memory timers, record status, blacklist | Run, handleJob, handleDeliveryError, the Mark transactions | at-most-once delivery, crash with a job in hand, several workers |
| delivery webhook (`email-worker`) | record status and `email_status_history` | `UpsertWebhookStatusByExternalID` | duplicated, concurrent and early callbacks |
| policy storage (`admin-api`) | `casbin_rule`, each instance's model | load, seed, save | several instances seeding at once, a death between two statements |
| KPI report (`auth-api`) | none of its own; reads the tables above and an export | nine queries, three export formats, recommendations | queries without a transaction over tables in motion |
| deployment script | state file, images, health | pull, migrate, up, health check, rollback | a failing step or a cut-off session in the middle |

The parts meet in PostgreSQL and in the list `email:send`: `auth-api` commits a
record and pushes its job, the worker pops and sends it and writes the outcome to
the record, the webhook updates the same record, and a cleanup or rollback of
`auth-api` may remove the record while the job is still on its way. `admin-api`
works on the memberships that Bootstrap creates, with access tokens that
SwitchTenant signs. The deployment script runs the migrations and replaces the
containers, and with them the `admin-api` instances that seed the policy table.

## 2. Modules

Every module keeps the names of the code. Requests are used once: a request has
a program counter `pc`, an answer `resp`, and the locals its handler keeps.
PostgreSQL runs at READ COMMITTED, so a statement is a step that sees what was
committed when it starts, and a row lock is a guard. A Redis command or script
is one step.

- **`SessionLifecycle`**: what refresh sessions promise: issue, exchange, spend.
- **`RefreshSessions`**: the table behind it, one action per SQL statement
  (`SelectForUpdate`, `InsertNew`, `UpdateOld`, `CommitRotation`, `RevokeRow`,
  `CommitRevoke`). A bulk UPDATE takes a snapshot (`snap`) and then visits its
  rows in any order, waiting for locks and testing its WHERE clause again.
  `Abort` is a failed statement, a dead client or process, or a deadlock victim.
  The answer "error" after a commit is a lost acknowledgement.
- **`RefreshSessionsProofs`**: the theorems about `RefreshSessions`.
- **`AccountLifecycle`**: what `auth-api` promises about the account of one
  address: create, activate, drop while pending.
- **`MailOutbox`**: the contract between `auth-api` and the worker over
  `email_records` and `email:send`: issue, push, withdraw. `EmailVerification`
  and `EmailWorker` both implement it, each from its own side.
- **`EmailVerification`**: one e-mail address. A verification (OTP row, link row,
  record) is named after the request that issued it. A store transaction is one
  step, because it locks the rows it decides on first; everything a handler reads
  outside a lock is a step of its own: the clock (`Begin`), the rows a resend
  will remember (`ResendSelect`), the candidates of the OTP query
  (`OtpSnapshot`), the unlocked validation of a link (`MagicValidate`), the
  records a cleanup deletes (`CleanupRecords`). Bootstrap commits its owner
  (`BootstrapTx`) before it creates the verification (`CreateVerification`), so
  both are steps. `created` orders rows by the
  *begin* of their transaction, as `now()` does.
- **`EmailVerificationProofs`**: its theorems, with the refinements of
  `AccountLifecycle` and `MailOutbox`, and those about prompt resends.
- **`RightCodeProofs`**: that the right code is accepted, on top of it.
- **`EmailWorker`**: consumers, timers, Mark transactions, blacklist and webhook.
  The constant `Faults` lets statements fail and processes crash. `Issue`,
  `Push` and `Withdraw` are what `auth-api` does to the records and the list.
  A push whose acknowledgement is lost is repeated by the Redis client, that of a
  retry too (`PushJob`, `RetryRepeated`). `lost` remembers the records of which a
  fault has dropped a job.
- **`EmailWorkerProofs`**: its theorems, with the refinement of `MailOutbox`.
- **`RateLimits`**: clients that share one IP and one address, and the two
  counters. Commands may fail at any time; `orphaned` remembers which keys lost
  their EXPIRE that way.
- **`Tenancy`**: Bootstrap and SwitchTenant with the member and role requests.
  The history variable `entitled` remembers whether a caller was owner or admin
  at some moment of the request.
- **`RateLimitsProofs`**, **`TenancyProofs`**: the theorems about the two.
- **`KpiReport`**: `loadDatabaseSummary` as a sequence of statements, each on the
  tables of its own moment, with the committed effects of registration,
  verification, cleanup, the rollback of a resend and the worker in between;
  `loadMixpanelSummary` as a function of the format and the cells of an export;
  `deriveRecommendations`. A median is kept as the size of its sample.
- **`KpiReportProofs`**: its theorems.
- **`PolicySeed`**: the start of `admin-api`, statement by statement, for any
  number of instances on one `casbin_rule` table. A rule is its index in
  `defaultPolicyRules`; a table is the number of rows of each.
- **`Rollout`**: `remote_deploy.sh`, composed with `PolicySeed`: recreating the
  host's `admin-api` container is the `Die` of an instance, a completed migration
  is `CreateTable`. The write of the state file is two steps, because the
  redirection truncates it first.
- **`RolloutProofs`**: the theorems about `PolicySeed` and `Rollout`.

`MCRefreshSessions`, `MCEmailVerification`, `MCEmailWorker`, `MCRateLimits`,
`MCTenancy`, `MCKpiReport` and `MCRollout` only add symmetry sets, constant
functions, names for what is interchangeable (where a liveness property rules
symmetry sets out) and reachable starting states (two open logins; a completed
registration).

Definitions named as mutants in a comment are deliberately wrong variants of the
definition that follows them. They are not used by any specification; each shows
that a property notices the bug it is meant to notice.

## 3. Runs

| run | result | instance |
|---|---|---|
| `MCRefreshSessions` | passes, 113,222 states | two logins open, 4 tokens, 3 requests |
| `MCRefreshLogoutAll` | **violated** | 2 tokens, 3 requests |
| `MCEmailVerification` | passes, 324,161 states | empty or after a registration, 3 requests |
| `MCVerificationSlowResend` | **violated** | after a registration, resends of any duration |
| `MCEmailWorker` | passes, 123,206 states | 2 workers, 2 records, 2 webhooks, faults |
| `MCEmailBlacklist` | **violated** | 1 worker, 1 record |
| `MCRateLimits` | passes, 13,766 states | 2 clients, limits of 2 |
| `MCRateLimitsCrash` | **violated** | 1 client |
| `MCTenancy` | passes, 82,446 states | 2 users, 2 tenants, 3 requests |
| `MCKpiReport` | passes, 1,034,360 states | 2 users, 2 writes during a report, exports of 2 rows |
| `MCRollout` | passes, 229,233 states | 2 instances, 2 rules, 2 tags, 2 deployments, 1 fault |
| `MCRolloutHealthCheck` | **violated** | the same without faults |

What the passing runs show:

- *Sessions.* A token is exchanged at most once (`SingleUse`); a login never has
  two live sessions (`OneLiveSessionPerLogin`); a successful logout has revoked
  every session its statement saw (`LogoutRevokesWhatItSaw`); every request is
  answered, although two LogoutAll can deadlock (`EveryRequestAnswered`); the table implements
  `SessionLifecycle` (`Lifecycle`).
- *Verification.* One account holds the address, one verification reports its
  activation, and no cleanup takes it back (`AccountContract`, which is
  `AccountLifecycle`); no job is pushed before its record is committed, and a
  withdrawn record stays withdrawn (`OutboxContract`, which is `MailOutbox`); one
  live verification at a time (`OneLiveVerification`); codes and links are single use (`AcceptedOnce`);
  wrong guesses are bounded under concurrency (`GuessesBounded`); a resend voids
  older codes (`ResendVoidsOlder`); the right code is accepted
  (`RightCodeAccepted`).
- *Worker.* At most `MaxRetries + 1` sends per push (`RetriesBounded`); an
  accepted mail is not sent again (`AcceptedOncePerPush`); after blacklisting
  only sends that had passed the check go out (`LateSendsBounded`); a webhook
  event is recorded once (`EventRecordedOnce`); every job comes to an end, and a
  record stays queued only if a fault dropped a job of it, unless SMTP never
  answers: to the send of that very record, or to one of every worker
  (`EveryJobSettles`); the worker neither issues nor revives a record
  (`OutboxContract`).
- *Limits.* Both limits are exceeded by no more than the requests under way
  (`FailuresBounded`, `AdmittedBounded`); whatever the interleaving of INCR,
  EXPIRE, DEL and expiry, exhausted limits lift unless an EXPIRE was lost to a
  fault (`LimitsLift`).
- *Tenancy.* Membership and grants change only for callers who were owner or
  admin during the request (`ChangesAuthorised`); one owner never gets two
  tenants of one name (`NameOncePerFounder`); a role change does not revive a
  removed member (`RemovalSticks`).
- *Report.* Although the queries see different moments, the rate is a share, the
  activations by method cover the verified users and credit nobody twice
  (`ActivationsAddUp`), and a user who was in one situation during the whole
  report (mail sent or not, not clicked, bounced or failed, a wrong code) is
  counted and advised on (`StuckUsersReported`). The three formats count a
  well-formed export alike (`ExportCounted`).
- *Deployment.* An instance that serves has the whole policy
  (`ServingHasPolicy`), a complete table stays complete (`TableStaysComplete`)
  and the duplicates that races and deaths leave are bounded (`CopiesBounded`):
  `seed.go:20`, "calling it multiple times will not create duplicate policies",
  is said of one enforcer, and does not hold of the table under several.
  When the script reports success the images are the ones the state file names
  (`StateTruthful`); no image runs before its migrations (`SchemaFirst`);
  `admin-api` comes to serve (`AdminServes`).

What the violated runs show:

1. `MCRefreshLogoutAll`: a rotation selects its row, LogoutAll's UPDATE takes its
   snapshot and waits for that row, the rotation commits; the UPDATE skips the
   old row and never saw the new one, so the login survives a successful
   LogoutAll, against `logout_test.go:70`.
2. `MCVerificationSlowResend`: a resend takes longer than the 90 s cooldown, a
   second one succeeds, and the first then fails to push and restores the expiry
   of the rows it had revoked: a link older than the answered resend works again.
   (An older OTP is still refused: it is compared with the newest open row.)
   With resends shorter than the cooldown (`Prompt`) the property holds.
3. `MCEmailBlacklist`: a record is withdrawn while its job is queued, the mail
   bounces hard, MarkBounced finds no record, and Blacklist is skipped.
4. `MCRateLimitsCrash`: the first INCR of a window succeeds and its EXPIRE does
   not; the counter fills up and is never reset.
5. `MCRolloutHealthCheck`: `if healthcheck` switches `errexit` off inside the
   function, so the curl of `email-worker` alone decides; a deployment whose
   `auth-api` and `admin-api` do not answer is recorded as successful and not
   rolled back, against `README.md:260`.

Three properties state exceptions, because the code has them:

- `RightCodeAccepted` (in `OnlyCodeAlive`) leaves out two rows with an *older*
  `created_at` than one that is still open, with which their code is compared.
  One is that of a resend whose transaction began before the registration's. The
  other is the row that Bootstrap commits after its owner has verified with the
  code of a resend: an expired row of an earlier resend may be newer than it. The
  second needs five requests to happen, more than `MCEmailVerification` has; it came
  up when the inductive invariant was checked on a larger instance.
- `OneLiveVerification` leaves out the verification Bootstrap adds to its own
  owner: a resend between Bootstrap's commit and `CreateVerification`, which
  revokes nothing, leaves two live ones.
- `EveryJobSettles` leaves out a send that never ends. `Send` looks at its context
  only before it calls `net/smtp.SendMail` (`sender.go:68`, `email.go:77`), which
  has no deadline, and a process has one consumer: an SMTP server that accepts the
  connection and says nothing keeps the job, and all others once every worker has
  met it. Neither exception can be dropped: the property is violated without it.

## 4. Bounds and fairness

Bounds only limit how much happens, never what may happen next to each other.

- *Sessions.* From two open logins, three requests allow two LogoutAll that lock
  in opposite order beside a rotation, or two racing rotations and a logout; two
  more tokens allow a chain of rotations. Requests are numbered as they start,
  fresh tokens as they are drawn, and the row of one login may expire.
- *Verification.* The clock runs to `MaxTime` = 2 with `TTL` = 2 (3 in the slow
  run) and `Window` = 1, so that a code expires, a cooldown ends and a second
  resend follows. `MaxAttempts` is 1 instead of 5; the code compares with
  `>`, so the lockout boundary is reached. The history variables are the only
  use of a request after its answer, so its locals are cleared there.
- *Worker.* `MaxRetries` = 1 instead of 3 reaches both sides of the retry limit;
  `MaxPushes` = 2 leaves room for one push, of a new job or of a retry, that the
  Redis client repeats after a lost acknowledgement.
- *Limits.* `MaxCount` bounds the middleware's counter when it has no expiry; it
  lies above `IpLimit` + 1, so the limit is exceeded.
- *Tenancy.* Two users and two tenants with one name let both conflicts (same
  owner, different owners) and both kinds of caller arise.
- *Report.* Two writes during a report let a user come and go, or two users
  change, between any two queries; before it starts the tables are filled without
  bound. The statuses "sent" and "bounced" fill every figure but that of failed
  mails, which is read as the bounced ones are. An export is
  read without a database, as neither part looks at the other. Exports of two
  rows reach every pair of rows.
- *Deployment.* Two rules and two instances allow every overlap of load, insert
  and truncate; two deployments allow a rollback to an earlier tag. A run starts
  on a new host or on one that is in use, and the tag in use is called t1.

`CHECK_DEADLOCK FALSE` is set because requests are used once or a bound is
reached: the system may then really stop.

Fairness is weak and only on steps the running code takes by itself: the
statements of a request under way and PostgreSQL's deadlock detector
(`RefreshSessions`); the consumer loop up to a send and from its return on, armed
timers and webhook handlers (`EmailWorker`; nothing is assumed of `Send`, which
waits for SMTP without a deadline); handlers and Redis key expiry (`RateLimits`); Docker's restart policy, a starting
process and a script that is not cut off (`Rollout`). No client is
assumed to send anything, and no failing step is assumed to happen.

## 5. Proofs

`RefreshSessionsProofs` is checked by TLAPS for all sets `Tokens`, `Users` and
`Requests`, from `NullAssumption` alone (the three null values are not members
of the sets). It proves `TypeOK`, `LockDiscipline`, `SingleUse`,
`OneLiveSessionPerLogin`, `LogoutRevokesWhatItSaw` and `Spec => Lifecycle`.

None of the safety properties is inductive alone. `SingleUse` speaks of answers,
which say nothing of the row that was rotated; `OneLiveSessionPerLogin` is broken
by a commit unless the row it replaces is known to be live until then. `IndInv`
adds what links them:

- `LockDiscipline`: a rotation in its transaction holds the lock of its old row.
- `RotationSound`: that row stays live, it is what the commit revokes, and after
  a commit `replaced_by` of the old row is the rotation's own new token for ever.
- `NewTokenFresh`: new tokens are distinct between requests and have no row
  before the commit. With `RotationSound` this gives `SingleUse`: two successful
  requests with one old token would have the same new token.
- `RowsConsistent`: rows hold drawn tokens, and `replaced_by` implies revoked.
- `RevokeSound`: the snapshot of a logout is divided into rows to visit, rows
  marked and locked, and rows already revoked.

There is one lemma per action of the table, with one step per conjunct. The refinement maps
`live` to the owner of an unrevoked row and `spent` to the revoked rows: Login is
an issue, CommitRotation an exchange, CommitRevoke a spend, all else stutters.

`RolloutProofs` has two parts. The seeding is proved for every finite set of
instances and every positive number of rules (`SeedAssumption`). `ServingHasPolicy` is not inductive: that a
serving instance has every rule depends on how far its loop got. `LoopInv` says
that the rules before `turn` are in memory and that saving and serving instances
have finished the loop. From it follow `ServingHasPolicy` and
`TableStaysComplete`: the only step that removes rows writes the memory of an
instance that has finished. `CopiesBounded` needs `RowsInv`: the rows of a rule
and the instances that will still insert it are together no more than the
instances. An insert moves one from the second to the first; a load that starts
a loop adds an instance only while the rule has no rows.

The deployment assumes `RolloutAssumption` besides. `RolloutSeeds` shows that
the composed system implements `SeedSpec`: every step of the script, of Docker
and of the containers is a step of the seeding or leaves it alone, so that
`RolloutServing` carries the theorems of the seeding over. `SchemaFirst` and
`StateTruthful` follow from `ScriptInv`: every tag that runs, is about to run, is
in the state file or is the rollback tag has been migrated to (`MigratedInv`),
and from `up` to the end of the script the images are the tag, or the rollback
tag, which is the one the untouched state file calls current (`ImageInv`).
`DeployTypes` is the type invariant: besides the types, no service answers and no
`admin-api` starts without a container, although a rollback, a restart and the
seeding all touch it.

`EmailVerificationProofs` holds for every set of requests, every clock bound,
expiry, cooldown and attempt limit (`VerificationAssumption`), and with resends
of any duration. `VerificationInv` adds to `AcceptedOnce` what the handlers rely
on between two steps: where a request stands and what it remembers (`StageInv`);
a row that is open belongs to a pending or active account and a row that was
accepted is closed (`RowInv`), so that nothing accepts it again; the wrong
guesses a row has seen are counted in it, and no row counts beyond
`MaxAttempts` + 1 (`CountInv`). There are lemmas for what the actions have in
common (an answer, the move to another stage, rows issued, accepted or charged
with a wrong guess) and then one per action. `AccountContract`
is proved step by step: only the registering, activating and cleaning
transactions touch the account, and the cleanup's DELETE applies to a pending
one.

`TableInv` is the second invariant of the module, about what the first leaves
out: no request has read a later clock than the present one, the transaction
times have a latest (`TimeInv`, so that `Latest` is a number that bounds them
all, since the naturals are well-founded), a request that issues has a
transaction time from its begin on, and every record was issued (`RecordInv`).
It gives `TypeOK`, and `OutboxContract`: a request issues its own record once,
pushes it after the commit, and what a rollback or cleanup removes is a set of
records that exist.

The third part of the module assumes `Prompt`, that every resend is answered
before its cooldown is over; `MCVerificationSlowResend` shows that `ResendVoidsOlder`
is false without. `ResendInv` has five parts. One account holds the address
(`OneCurrent`, from the life cycle). The cooldown admits one resend at a time,
and only it has saved expiries (`FlightInv`). What a successful resend revoked,
or is about to, is dead now and at the time the resend in flight began, which
has saved nothing of it, so that undoing that one brings nothing back
(`RevokedInv`). A request that began with a revoked code or link compares it with
a time at which it was dead (`StaleInv`, hence `ResendVoidsOlder`). One
verification is alive, one at most would be again if the resend were undone,
and while there is such a one the one alive is the resend's own (`LiveInv`, hence
`OneLiveVerification`). Most actions issue nothing and move no expiry, and one
lemma (`GentleStep`) serves them all; registration, resend, its undo and the clock
have their own.

`RightCodeProofs` proves `RightCodeAccepted`, also under `Prompt`. VerifyEmailOTP
compares a code with the newest open row, whether that one is alive or not, so the
proof has to show that no live row stands behind a newer one. `CodeInv` adds
what that takes. Transaction times are distinct and every open row has one
(`DistinctInv`, `DatedInv`). A resend in flight began after all rows of other
resends (`LaterInv`), has expired what it saved, and has seen all that is alive while it
holds the user's row (`SavedInv`, `StartInv`). A row behind a newer one is dead, and
stays dead if any resend but that of the newer row is undone (`OrderInv`). Bootstrap's own row may be committed behind a resend's. For it,
from the begin of its transaction on, some row before it expires no earlier, both as
things are and as they would be if the resend in flight were undone (`OwnerInv`);
so it is never the only one alive while it is behind another. `Quiet` collects
what the steps have in common that issue no row and move no expiry; the
transactions that do, and the rollback, are proved one by one.

`EmailWorkerProofs` needs finitely many workers; records, addresses, webhooks and
limits are arbitrary (`WorkerAssumption`). `EventRecordedOnce` rests on
`HookInv`: a webhook transaction between its lookup and its insert holds the lock
of its record, the record is still there, and the event it found missing still
is. `LateSendsBounded` rests on `LateInv`: the late sends to a blacklisted address
and the workers that have passed the check for it are together fewer than the
workers. The worker whose bounce caused the blacklisting is not among them, a
send moves one from the second to the first, and no worker passes the check
afterwards. `OutboxContract` follows from `IssuedInv`, and from `JobsIssued` for a
retry that is pushed twice: every job in the list, in a hand or on a timer is of
an issued record. `RetriesBounded` and
`AcceptedOncePerPush` rest on `BalanceInv`, an account in credits. A push brings
at most `MaxRetries` + 1 credits to send and one to be accepted; a job carries those it has
left through the list, the timers and the workers' hands, a send spends one, and
a fault only loses some. The credits are counted as a set of places, so that no
sum over the bag of jobs is needed: a pop renumbers the places of the list by a
bijection, and every other step adds or takes a known set of them.

`RateLimitsProofs` holds for every finite set of clients and every limit
(`LimitAssumption`). Check and increment are apart, so that neither bound is
inductive. `LimitsInv` counts the clients in between: failures counted plus
clients past the check stay below the limit plus the other clients, and admitted
requests plus clients that will be admitted stay below the smaller of the counter
and the limit, plus one for each client that was counted before the window
ended. `TypeOK` follows from it.

`KpiReportProofs` holds for every finite set of users, any bound on the writes
during a report and on the rows of an export (`KpiAssumption`). A figure says what
was true when its query ran, so `FigureInv` relates each to something that only
grows or only shrinks afterwards: users are verified once and for all, so that
figures of verified users stay below the users verified now. `SeenInv` is about
the others: users who were stuck from the start are in every set that counts
them, and only leave `stuck`.
Two figures of different moments then compare through the tables between them.
`EventInv` gives `ExportCounted`: the counters are what `Recorded` makes of the
rows, and in a well-formed export every row has a name.

`TenancyProofs` holds for all users, tenants, names and requests
(`TenancyAssumption`). `NameOncePerFounder` needs `ClaimInv`: one transaction at a
time holds the lock of an owner's row, and while it has found a name free the
owner has no tenant of that name. `ChangesAuthorised` needs `EntitledInv`, that a
caller whom AdminRBAC has let in was owner or admin at some moment of the request.
`RemovalSticks` is an action property: only AddMember and Bootstrap
create a membership.

Only model-checked:

- `EveryRequestAnswered`, `EveryJobSettles`, `LimitsLift` and `AdminServes`:
  liveness under fairness is outside what the prover handles.

## 6. Not modelled

- Cryptography, JWT encoding, HTTP plumbing, configuration, SMTP wire protocol,
  mail templates, analytics, metrics, the rendering of the KPI report: stateless,
  or state that nothing reads back.
- `Redis == nil` in the limiters (they are skipped) and jobs with an empty
  `record_id` (`auth-api` never makes one).
- `resendRateLimitScript` renews an expiry whose TTL rounds to 0, in the last half
  second of a window; the model keeps the shorter cooldown.
- Lock queues between `users` and `email_verifications`: a deadlock victim there
  is a failed request.
- `RemovePolicy` and `RemoveFilteredPolicy` of the casbin adapter, which no
  service calls, and rules other than the default ones.
- The argument and environment checks of `remote_deploy.sh`, its start of pg and
  redis, and the other scripts: linear shell that changes no state the services
  share. The migrations are one step that completes or fails.
- `Tenancy` takes the mail of Bootstrap as one step and verifies such a user by
  one step (`Verify`); `EmailVerification` has the details for one address.
- Events of the analytics export with a blank or non-text cell count differently
  by format; the model has them, and `ExportCounted` is about the others.
