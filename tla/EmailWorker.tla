---------------------------- MODULE EmailWorker ----------------------------
(***************************************************************************)
(* The e-mail worker: consumers that pop jobs from the Redis list, send    *)
(* them over SMTP and record the outcome, the soft-bounce retry timers,    *)
(* the blacklist, and the webhook that reports what happened to a mail.    *)
(*                                                                         *)
(* A job is gone from the list once it is popped, and a retry waits in the *)
(* memory of the process: a failed step or a crash loses it.               *)
(***************************************************************************)
EXTENDS Integers, Sequences, FiniteSets

CONSTANTS
    Records,      \* email_records rows, one per verification e-mail
    Addresses,    \* recipients
    To,           \* To[m]: to_email of a record
    Malformed,    \* records whose job lacks a recipient, an OTP, a link or an expiry
    Workers,      \* worker processes; the consumer of each is sequential
    Hooks,        \* webhook requests, each used once
    Events,       \* event_id values
    Reports,      \* statuses a callback may report
    MaxRetries,   \* len(softBounceRetryIntervals)
    MaxPushes,    \* pushes for a record (bound): auth-api pushes once, a lost
                  \* acknowledgement makes the Redis client push again
    Faults        \* TRUE: statements fail and processes crash

Idle == "idle"
NoHook == "no hook"

ASSUME WorkerAssumption ==
    /\ To \in [Records -> Addresses]
    /\ Malformed \subseteq Records
    /\ MaxRetries \in Nat /\ MaxPushes \in [Records -> Nat]
    /\ Faults \in BOOLEAN
    /\ NoHook \notin Hooks
    /\ IsFiniteSet(Workers)
    /\ Reports \subseteq {"delivered", "opened", "clicked", "bounced"}

VARIABLES
    queue,       \* the list email:send
    timers,      \* per process: number of time.AfterFunc retries pending for a job
    pc, job,     \* per worker: what it is about to do, and the job in hand
    extId,       \* per worker: the external id drawn for the accepted mail
    status,      \* email_records.status, "absent" when there is no row
    ext,         \* email_records.external_id, 0 for null
    hist,        \* webhook rows of email_status_history: <<hook, event, status>>
    lock,        \* the webhook transaction that has locked the row
    blacklist,
    hpc, hook,   \* webhook requests: progress and payload
    \* history
    issued,      \* records auth-api has committed
    pushes,      \* jobs pushed for a record: by auth-api, and retries over again
    attempts,    \* SMTP sends begun for a record
    accepted,    \* SMTP sends that succeeded
    late,        \* sends begun to an address that was already blacklisted
    refused,     \* addresses an SMTP server answered with a hard bounce
    lost         \* records of which a fault has dropped a job

db == <<status, ext, hist, lock, blacklist>>
worker == <<queue, timers, pc, job, extId>>
hooks == <<hpc, hook>>
sends == <<attempts, accepted, late, refused>>
history == <<issued, pushes, sends, lost>>
vars == <<worker, db, hooks, history>>

Jobs == [rec : Records, retry : 0..MaxRetries]
Payloads == [rec : Records, ext : Nat, event : Events, status : Reports]
WorkerPC == {Idle, "taken", "checked", "accepted", "soft", "hard", "blacklisting", "failing"}
HookPC == {Idle, "locked", "fresh", "done"}
Statuses == {"absent", "queued", "sent", "failed", "bounced", "delivered", "opened", "clicked"}

TypeOK ==
    /\ queue \in Seq(Jobs)
    /\ timers \in [Workers -> [Jobs -> Nat]]
    /\ pc \in [Workers -> WorkerPC]
    /\ \A w \in Workers : pc[w] # Idle => job[w] \in Jobs
    /\ extId \in [Workers -> Nat]
    /\ status \in [Records -> Statuses]
    /\ ext \in [Records -> Nat]
    /\ \A m \in Records : hist[m] \subseteq Hooks \X Events \X Statuses
    /\ lock \in [Records -> Hooks \cup {NoHook}]
    /\ blacklist \subseteq Addresses
    /\ hpc \in [Hooks -> HookPC]
    /\ \A h \in Hooks : hpc[h] \in {"locked", "fresh"} => hook[h] \in Payloads
    /\ pushes \in [Records -> Nat]
    /\ attempts \in [Records -> Nat]
    /\ accepted \in [Records -> Nat]
    /\ late \in [Addresses -> Nat]
    /\ refused \subseteq Addresses
    /\ issued \subseteq Records
    /\ lost \subseteq Records

Init ==
    /\ queue = <<>>
    /\ timers = [w \in Workers |-> [j \in Jobs |-> 0]]
    /\ pc = [w \in Workers |-> Idle]
    /\ job = [w \in Workers |-> <<>>]
    /\ extId = [w \in Workers |-> 0]
    /\ status = [m \in Records |-> "absent"]
    /\ ext = [m \in Records |-> 0]
    /\ hist = [m \in Records |-> {}]
    /\ lock = [m \in Records |-> NoHook]
    /\ blacklist = {}
    /\ hpc = [h \in Hooks |-> Idle]
    /\ hook = [h \in Hooks |-> <<>>]
    /\ pushes = [m \in Records |-> 0]
    /\ attempts = [m \in Records |-> 0]
    /\ accepted = [m \in Records |-> 0]
    /\ late = [a \in Addresses |-> 0]
    /\ refused = {}
    /\ issued = {}
    /\ lost = {}
-----------------------------------------------------------------------------
(* auth-api (MailOutbox): the record is committed ...                      *)
Issue(m) ==
    /\ m \notin issued
    /\ issued' = issued \cup {m}
    /\ status' = [status EXCEPT ![m] = "queued"]
    /\ UNCHANGED <<worker, ext, hist, lock, blacklist, hooks, pushes, sends, lost>>

(* A job more for the list.                                                *)
PushJob(j) ==
    /\ pushes[j.rec] < MaxPushes[j.rec]
    /\ queue' = Append(queue, j)
    /\ pushes' = [pushes EXCEPT ![j.rec] = @ + 1]
    /\ UNCHANGED <<timers, pc, job, extId, db, hooks, issued, sends, lost>>

(* ... and its job is pushed, perhaps twice.                               *)
Push(m) ==
    /\ m \in issued
    /\ PushJob([rec |-> m, retry |-> 0])

(* auth-api takes the record back (cleanup of a registration, rollback of  *)
(* a resend), also when the job has reached the list.                      *)
Withdraw(m) ==
    /\ status[m] # "absent"
    /\ lock[m] = NoHook
    /\ status' = [status EXCEPT ![m] = "absent"]
    /\ ext' = [ext EXCEPT ![m] = 0]
    /\ hist' = [hist EXCEPT ![m] = {}]
    /\ UNCHANGED <<worker, lock, blacklist, hooks, history>>
-----------------------------------------------------------------------------
Goto(w, l) == pc' = [pc EXCEPT ![w] = l]

(* The worker forgets the job it had.                                      *)
Done(w) ==
    /\ Goto(w, Idle)
    /\ job' = [job EXCEPT ![w] = <<>>]
    /\ extId' = [extId EXCEPT ![w] = 0]

Mine(w) == job[w].rec

(* DequeueIntoContext: BLPOP removes the oldest job from the list.         *)
Pop(w) ==
    /\ queue # <<>>
    /\ job' = [job EXCEPT ![w] = Head(queue)]
    /\ queue' = Tail(queue)

(* Run takes the next job.                                                 *)
Dequeue(w) ==
    /\ pc[w] = Idle
    /\ Pop(w)
    /\ Goto(w, "taken")
    /\ UNCHANGED <<timers, extId, db, hooks, history>>

IsBlacklisted(a) == a \in blacklist

(* renderVerificationEmailBody needs an OTP, a link and an expiry; a job   *)
(* without recipient fails the same way, before the blacklist is read.     *)
Renders(m) == m \notin Malformed

(* Mutant: the blacklist is not consulted.                                 *)
HandleJobUnchecked(w) ==
    /\ pc[w] = "taken"
    /\ Goto(w, IF Renders(Mine(w)) THEN "checked" ELSE "failing")
    /\ UNCHANGED <<queue, timers, job, extId, db, hooks, history>>

(* handleJob up to the send.                                               *)
HandleJob(w) ==
    /\ pc[w] = "taken"
    /\ Goto(w, IF ~IsBlacklisted(To[Mine(w)]) /\ Renders(Mine(w)) THEN "checked" ELSE "failing")
    /\ UNCHANGED <<queue, timers, job, extId, db, hooks, history>>

(* ClassifySMTPError: a 5xx is a hard bounce, a 4xx a soft one, any other  *)
(* error no bounce at all.                                                 *)
Classes == {"hard", "soft", "failing"}

(* Sender.Send accepts the mail or returns a classified error.             *)
Outcomes == {"accepted"} \cup Classes

(* The send of handleJob; an accepted mail is given a new external id.     *)
Send(w, outcome) ==
    /\ pc[w] = "checked"
    /\ attempts' = [attempts EXCEPT ![Mine(w)] = @ + 1]
    /\ late' = [late EXCEPT ![To[Mine(w)]] = @ + (IF IsBlacklisted(To[Mine(w)]) THEN 1 ELSE 0)]
    /\ refused' = IF outcome = "hard" THEN refused \cup {To[Mine(w)]} ELSE refused
    /\ \/ /\ outcome = "accepted"
          /\ accepted' = [accepted EXCEPT ![Mine(w)] = @ + 1]
          /\ extId' = [extId EXCEPT ![w] = accepted[Mine(w)] + 1]
       \/ /\ outcome # "accepted"
          /\ UNCHANGED <<accepted, extId>>
    /\ Goto(w, outcome)
    /\ UNCHANGED <<queue, timers, job, db, hooks, issued, pushes, lost>>

(* Mutant: a mail whose success could not be recorded is queued again.     *)
MarkSentRequeues(w) ==
    /\ pc[w] = "accepted"
    /\ status[Mine(w)] = "absent"
    /\ queue' = Append(queue, job[w])
    /\ Done(w)
    /\ UNCHANGED <<timers, db, hooks, history>>

(* Mutant: the arguments of the UPDATE are swapped.                        *)
MarkSentSwapped(w) ==
    /\ pc[w] = "accepted"
    /\ status' = [status EXCEPT ![Mine(w)] = "sent"]
    /\ ext' = [ext EXCEPT ![Mine(w)] = Mine(w)]
    /\ Done(w)
    /\ UNCHANGED <<queue, timers, hist, lock, blacklist, hooks, history>>

(* Mutant: the row is written, not updated.                                *)
MarkSentUpserts(w) ==
    /\ pc[w] = "accepted"
    /\ lock[Mine(w)] = NoHook
    /\ status' = [status EXCEPT ![Mine(w)] = "sent"]
    /\ ext' = [ext EXCEPT ![Mine(w)] = extId[w]]
    /\ Done(w)
    /\ UNCHANGED <<queue, timers, hist, lock, blacklist, hooks, history>>

(* The three Mark transactions update the row, if there is one, and wait   *)
(* for a webhook that has locked it.                                       *)
MarkSent(w) ==
    /\ pc[w] = "accepted"
    /\ lock[Mine(w)] = NoHook
    /\ \/ /\ status[Mine(w)] = "absent"
          /\ UNCHANGED <<status, ext>>
       \/ /\ status[Mine(w)] # "absent"
          /\ status' = [status EXCEPT ![Mine(w)] = "sent"]
          /\ ext' = [ext EXCEPT ![Mine(w)] = extId[w]]
    /\ Done(w)
    /\ UNCHANGED <<queue, timers, hist, lock, blacklist, hooks, history>>

MarkFailed(w) ==
    /\ pc[w] = "failing"
    /\ lock[Mine(w)] = NoHook
    /\ status' = [status EXCEPT ![Mine(w)] = IF @ = "absent" THEN @ ELSE "failed"]
    /\ Done(w)
    /\ UNCHANGED <<queue, timers, ext, hist, lock, blacklist, hooks, history>>

(* A record that is gone ends the job: no retry, no blacklisting.          *)
MarkBouncedMissing(w) ==
    /\ pc[w] \in {"soft", "hard"}
    /\ status[Mine(w)] = "absent"
    /\ Done(w)
    /\ UNCHANGED <<queue, timers, db, hooks, history>>

MarkBounced(w) ==
    /\ lock[Mine(w)] = NoHook
    /\ status[Mine(w)] # "absent"
    /\ status' = [status EXCEPT ![Mine(w)] = "bounced"]
    /\ UNCHANGED <<queue, ext, hist, lock, blacklist, hooks, history>>

HardBounce(w) ==
    /\ pc[w] = "hard"
    /\ MarkBounced(w)
    /\ Goto(w, "blacklisting")
    /\ UNCHANGED <<timers, job, extId>>

RetryLeft(j) == j.retry < MaxRetries

(* Mutant: a retry that is not counted.                                    *)
RetryUncounted(j) == j

Retry(j) == [j EXCEPT !.retry = @ + 1]

SoftBounceRetry(w) ==
    /\ pc[w] = "soft"
    /\ RetryLeft(job[w])
    /\ MarkBounced(w)
    /\ timers' = [timers EXCEPT ![w][Retry(job[w])] = @ + 1]
    /\ Done(w)

SoftBounceExceeded(w) ==
    /\ pc[w] = "soft"
    /\ ~RetryLeft(job[w])
    /\ MarkBounced(w)
    /\ Goto(w, "failing")
    /\ UNCHANGED <<timers, job, extId>>

Blacklist(w) ==
    /\ pc[w] = "blacklisting"
    /\ blacklist' = blacklist \cup {To[Mine(w)]}
    /\ Done(w)
    /\ UNCHANGED <<queue, timers, status, ext, hist, lock, hooks, history>>

(* A retry timer fires and pushes its job; a push that fails is logged and *)
(* not tried again.                                                        *)
RetryFires(w, j) ==
    /\ timers[w][j] > 0
    /\ timers' = [timers EXCEPT ![w][j] = @ - 1]
    /\ \/ queue' = Append(queue, j) /\ UNCHANGED lost
       \/ Faults /\ lost' = lost \cup {j.rec} /\ UNCHANGED queue
    /\ UNCHANGED <<pc, job, extId, db, hooks, issued, pushes, sends>>

(* The retry is in the list but the acknowledgement is lost, so that the   *)
(* Redis client will push it over again.                                   *)
RetryRepeated(w, j) ==
    /\ timers[w][j] > 0
    /\ PushJob(j)

(* A statement fails: the error is logged and the job dropped.             *)
GiveUp(w) ==
    /\ Faults
    /\ pc[w] # Idle
    /\ lost' = lost \cup {Mine(w)}
    /\ Done(w)
    /\ UNCHANGED <<queue, timers, db, hooks, issued, pushes, sends>>

(* The process has a job of the record in hand or in a timer.              *)
Holds(w, m) ==
    \/ pc[w] # Idle /\ Mine(w) = m
    \/ \E j \in Jobs : j.rec = m /\ timers[w][j] > 0

(* The process dies with the job in hand and its timers, and restarts.     *)
Crash(w) ==
    /\ Faults
    /\ \E m \in Records : Holds(w, m)
    /\ lost' = lost \cup {m \in Records : Holds(w, m)}
    /\ Done(w)
    /\ timers' = [timers EXCEPT ![w] = [j \in Jobs |-> 0]]
    /\ UNCHANGED <<queue, db, hooks, issued, pushes, sends>>
-----------------------------------------------------------------------------
(* Mutant: the SELECT has no FOR UPDATE.                                   *)
HookLookupNoLock(h, p) ==
    /\ hpc[h] = Idle
    /\ status[p.rec] # "absent" /\ ext[p.rec] = p.ext
    /\ hook' = [hook EXCEPT ![h] = p]
    /\ hpc' = [hpc EXCEPT ![h] = "locked"]
    /\ UNCHANGED <<worker, db, history>>

(* UpsertWebhookStatusByExternalID: the row with the external id is locked *)
(* FOR UPDATE ...                                                          *)
HookLookup(h, p) ==
    /\ hpc[h] = Idle
    /\ p.ext \in 1..accepted[p.rec]
    /\ \/ /\ status[p.rec] = "absent" \/ ext[p.rec] # p.ext
          /\ hpc' = [hpc EXCEPT ![h] = "done"]
          /\ UNCHANGED <<lock, hook>>
       \/ /\ status[p.rec] # "absent" /\ ext[p.rec] = p.ext
          /\ lock[p.rec] = NoHook
          /\ lock' = [lock EXCEPT ![p.rec] = h]
          /\ hook' = [hook EXCEPT ![h] = p]
          /\ hpc' = [hpc EXCEPT ![h] = "locked"]
    /\ UNCHANGED <<worker, status, ext, hist, blacklist, history>>

HookEnd(h) ==
    /\ hpc' = [hpc EXCEPT ![h] = "done"]
    /\ lock' = [lock EXCEPT ![hook[h].rec] = NoHook]
    /\ UNCHANGED hook

(* Mutant: an event already recorded returns without ending the            *)
(* transaction.                                                            *)
HookCheckNoCommit(h) ==
    LET p == hook[h] IN
    /\ hpc[h] = "locked"
    /\ hpc' = [hpc EXCEPT ![h] =
                  IF \E x \in hist[p.rec] : x[2] = p.event /\ x[3] = p.status THEN "done" ELSE "fresh"]
    /\ UNCHANGED <<worker, db, hook, history>>

(* ... an event already recorded with this status is ignored ...           *)
HookCheck(h) ==
    LET p == hook[h] IN
    /\ hpc[h] = "locked"
    /\ \/ /\ \E x \in hist[p.rec] : x[2] = p.event /\ x[3] = p.status
          /\ HookEnd(h)
       \/ /\ \A x \in hist[p.rec] : x[2] # p.event \/ x[3] # p.status
          /\ hpc' = [hpc EXCEPT ![h] = "fresh"]
          /\ UNCHANGED <<lock, hook>>
    /\ UNCHANGED <<worker, status, ext, hist, blacklist, history>>

(* ... and the status and the history row are written together.            *)
HookApply(h) ==
    LET p == hook[h] IN
    /\ hpc[h] = "fresh"
    /\ status' = [status EXCEPT ![p.rec] = p.status]
    /\ hist' = [hist EXCEPT ![p.rec] = @ \cup {<<h, p.event, p.status>>}]
    /\ HookEnd(h)
    /\ UNCHANGED <<worker, ext, blacklist, history>>

HookFails(h) ==
    /\ Faults
    /\ hpc[h] \in {"locked", "fresh"}
    /\ HookEnd(h)
    /\ UNCHANGED <<worker, status, ext, hist, blacklist, history>>
-----------------------------------------------------------------------------
WorkerStep(w) ==
    \/ Dequeue(w) \/ HandleJob(w)
    \/ \E o \in Outcomes : Send(w, o)
    \/ MarkSent(w) \/ MarkFailed(w) \/ MarkBouncedMissing(w)
    \/ HardBounce(w) \/ SoftBounceRetry(w) \/ SoftBounceExceeded(w) \/ Blacklist(w)

HookStep(h) == HookCheck(h) \/ HookApply(h)

Next ==
    \/ \E m \in Records : Issue(m) \/ Push(m) \/ Withdraw(m)
    \/ \E w \in Workers : \/ WorkerStep(w)
                          \/ \E j \in Jobs : RetryFires(w, j) \/ RetryRepeated(w, j)
                          \/ GiveUp(w) \/ Crash(w)
    \/ \E h \in Hooks : \/ \E m \in Records, e \in Events, s \in Reports :
                              \E n \in 1..accepted[m] :
                              HookLookup(h, [rec |-> m, ext |-> n, event |-> e, status |-> s])
                        \/ HookStep(h) \/ HookFails(h)

Spec == Init /\ [][Next]_vars

(* The worker is in Sender.Send, and so in net/smtp's SendMail, which has  *)
(* no deadline and does not look at the context.                           *)
Sending(w) == pc[w] = "checked"

(* The consumer loop, the retry timers and the webhook handlers keep       *)
(* running: each is a goroutine of a live process.  Nothing is assumed of  *)
(* a send: the SMTP server may stay silent and Send never return.          *)
Fairness ==
    /\ \A w \in Workers : /\ WF_vars(~Sending(w) /\ WorkerStep(w))
                          /\ \A j \in Jobs : WF_vars(RetryFires(w, j))
    /\ \A h \in Hooks : WF_vars(HookStep(h))

FairSpec == Spec /\ Fairness
-----------------------------------------------------------------------------
(* Soft bounces are retried a bounded number of times: each push of a job  *)
(* leads to at most MaxRetries + 1 SMTP sends.                             *)
RetriesBounded ==
    \A m \in Records : attempts[m] <= pushes[m] * (MaxRetries + 1)

(* A mail the SMTP server accepted is never sent again for the same push,  *)
(* also when recording the success fails.                                  *)
AcceptedOncePerPush ==
    \A m \in Records : accepted[m] <= pushes[m]

(* Once an address is blacklisted, only sends whose blacklist check was    *)
(* already passed by the other workers still go out: at most one each.     *)
LateSendsBounded ==
    \A a \in Addresses : late[a] < Cardinality(Workers) \/ late[a] = 0

(* A webhook event is recorded once per status, however often and however  *)
(* concurrently it is delivered.                                           *)
EventRecordedOnce ==
    \A m \in Records : \A x, y \in hist[m] : x[2] = y[2] /\ x[3] = y[3] => x = y

(* Outstanding work of a record.                                           *)
Outstanding(m) ==
    \/ \E i \in DOMAIN queue : queue[i].rec = m
    \/ \E w \in Workers : Holds(w, m)

(* Every job is worked off: no list, worker or timer keeps it forever, and *)
(* its record does not stay queued unless a fault has dropped the job.     *)
(* The one exception is a send that never returns.  It keeps its own job,  *)
(* but it holds up the jobs of others only when every worker is caught in  *)
(* such a send.                                                            *)
EveryJobSettles ==
    \A m \in Records :
        \/ pushes[m] > 0 ~> ~Outstanding(m) /\ (status[m] # "queued" \/ m \in lost)
        \/ \E w \in Workers : <>[](Sending(w) /\ Mine(w) = m)
        \/ <>[](\A w \in Workers : Sending(w))

Outbox == INSTANCE MailOutbox WITH
    Mails <- Records,
    record <- {m \in Records : status[m] # "absent"},
    pushed <- {m \in Records : pushes[m] > 0}

(* Towards auth-api: no outcome of a send and no callback of the provider  *)
(* brings back a record that auth-api has withdrawn, or removes one.       *)
OutboxContract == Outbox!Spec

(* An address that bounced hard is on the blacklist as soon as the worker  *)
(* has finished with the job.                                              *)
HardBounceBlacklisted ==
    \A a \in refused :
        \/ a \in blacklist
        \/ \E w \in Workers : pc[w] \in {"hard", "blacklisting"} /\ To[Mine(w)] = a
=============================================================================
