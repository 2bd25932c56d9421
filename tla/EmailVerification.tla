-------------------------- MODULE EmailVerification --------------------------
(***************************************************************************)
(* Registration and verification of one e-mail address in auth-api:        *)
(* Register, Bootstrap (as far as its new owner must verify the address),  *)
(* ResendVerification, VerifyEmail (OTP) and VerifyMagicLink, with the     *)
(* users, email_verifications and email_records tables, the Redis queue    *)
(* and the resend cooldown.                                                *)
(*                                                                         *)
(* A request is used once.  The user it registers and the verification     *)
(* (one OTP row and one magic-link row, issued together) it creates are    *)
(* named after it.  A store transaction is one step: it locks the rows it  *)
(* decides on before it reads them.  What a request reads outside a lock   *)
(* (the clock, the candidates of the OTP query, the unlocked validation of *)
(* a magic link, the records a cleanup deletes) is a step of its own.      *)
(***************************************************************************)
EXTENDS Integers, FiniteSetsExt

CONSTANTS
    Requests,      \* HTTP requests
    None,          \* no user, no verification, a code that matches nothing
    MaxTime,       \* the clock stops here (bound)
    TTL,           \* verificationTTL
    Window,        \* resendVerificationWindow
    MaxAttempts,   \* maxOTPVerificationAttempts
    Prompt         \* TRUE: a resend is answered before its cooldown is over

ASSUME VerificationAssumption ==
    /\ None \notin Requests
    /\ MaxTime \in Nat /\ TTL \in Nat \ {0} /\ Window \in Nat \ {0}
    /\ MaxAttempts \in Nat
    /\ Prompt \in BOOLEAN

VARIABLES
    clock,
    account,       \* users row: none, pending (status 0), active (verified), deleted
    holder,        \* user_id of a verification
    code, link,    \* its OTP row and its magic-link row: none, open, used
    exp,           \* expires_at of both rows
    created,       \* created_at of both rows: when their transaction began
    attempts,      \* attempts of the OTP row
    record,        \* its email_records row exists
    pushed,        \* verifications whose job reached the queue
    coolUntil,     \* expiry of the Redis key resend:{email}
    \* requests
    kind, pc, resp,
    now,           \* time.Now() as the handler read it
    stamp,         \* order in which the transactions began
    arg,           \* verification whose OTP or link is presented
    seen,          \* rows read before the decisive statement
    saved,         \* Resend: expires_at of the rows it revoked, 0 for the others
    \* history
    activations,   \* times account_activated was due for a user
    guesses,       \* wrong OTPs compared with a verification
    revoked,       \* verifications older than a resend that was answered with success
    stale,         \* the request presents one that was revoked before it began
    owners         \* users created by Bootstrap

table == <<account, holder, code, link, exp, created, attempts, record>>
counts == <<activations, guesses, revoked, stale>>
history == <<counts, owners>>
locals == <<kind, now, stamp, arg>>
vars == <<clock, table, pushed, coolUntil, pc, resp, locals, seen, saved, history>>

Kinds == {"register", "bootstrap", "resend", "otp", "magic"}
Flight == {"begun", "owner", "issuing", "selected", "created", "undo", "undo_user", "snapshot", "validated"}
Answers == {"none", "ok", "refused", "invalid", "expired", "too_many", "otp_page", "error"}
Current == {u \in Requests : account[u] \in {"pending", "active"}}
Open(i) == code[i] = "open" \/ link[i] = "open"

(* The handler returns; of its locals the history keeps what it accepted.  *)
Answer(r, a) ==
    /\ pc' = [pc EXCEPT ![r] = "done"]
    /\ resp' = [resp EXCEPT ![r] = a]
    /\ kind' = [kind EXCEPT ![r] = IF a = "ok" THEN @ ELSE "none"]
    /\ arg' = [arg EXCEPT ![r] = IF a = "ok" THEN @ ELSE None]
    /\ now' = [now EXCEPT ![r] = 0]
    /\ stamp' = [stamp EXCEPT ![r] = 0]
    /\ seen' = [seen EXCEPT ![r] = {}]
    /\ saved' = [saved EXCEPT ![r] = [i \in Requests |-> 0]]

Goto(r, l) ==
    /\ pc' = [pc EXCEPT ![r] = l]
    /\ UNCHANGED <<resp, locals>>

TypeOK ==
    /\ clock \in 0..MaxTime
    /\ account \in [Requests -> {"none", "pending", "active", "deleted"}]
    /\ holder \in [Requests -> Requests \cup {None}]
    /\ code \in [Requests -> {"none", "open", "used"}]
    /\ link \in [Requests -> {"none", "open", "used"}]
    /\ exp \in [Requests -> Nat]
    /\ created \in [Requests -> Nat]
    /\ attempts \in [Requests -> 0..(MaxAttempts + 1)]
    /\ record \in [Requests -> BOOLEAN]
    /\ pushed \subseteq Requests
    /\ coolUntil \in Nat
    /\ kind \in [Requests -> Kinds \cup {"none"}]
    /\ pc \in [Requests -> Flight \cup {"idle", "done"}]
    /\ resp \in [Requests -> Answers]
    /\ now \in [Requests -> 0..MaxTime]
    /\ stamp \in [Requests -> Nat]
    /\ arg \in [Requests -> Requests \cup {None}]
    /\ seen \in [Requests -> SUBSET Requests]
    /\ saved \in [Requests -> [Requests -> Nat]]
    /\ activations \in [Requests -> Nat]
    /\ guesses \in [Requests -> Nat]
    /\ revoked \subseteq Requests
    /\ stale \in [Requests -> BOOLEAN]
    /\ owners \subseteq Requests

Init ==
    /\ clock = 0
    /\ account = [r \in Requests |-> "none"]
    /\ holder = [r \in Requests |-> None]
    /\ code = [r \in Requests |-> "none"]
    /\ link = [r \in Requests |-> "none"]
    /\ exp = [r \in Requests |-> 0]
    /\ created = [r \in Requests |-> 0]
    /\ attempts = [r \in Requests |-> 0]
    /\ record = [r \in Requests |-> FALSE]
    /\ pushed = {}
    /\ coolUntil = 0
    /\ kind = [r \in Requests |-> "none"]
    /\ pc = [r \in Requests |-> "idle"]
    /\ resp = [r \in Requests |-> "none"]
    /\ now = [r \in Requests |-> 0]
    /\ stamp = [r \in Requests |-> 0]
    /\ arg = [r \in Requests |-> None]
    /\ seen = [r \in Requests |-> {}]
    /\ saved = [r \in Requests |-> [i \in Requests |-> 0]]
    /\ activations = [r \in Requests |-> 0]
    /\ guesses = [r \in Requests |-> 0]
    /\ revoked = {}
    /\ stale = [r \in Requests |-> FALSE]
    /\ owners = {}
-----------------------------------------------------------------------------
(* A handler reads the clock and its transaction begins.                   *)
Begin(r, k, a) ==
    /\ pc[r] = "idle"
    /\ pc' = [pc EXCEPT ![r] = "begun"]
    /\ kind' = [kind EXCEPT ![r] = k]
    /\ now' = [now EXCEPT ![r] = clock]
    /\ arg' = [arg EXCEPT ![r] = a]
    /\ stale' = [stale EXCEPT ![r] = a \in revoked]
    /\ UNCHANGED <<clock, table, pushed, resp, seen, saved, activations, guesses, revoked, owners>>

(* now() of a transaction that creates rows: later than every earlier one. *)
Latest == Max({stamp[r] : r \in Requests} \cup {created[r] : r \in Requests})

Stamp(r) == stamp' = [stamp EXCEPT ![r] = Latest + 1]

RegisterBegin(r) ==
    /\ Begin(r, "register", None)
    /\ Stamp(r)
    /\ UNCHANGED coolUntil

(* createVerificationWithIDsTx: the OTP row, the link row and the record.  *)
Issue(r, u) ==
    /\ holder' = [holder EXCEPT ![r] = u]
    /\ code' = [code EXCEPT ![r] = "open"]
    /\ link' = [link EXCEPT ![r] = "open"]
    /\ created' = [created EXCEPT ![r] = stamp[r]]
    /\ record' = [record EXCEPT ![r] = TRUE]
    /\ UNCHANGED attempts

(* RegisterWithVerification: users.email is unique.                        *)
RegisterTx(r) ==
    /\ pc[r] = "begun" /\ kind[r] = "register"
    /\ \/ /\ Current # {}
          /\ Answer(r, "error")
          /\ UNCHANGED table
       \/ /\ Current = {}
          /\ account' = [account EXCEPT ![r] = "pending"]
          /\ exp' = [exp EXCEPT ![r] = now[r] + TTL]
          /\ Issue(r, r)
          /\ Goto(r, "created")
          /\ UNCHANGED <<seen, saved>>
    /\ UNCHANGED <<clock, pushed, coolUntil, history>>

(* Bootstrap: the owner is looked up; an address that is taken ends the    *)
(* request, unless it is verified and the password right: such an owner    *)
(* gets no mail.  A new owner is committed before the verification exists. *)
BootstrapBegin(r) == Begin(r, "bootstrap", None) /\ UNCHANGED <<stamp, coolUntil>>

BootstrapTx(r) ==
    /\ pc[r] = "begun" /\ kind[r] = "bootstrap"
    /\ \/ /\ Current # {}
          /\ Answer(r, "refused")
          /\ UNCHANGED <<account, owners>>
       \/ /\ \E u \in Current : account[u] = "active"
          /\ Answer(r, "ok")
          /\ UNCHANGED <<account, owners>>
       \/ /\ Current = {}
          /\ account' = [account EXCEPT ![r] = "pending"]
          /\ owners' = owners \cup {r}
          /\ Goto(r, "owner")
          /\ UNCHANGED <<seen, saved>>
    /\ UNCHANGED <<clock, holder, code, link, exp, created, attempts, record, pushed, coolUntil, counts>>

(* No resend holds the user's row: it is locked FOR UPDATE from its first  *)
(* statement to its commit.                                                *)
UserFree == \A q \in Requests : pc[q] # "selected"

(* enqueueVerificationEmail reads the clock and begins CreateVerification, *)
(* whose foreign key waits for a resend that holds the owner's row.        *)
EnqueueVerificationEmail(r) ==
    /\ pc[r] = "owner"
    /\ now' = [now EXCEPT ![r] = clock]
    /\ Stamp(r)
    /\ pc' = [pc EXCEPT ![r] = "issuing"]
    /\ UNCHANGED <<clock, table, pushed, coolUntil, resp, kind, arg, seen, saved, history>>

CreateVerification(r) ==
    /\ pc[r] = "issuing"
    /\ UserFree
    /\ exp' = [exp EXCEPT ![r] = now[r] + TTL]
    /\ Issue(r, r)
    /\ Goto(r, "created")
    /\ UNCHANGED <<clock, account, pushed, coolUntil, seen, saved, history>>

(* The counter of resendRateLimitScript is past its first request: the     *)
(* script counts and sets the expiry atomically.  It also renews an expiry *)
(* whose TTL rounds to 0, in the last half second of a window: a cooldown  *)
(* that a refused request lengthens this way counts as the shorter one.    *)
CooldownActive == clock < coolUntil

(* checkResendRateLimit: the first request of a window passes and starts   *)
(* the window, the others are refused.                                     *)
ResendBegin(r) ==
    /\ ~CooldownActive
    /\ coolUntil' = clock + Window
    /\ Begin(r, "resend", None)
    /\ Stamp(r)

ResendLimited(r) ==
    /\ pc[r] = "idle"
    /\ CooldownActive
    /\ Answer(r, "refused")
    /\ UNCHANGED <<clock, table, pushed, coolUntil, history>>

(* Mutant: the comparison with now is turned round.                        *)
RevocableExpired(u, t) == {i \in Requests : holder[i] = u /\ Open(i) /\ exp[i] < t}

(* Store.ResendVerification locks the user's row and reads the open,       *)
(* unexpired rows ...                                                      *)
Revocable(u, t) == {i \in Requests : holder[i] = u /\ Open(i) /\ exp[i] > t}

ResendSelect(r) ==
    /\ pc[r] = "begun" /\ kind[r] = "resend"
    /\ UserFree
    /\ \/ /\ \A u \in Requests : account[u] # "pending"
          /\ Answer(r, "refused")
       \/ /\ \E u \in Requests :
                /\ account[u] = "pending"
                /\ seen' = [seen EXCEPT ![r] = Revocable(u, now[r])]
          /\ Goto(r, "selected")
          /\ UNCHANGED saved
    /\ UNCHANGED <<clock, table, pushed, coolUntil, history>>

(* ... then expires, as of its own now, every row that is open and         *)
(* unexpired by then and issues a new verification.  It remembers the      *)
(* expiry only of the rows it had read.                                    *)
ResendTx(r) ==
    /\ pc[r] = "selected"
    /\ \E u \in Requests :
       LET expired == Revocable(u, now[r]) IN
       /\ account[u] = "pending"
       /\ saved' = [saved EXCEPT ![r] =
                       [i \in Requests |-> IF i \in seen[r] \cap expired THEN exp[i] ELSE 0]]
       /\ exp' = [i \in Requests |-> IF i = r THEN now[r] + TTL
                                    ELSE IF i \in expired THEN now[r] ELSE exp[i]]
       /\ Issue(r, u)
    /\ seen' = [seen EXCEPT ![r] = {i \in Requests : holder[i] # None}]
    /\ Goto(r, "created")
    /\ UNCHANGED <<clock, account, pushed, coolUntil, history>>
-----------------------------------------------------------------------------
(* Mutant: the job is pushed ahead of the transaction.                     *)
EnqueueFirst(r) ==
    /\ pc[r] = "begun" /\ kind[r] \in {"register", "resend"}
    /\ pushed' = pushed \cup {r}
    /\ UNCHANGED <<clock, table, coolUntil, pc, resp, locals, seen, saved, history>>

(* The job reaches the queue and the request is accepted.                  *)
Enqueue(r) ==
    /\ pc[r] = "created"
    /\ pushed' = pushed \cup {r}
    /\ revoked' = revoked \cup seen[r]
    /\ Answer(r, "ok")
    /\ UNCHANGED <<clock, table, coolUntil, activations, guesses, stale, owners>>

(* Redis is missing or the push fails; a push reported as failed may still *)
(* have reached the queue.  Bootstrap undoes nothing.                      *)
EnqueueFails(r, landed) ==
    /\ pc[r] = "created"
    /\ pushed' = IF landed THEN pushed \cup {r} ELSE pushed
    /\ \/ kind[r] # "bootstrap" /\ Goto(r, "undo") /\ UNCHANGED <<seen, saved>>
       \/ kind[r] = "bootstrap" /\ Answer(r, "error")
    /\ UNCHANGED <<clock, table, coolUntil, history>>

(* Deleted rows of email_verifications.                                    *)
Delete(S) ==
    /\ code' = [i \in Requests |-> IF i \in S THEN "none" ELSE code[i]]
    /\ link' = [i \in Requests |-> IF i \in S THEN "none" ELSE link[i]]

(* CleanupPendingRegistration, first statement: the records of the user.   *)
CleanupRecords(r) ==
    /\ pc[r] = "undo" /\ kind[r] = "register"
    /\ seen' = [seen EXCEPT ![r] = {i \in Requests : holder[i] = r /\ record[i]}]
    /\ Goto(r, "undo_user")
    /\ UNCHANGED <<clock, table, pushed, coolUntil, saved, history>>

(* Mutant: the account is removed whatever its status.                     *)
RemovableAnyStatus(u) == account[u] \in {"pending", "active"}

Removable(u) == account[u] = "pending"

(* Second statement and commit: the user, if still pending, with all its   *)
(* verifications (cascade); otherwise everything is rolled back.           *)
CleanupUser(r) ==
    /\ pc[r] = "undo_user"
    /\ UserFree
    /\ \/ /\ ~Removable(r)
          /\ UNCHANGED table
       \/ /\ Removable(r)
          /\ account' = [account EXCEPT ![r] = "deleted"]
          /\ Delete({i \in Requests : holder[i] = r})
          /\ holder' = [i \in Requests |-> IF holder[i] = r THEN None ELSE holder[i]]
          /\ record' = [i \in Requests |-> record[i] /\ i \notin seen[r]]
          /\ UNCHANGED <<exp, created, attempts>>
    /\ Answer(r, "error")
    /\ UNCHANGED <<clock, pushed, coolUntil, history>>

(* Mutant: the rows the resend created stay.                               *)
DiscardKeeps(row) == row

Discard(row) == IF row = "open" THEN "none" ELSE row

(* RollbackResendVerification: the new rows go unless they were used, the  *)
(* record goes if it still names the user, and the rows the resend had     *)
(* expired get their old expires_at back.                                  *)
RollbackResend(r) ==
    /\ pc[r] = "undo" /\ kind[r] = "resend"
    /\ code' = [code EXCEPT ![r] = Discard(@)]
    /\ link' = [link EXCEPT ![r] = Discard(@)]
    /\ record' = [record EXCEPT ![r] = @ /\ holder[r] = None]
    /\ exp' = [i \in Requests |-> IF saved[r][i] # 0 /\ Open(i) /\ exp[i] <= now[r]
                                  THEN saved[r][i] ELSE exp[i]]
    /\ Answer(r, "error")
    /\ UNCHANGED <<clock, account, holder, created, attempts, pushed, coolUntil, history>>

(* The process dies, the client goes away, a statement fails or a deadlock *)
(* victim is chosen: nothing more is done for the request.                 *)
Fail(r) ==
    /\ pc[r] \in Flight
    /\ Answer(r, "error")
    /\ UNCHANGED <<clock, table, pushed, coolUntil, history>>
-----------------------------------------------------------------------------
(* A verification transaction marks the user verified; RowsAffected says   *)
(* whether this call was the one that did.                                 *)
Activate(u) ==
    /\ account' = [account EXCEPT ![u] = "active"]
    /\ activations' = [activations EXCEPT ![u] = @ + (IF account[u] = "pending" THEN 1 ELSE 0)]

VerifyEmailBegin(r, a) == Begin(r, "otp", a) /\ UNCHANGED <<stamp, coolUntil>>

(* VerifyEmailOTP: the query finds the unverified OTP rows ...             *)
OtpSnapshot(r) ==
    /\ pc[r] = "begun" /\ kind[r] = "otp"
    /\ seen' = [seen EXCEPT ![r] = {i \in Requests : holder[i] \in Current /\ code[i] = "open"}]
    /\ Goto(r, "snapshot")
    /\ UNCHANGED <<clock, table, pushed, coolUntil, saved, history>>

(* Mutant: the order of the query is ascending.                            *)
Oldest(S) == {i \in S : \A j \in S : created[i] <= created[j]}

(* ... and locks the newest that is still unverified, on which it decides. *)
Newest(S) == {i \in S : \A j \in S : created[j] <= created[i]}

(* Mutant: one attempt too many.                                           *)
LockedOutLate(i) == attempts[i] > MaxAttempts + 1

LockedOut(i) == attempts[i] > MaxAttempts

(* Mutant: the error return rolls the counter back.                        *)
OtpWrongRolledBack(r, i) ==
    /\ guesses' = [guesses EXCEPT ![i] = @ + 1]
    /\ Answer(r, IF attempts[i] + 1 > MaxAttempts THEN "too_many" ELSE "invalid")
    /\ UNCHANGED <<table, activations>>

OtpWrong(r, i) ==
    /\ attempts' = [attempts EXCEPT ![i] = @ + 1]
    /\ guesses' = [guesses EXCEPT ![i] = @ + 1]
    /\ Answer(r, IF attempts[i] + 1 > MaxAttempts THEN "too_many" ELSE "invalid")
    /\ UNCHANGED <<account, holder, code, link, exp, created, record, activations>>

OtpRight(r, i) ==
    /\ code' = [code EXCEPT ![i] = "used"]
    /\ Activate(holder[i])
    /\ Answer(r, "ok")
    /\ UNCHANGED <<holder, link, exp, created, attempts, record, guesses>>

OtpRefused(r, a) == Answer(r, a) /\ UNCHANGED <<table, activations, guesses>>

OtpDecide(r) ==
    LET rows == {i \in seen[r] : code[i] = "open"} IN
    /\ pc[r] = "snapshot"
    /\ UserFree
    /\ \/ rows = {} /\ OtpRefused(r, "invalid")
       \/ \E i \in Newest(rows) :
          \/ LockedOut(i) /\ OtpRefused(r, "too_many")
          \/ ~LockedOut(i) /\ exp[i] <= now[r] /\ OtpRefused(r, "expired")
          \/ ~LockedOut(i) /\ exp[i] > now[r] /\ arg[r] # i /\ OtpWrong(r, i)
          \/ ~LockedOut(i) /\ exp[i] > now[r] /\ arg[r] = i /\ OtpRight(r, i)
    /\ UNCHANGED <<clock, pushed, coolUntil, revoked, stale, owners>>

VerifyMagicLinkBegin(r, a) == Begin(r, "magic", a) /\ UNCHANGED <<stamp, coolUntil>>

(* ValidateMagicLinkToken without a lock, then the state cookie: another   *)
(* device is sent to the OTP page.                                         *)
LinkOpen(i) == i # None /\ link[i] = "open"

MagicValidate(r) ==
    /\ pc[r] = "begun" /\ kind[r] = "magic"
    /\ \/ ~LinkOpen(arg[r]) /\ Answer(r, "invalid")
       \/ LinkOpen(arg[r]) /\ exp[arg[r]] <= now[r] /\ Answer(r, "expired")
       \/ LinkOpen(arg[r]) /\ exp[arg[r]] > now[r] /\ Answer(r, "otp_page")
       \/ /\ LinkOpen(arg[r]) /\ exp[arg[r]] > now[r]
          /\ Goto(r, "validated")
          /\ UNCHANGED <<seen, saved>>
    /\ UNCHANGED <<clock, table, pushed, coolUntil, history>>

(* Mutant: the transaction trusts the validation.                          *)
MagicDecideTrusting(r) ==
    LET i == arg[r] IN
    /\ pc[r] = "validated"
    /\ holder[i] # None
    /\ link' = [link EXCEPT ![i] = "used"]
    /\ Activate(holder[i])
    /\ Answer(r, "ok")
    /\ UNCHANGED <<holder, code, exp, created, attempts, record>>
    /\ UNCHANGED <<clock, pushed, coolUntil, guesses, revoked, stale, owners>>

(* VerifyMagicLinkToken checks the row again under its lock.               *)
MagicDecide(r) ==
    LET i == arg[r] IN
    /\ pc[r] = "validated"
    /\ UserFree
    /\ \/ /\ ~LinkOpen(i)
          /\ Answer(r, "invalid")
          /\ UNCHANGED <<table, activations>>
       \/ /\ LinkOpen(i) /\ exp[i] <= now[r]
          /\ Answer(r, "expired")
          /\ UNCHANGED <<table, activations>>
       \/ /\ LinkOpen(i) /\ exp[i] > now[r]
          /\ link' = [link EXCEPT ![i] = "used"]
          /\ Activate(holder[i])
          /\ Answer(r, "ok")
          /\ UNCHANGED <<holder, code, exp, created, attempts, record>>
    /\ UNCHANGED <<clock, pushed, coolUntil, guesses, revoked, stale, owners>>

Tick ==
    /\ clock < MaxTime
    /\ Prompt => \A r \in Requests :
          kind[r] = "resend" /\ pc[r] \in Flight => clock + 1 < now[r] + Window
    /\ clock' = clock + 1
    /\ UNCHANGED <<table, pushed, coolUntil, pc, resp, locals, seen, saved, history>>

(* What a client can present: the OTP or link of a verification that       *)
(* exists, or None for any other.                                          *)
Known == {i \in Requests : holder[i] # None} \cup {None}

Next ==
    \/ \E r \in Requests :
          \/ RegisterBegin(r) \/ RegisterTx(r) \/ CleanupRecords(r) \/ CleanupUser(r)
          \/ BootstrapBegin(r) \/ BootstrapTx(r)
          \/ EnqueueVerificationEmail(r) \/ CreateVerification(r)
          \/ ResendBegin(r) \/ ResendLimited(r) \/ ResendSelect(r) \/ ResendTx(r)
          \/ RollbackResend(r)
          \/ Enqueue(r) \/ \E landed \in BOOLEAN : EnqueueFails(r, landed)
          \/ \E a \in Known : VerifyEmailBegin(r, a) \/ VerifyMagicLinkBegin(r, a)
          \/ OtpSnapshot(r) \/ OtpDecide(r)
          \/ MagicValidate(r) \/ MagicDecide(r)
          \/ Fail(r)
    \/ Tick

Spec == Init /\ [][Next]_vars
-----------------------------------------------------------------------------
Account == INSTANCE AccountLifecycle WITH Accounts <- Requests

(* The users table keeps the promised life cycle: whatever registrations,  *)
(* bootstraps, verifications and cleanups race, one account holds the      *)
(* address, exactly one of the accepted OTPs and links reports the         *)
(* activation, and no cleanup removes an account once it is verified.      *)
AccountContract == Account!Spec

Outbox == INSTANCE MailOutbox WITH
    Mails <- Requests,
    record <- {i \in Requests : record[i]},
    issued <- {i \in Requests : created[i] # 0}

(* Towards the e-mail worker: no job is pushed before its record is        *)
(* committed, and a record that a cleanup or a rollback has withdrawn does *)
(* not come back.                                                          *)
OutboxContract == Outbox!Spec

(* Each OTP row and each link row is accepted at most once.                *)
AcceptedOnce ==
    \A r, q \in Requests :
        (/\ resp[r] = "ok" /\ resp[q] = "ok"
         /\ kind[r] = kind[q] /\ arg[r] = arg[q] /\ arg[r] # None) => r = q

(* However concurrent the guesses are, at most MaxAttempts + 1 wrong codes *)
(* are compared with one OTP row.                                          *)
GuessesBounded ==
    \A i \in Requests : guesses[i] <= MaxAttempts + 1

(* A resend revokes the old codes and links: a verification that begins    *)
(* after a resend was answered never succeeds with an older one.           *)
ResendVoidsOlder ==
    \A r \in Requests :
        kind[r] \in {"otp", "magic"} /\ resp[r] = "ok" => ~stale[r]

(* At any time at most one verification of the address can be accepted.    *)
(* The one exception is the verification that Bootstrap adds to its own    *)
(* owner: a resend may have come between the two transactions.             *)
OneLiveVerification ==
    \A i, j \in Requests \ owners :
        (/\ Open(i) /\ Open(j)
         /\ account[holder[i]] = "pending" /\ account[holder[j]] = "pending"
         /\ exp[i] > clock /\ exp[j] > clock) => i = j

(* The request presents the OTP of the only verification that is alive,    *)
(* not locked out and visible to it.  Two rows are excepted, which are the *)
(* older ones by created_at: that of a resend whose transaction began      *)
(* before that of the registration, and that of Bootstrap when its owner   *)
(* has verified with the code of a resend before Bootstrap's own was       *)
(* committed.                                                              *)
OnlyCodeAlive(r) ==
    /\ arg[r] \in seen[r] /\ code[arg[r]] = "open" /\ attempts[arg[r]] <= MaxAttempts
    /\ created[holder[arg[r]]] <= created[arg[r]]
    /\ arg[r] \in owners => account[arg[r]] = "pending"
    /\ \A i \in Requests : code[i] = "open" => (exp[i] > clock <=> i = arg[r])

(* Such an OTP is accepted: it is not judged against another row of the    *)
(* address.                                                                *)
RightCodeAccepted ==
    [][\A r \in Requests :
         pc[r] = "snapshot" /\ pc'[r] = "done" /\ resp'[r] # "error" /\ OnlyCodeAlive(r)
           => resp'[r] = "ok"]_vars
=============================================================================
