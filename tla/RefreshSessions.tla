--------------------------- MODULE RefreshSessions ---------------------------
(***************************************************************************)
(* The refresh_sessions table of auth-api and the requests that use it:    *)
(* Login (issueTokens), Refresh (RotateRefreshToken), Logout               *)
(* (RevokeRefreshToken) and LogoutAll (RevokeAllRefreshTokensByUser).      *)
(*                                                                         *)
(* Each SQL statement is one step.  Transactions run at READ COMMITTED: a  *)
(* statement sees what was committed when it starts, waits for a row       *)
(* another transaction has locked, and then looks at that row again.       *)
(* A request is used once; resp is what its client is told.                *)
(***************************************************************************)
CONSTANTS
    Tokens,      \* refresh tokens; a token stands for its row (token_hash is unique)
    Users,       \* users that pass the checks of Login
    Requests,    \* HTTP requests
    NoToken, NoUser, NoRequest

ASSUME NullAssumption ==
    /\ NoToken \notin Tokens
    /\ NoUser \notin Users
    /\ NoRequest \notin Requests

VARIABLES
    \* committed rows
    owner,       \* user_id of the row, NoUser while there is no row
    revoked,     \* rows with revoked_at set
    replacedBy,  \* replaced_by
    expired,     \* rows whose expires_at has passed
    lock,        \* the request whose transaction holds the row lock
    \* requests
    pc, resp,
    old, new,    \* Refresh: the token presented, the token drawn
    target,      \* LogoutAll: the user of the access token
    todo,        \* Logout, LogoutAll: rows of the statement's snapshot still to visit
    marked,      \* rows revoked by the transaction, not yet committed
    \* history
    drawn,       \* tokens util.RandomToken has returned
    family,      \* the login a row descends from
    snap         \* Logout, LogoutAll: the whole snapshot of the statement

rows == <<owner, revoked, replacedBy, expired>>
locals == <<old, new, target>>
vars == <<rows, lock, pc, resp, locals, todo, marked, drawn, family, snap>>

InTransaction == {"selected", "inserted", "updated"}
PC == {"idle", "selecting", "committed", "revoking", "done"} \cup InTransaction
Answers == {"none", "ok", "not_found", "session_revoked", "refresh_expired", "error"}

Live(t) == owner[t] # NoUser /\ t \notin revoked

Free(t) == lock[t] = NoRequest
Unlock(r) == [t \in Tokens |-> IF lock[t] = r THEN NoRequest ELSE lock[t]]

Answer(r, a) ==
    /\ pc' = [pc EXCEPT ![r] = "done"]
    /\ resp' = [resp EXCEPT ![r] = a]

Goto(r, l) ==
    /\ pc' = [pc EXCEPT ![r] = l]
    /\ UNCHANGED resp

TypeOK ==
    /\ owner \in [Tokens -> Users \cup {NoUser}]
    /\ revoked \subseteq Tokens
    /\ replacedBy \in [Tokens -> Tokens \cup {NoToken}]
    /\ expired \subseteq Tokens
    /\ lock \in [Tokens -> Requests \cup {NoRequest}]
    /\ pc \in [Requests -> PC]
    /\ resp \in [Requests -> Answers]
    /\ old \in [Requests -> Tokens \cup {NoToken}]
    /\ new \in [Requests -> Tokens \cup {NoToken}]
    /\ target \in [Requests -> Users \cup {NoUser}]
    /\ todo \in [Requests -> SUBSET Tokens]
    /\ marked \in [Requests -> SUBSET Tokens]
    /\ drawn \subseteq Tokens
    /\ family \in [Tokens -> Tokens \cup {NoToken}]
    /\ snap \in [Requests -> SUBSET Tokens]

Init ==
    /\ owner = [t \in Tokens |-> NoUser]
    /\ revoked = {}
    /\ replacedBy = [t \in Tokens |-> NoToken]
    /\ expired = {}
    /\ lock = [t \in Tokens |-> NoRequest]
    /\ pc = [r \in Requests |-> "idle"]
    /\ resp = [r \in Requests |-> "none"]
    /\ old = [r \in Requests |-> NoToken]
    /\ new = [r \in Requests |-> NoToken]
    /\ target = [r \in Requests |-> NoUser]
    /\ todo = [r \in Requests |-> {}]
    /\ marked = [r \in Requests |-> {}]
    /\ drawn = {}
    /\ family = [t \in Tokens |-> NoToken]
    /\ snap = [r \in Requests |-> {}]
-----------------------------------------------------------------------------
(* issueTokens: one INSERT, committed by itself.  The answer "error" is an *)
(* insert that took effect while its acknowledgement was lost.             *)
Login(r, u, t, a) ==
    /\ pc[r] = "idle"
    /\ t \notin drawn
    /\ drawn' = drawn \cup {t}
    /\ owner' = [owner EXCEPT ![t] = u]
    /\ family' = [family EXCEPT ![t] = t]
    /\ new' = [new EXCEPT ![r] = t]
    /\ Answer(r, a)
    /\ UNCHANGED <<revoked, replacedBy, expired, lock, old, target, todo, marked, snap>>

(* Refresh draws the new token before the transaction begins.  The token   *)
(* presented may be any string, with or without a row.                     *)
RefreshBegin(r, o, n) ==
    /\ pc[r] = "idle"
    /\ n \notin drawn
    /\ o # n
    /\ drawn' = drawn \cup {n}
    /\ old' = [old EXCEPT ![r] = o]
    /\ new' = [new EXCEPT ![r] = n]
    /\ Goto(r, "selecting")
    /\ UNCHANGED <<rows, lock, target, todo, marked, family, snap>>

(* Mutants of SelectForUpdate: a SELECT without FOR UPDATE; one that does  *)
(* not look at revoked_at; one without the deferred Rollback.              *)
SelectNoLock(r) ==
    LET o == old[r] IN
    /\ pc[r] = "selecting"
    /\ Live(o)
    /\ Goto(r, "selected")
    /\ UNCHANGED <<rows, lock, locals, todo, marked, drawn, family, snap>>

SelectIgnoresRevoked(r) ==
    LET o == old[r] IN
    /\ pc[r] = "selecting"
    /\ Free(o)
    /\ owner[o] # NoUser
    /\ lock' = [lock EXCEPT ![o] = r]
    /\ Goto(r, "selected")
    /\ UNCHANGED <<rows, locals, todo, marked, drawn, family, snap>>

SelectNoRollback(r) ==
    LET o == old[r] IN
    /\ pc[r] = "selecting"
    /\ Free(o)
    /\ lock' = [lock EXCEPT ![o] = r]
    /\ IF Live(o) THEN Goto(r, "selected") ELSE Answer(r, "session_revoked")
    /\ UNCHANGED <<rows, locals, todo, marked, drawn, family, snap>>

(* SELECT ... FOR UPDATE and the three checks after it, in the code's      *)
(* order.  A check that fails rolls the transaction back (deferred).       *)
SelectForUpdate(r) ==
    LET o == old[r] IN
    /\ pc[r] = "selecting"
    /\ Free(o)
    /\ \/ /\ owner[o] = NoUser
          /\ Answer(r, "not_found")
          /\ UNCHANGED lock
       \/ /\ owner[o] # NoUser
          /\ o \in revoked
          /\ Answer(r, "session_revoked")
          /\ UNCHANGED lock
       \/ /\ Live(o)
          /\ o \in expired
          /\ Answer(r, "refresh_expired")
          /\ UNCHANGED lock
       \/ /\ Live(o)
          /\ o \notin expired
          /\ lock' = [lock EXCEPT ![o] = r]
          /\ Goto(r, "selected")
    /\ UNCHANGED <<rows, locals, todo, marked, drawn, family, snap>>

(* The new row is written; nobody else sees it before the commit.          *)
InsertNew(r) ==
    /\ pc[r] = "selected"
    /\ Goto(r, "inserted")
    /\ UNCHANGED <<rows, lock, locals, todo, marked, drawn, family, snap>>

(* Mutant of UpdateOld: the old row is not revoked.                        *)
UpdateOldMissing(r) ==
    /\ pc[r] = "inserted"
    /\ Goto(r, "updated")
    /\ UNCHANGED <<rows, lock, locals, todo, marked, drawn, family, snap>>

(* UPDATE ... WHERE token_hash = old AND revoked_at IS NULL.               *)
UpdateOld(r) ==
    /\ pc[r] = "inserted"
    /\ marked' = [marked EXCEPT ![r] = {old[r]} \ revoked]
    /\ Goto(r, "updated")
    /\ UNCHANGED <<rows, lock, locals, todo, drawn, family, snap>>

(* Mutant of CommitRotation: replaced_by receives the user's id.           *)
CommitWrongReplacedBy(r) ==
    /\ pc[r] = "updated"
    /\ owner' = [owner EXCEPT ![new[r]] = owner[old[r]]]
    /\ family' = [family EXCEPT ![new[r]] = family[old[r]]]
    /\ revoked' = revoked \cup marked[r]
    /\ replacedBy' = [t \in Tokens |-> IF t \in marked[r] THEN owner[old[r]] ELSE replacedBy[t]]
    /\ lock' = Unlock(r)
    /\ marked' = [marked EXCEPT ![r] = {}]
    /\ Goto(r, "committed")
    /\ UNCHANGED <<expired, locals, todo, drawn, snap>>

CommitRotation(r) ==
    /\ pc[r] = "updated"
    /\ owner' = [owner EXCEPT ![new[r]] = owner[old[r]]]
    /\ family' = [family EXCEPT ![new[r]] = family[old[r]]]
    /\ revoked' = revoked \cup marked[r]
    /\ replacedBy' = [t \in Tokens |-> IF t \in marked[r] THEN new[r] ELSE replacedBy[t]]
    /\ lock' = Unlock(r)
    /\ marked' = [marked EXCEPT ![r] = {}]
    /\ Goto(r, "committed")
    /\ UNCHANGED <<expired, locals, todo, drawn, snap>>

(* The access token is signed after the commit, so signing, the commit's   *)
(* acknowledgement or the response may still be lost ("error").            *)
RefreshRespond(r, a) ==
    /\ pc[r] = "committed"
    /\ Answer(r, a)
    /\ UNCHANGED <<rows, lock, locals, todo, marked, drawn, family, snap>>

(* Logout and LogoutAll are one UPDATE each: its snapshot is the set of    *)
(* committed, unrevoked rows that match the WHERE clause as it starts.     *)
BeginRevoke(r, S) ==
    /\ pc[r] = "idle"
    /\ todo' = [todo EXCEPT ![r] = S]
    /\ snap' = [snap EXCEPT ![r] = S]
    /\ Goto(r, "revoking")
    /\ UNCHANGED <<rows, lock, old, new, marked, drawn, family>>

Logout(r, t) ==
    /\ BeginRevoke(r, {x \in {t} : Live(x)})
    /\ UNCHANGED target

LogoutAll(r, u) ==
    /\ BeginRevoke(r, {t \in Tokens : owner[t] = u /\ Live(t)})
    /\ target' = [target EXCEPT ![r] = u]

(* Mutant of RevokeRow: a locked row is skipped instead of waited for.     *)
RevokeRowSkipsLocked(r, t) ==
    /\ pc[r] = "revoking"
    /\ t \in todo[r]
    /\ todo' = [todo EXCEPT ![r] = @ \ {t}]
    /\ \/ /\ ~Free(t) \/ t \in revoked
          /\ UNCHANGED <<lock, marked>>
       \/ /\ Free(t)
          /\ t \notin revoked
          /\ lock' = [lock EXCEPT ![t] = r]
          /\ marked' = [marked EXCEPT ![r] = @ \cup {t}]
    /\ UNCHANGED <<rows, pc, resp, locals, drawn, family, snap>>

(* The UPDATE reaches row t: it waits for the row's lock, tests the WHERE  *)
(* clause on the row as it is now, and skips it if it no longer matches.   *)
RevokeRow(r, t) ==
    /\ pc[r] = "revoking"
    /\ t \in todo[r]
    /\ Free(t)
    /\ todo' = [todo EXCEPT ![r] = @ \ {t}]
    /\ \/ /\ t \in revoked
          /\ UNCHANGED <<lock, marked>>
       \/ /\ t \notin revoked
          /\ lock' = [lock EXCEPT ![t] = r]
          /\ marked' = [marked EXCEPT ![r] = @ \cup {t}]
    /\ UNCHANGED <<rows, pc, resp, locals, drawn, family, snap>>

(* The answer "error" is a commit whose acknowledgement was lost.          *)
CommitRevoke(r, a) ==
    /\ pc[r] = "revoking"
    /\ todo[r] = {}
    /\ revoked' = revoked \cup marked[r]
    /\ lock' = Unlock(r)
    /\ marked' = [marked EXCEPT ![r] = {}]
    /\ Answer(r, a)
    /\ UNCHANGED <<owner, replacedBy, expired, locals, todo, drawn, family, snap>>

(* A statement or the commit fails, the client goes away, the process dies *)
(* or the database picks the transaction as a deadlock victim: everything  *)
(* it wrote is rolled back and its locks are released.                     *)
Abort(r) ==
    /\ pc[r] \in InTransaction \cup {"selecting", "revoking"}
    /\ lock' = Unlock(r)
    /\ todo' = [todo EXCEPT ![r] = {}]
    /\ marked' = [marked EXCEPT ![r] = {}]
    /\ Answer(r, "error")
    /\ UNCHANGED <<rows, locals, drawn, family, snap>>

(* The clock passes expires_at of row t.                                   *)
Expire(t) ==
    /\ owner[t] # NoUser
    /\ t \notin expired
    /\ expired' = expired \cup {t}
    /\ UNCHANGED <<owner, revoked, replacedBy, lock, pc, resp, locals, todo, marked, drawn, family, snap>>
-----------------------------------------------------------------------------
(* The steps of a request already under way.                               *)
Step(r) ==
    \/ SelectForUpdate(r)
    \/ InsertNew(r)
    \/ UpdateOld(r)
    \/ CommitRotation(r)
    \/ \E a \in {"ok", "error"} : RefreshRespond(r, a) \/ CommitRevoke(r, a)
    \/ \E t \in Tokens : RevokeRow(r, t)

Next ==
    \/ \E r \in Requests :
          \/ \E u \in Users, t \in Tokens, a \in {"ok", "error"} : Login(r, u, t, a)
          \/ \E o, n \in Tokens : RefreshBegin(r, o, n)
          \/ \E t \in Tokens : Logout(r, t)
          \/ \E u \in Users : LogoutAll(r, u)
          \/ Step(r)
          \/ Abort(r)
    \/ \E t \in Tokens : Expire(t)

Spec == Init /\ [][Next]_vars

(* A transaction waits for another when every row it still has to visit is *)
(* locked.  PostgreSQL's deadlock detector aborts a transaction of a set   *)
(* in which everyone waits for a member and is waited for by a member.     *)
WaitsFor(r, q) ==
    /\ pc[r] = "revoking"
    /\ todo[r] # {}
    /\ \A t \in todo[r] : ~Free(t)
    /\ \E t \in todo[r] : lock[t] = q

Deadlocked(r) ==
    \E C \in SUBSET Requests :
        /\ r \in C
        /\ \A q \in C : /\ \E p \in C : WaitsFor(q, p)
                        /\ \E p \in C : WaitsFor(p, q)

(* The API process and the database keep running the requests they have.   *)
Fairness ==
    \A r \in Requests :
        /\ WF_vars(Step(r))
        /\ WF_vars(Deadlocked(r) /\ Abort(r))

FairSpec == Spec /\ Fairness
-----------------------------------------------------------------------------
(* Row locks are exactly those of the transactions under way: a rotation   *)
(* holds the row it selected FOR UPDATE until it commits or rolls back, a  *)
(* logout holds the rows it has updated, and nobody else holds anything.   *)
LockDiscipline ==
    \A t \in Tokens, r \in Requests :
        lock[t] = r <=> \/ pc[r] \in InTransaction /\ t = old[r]
                        \/ pc[r] = "revoking" /\ t \in marked[r]

(* What the rows say of each other: every row and the login it descends    *)
(* from hold drawn tokens, and replaced_by is only ever set together with  *)
(* revoked_at.                                                             *)
RowsConsistent ==
    \A t \in Tokens :
        /\ owner[t] # NoUser => t \in drawn /\ family[t] \in drawn
        /\ t \in revoked => owner[t] # NoUser
        /\ replacedBy[t] # NoToken => t \in revoked

(* A rotation's new token belongs to it alone and has no row before the    *)
(* rotation commits.                                                       *)
NewTokenFresh ==
    /\ \A r \in Requests :
          /\ new[r] # NoToken => new[r] \in drawn
          /\ pc[r] \in InTransaction \cup {"selecting"} =>
                /\ old[r] \in Tokens /\ new[r] \in Tokens
                /\ owner[new[r]] = NoUser
    /\ \A r, q \in Requests : new[r] = new[q] /\ new[r] # NoToken => r = q

(* The row a rotation works on stays live until the rotation commits, and  *)
(* a committed rotation can be read off the old row for ever after.        *)
RotationSound ==
    \A r \in Requests :
        /\ pc[r] \in InTransaction => Live(old[r])
        /\ pc[r] = "updated" => marked[r] = {old[r]}
        /\ pc[r] \notin {"updated", "revoking"} => marked[r] = {}
        /\ \/ pc[r] = "committed"
           \/ resp[r] = "ok" /\ old[r] # NoToken
           => old[r] \in Tokens /\ new[r] \in Tokens /\ replacedBy[old[r]] = new[r]

(* A logout has every row of its snapshot still to visit, updated and      *)
(* locked, or revoked by somebody else.                                    *)
RevokeSound ==
    \A r \in Requests :
        /\ pc[r] # "done" => resp[r] = "none"
        /\ pc[r] \in {"idle", "revoking"} => old[r] = NoToken /\ new[r] = NoToken
        /\ pc[r] \notin {"revoking", "done"} => snap[r] = {}
        /\ pc[r] = "revoking" => /\ snap[r] \subseteq todo[r] \cup marked[r] \cup revoked
                                 /\ \A t \in todo[r] : owner[t] # NoUser
                                 /\ \A t \in marked[r] : Live(t)

(* RotateRefreshToken: of all the Refresh requests that present the same   *)
(* token, at any time and in any interleaving, at most one succeeds.       *)
SingleUse ==
    \A r, q \in Requests :
        (/\ resp[r] = "ok" /\ resp[q] = "ok"
         /\ old[r] # NoToken /\ old[r] = old[q]) => r = q

(* One login never fans out: whatever is refreshed and revoked             *)
(* concurrently, at most one unrevoked session descends from it.           *)
OneLiveSessionPerLogin ==
    \A t, x \in Tokens :
        Live(t) /\ Live(x) /\ family[t] = family[x] => t = x

(* A Logout or LogoutAll that reports success has revoked every session    *)
(* its UPDATE saw, including rows it had to wait for.                      *)
LogoutRevokesWhatItSaw ==
    \A r \in Requests : resp[r] = "ok" => snap[r] \subseteq revoked

(* The inductive invariant behind the properties above.                    *)
IndInv ==
    /\ TypeOK
    /\ LockDiscipline
    /\ RowsConsistent
    /\ NewTokenFresh
    /\ RotationSound
    /\ RevokeSound
    /\ OneLiveSessionPerLogin
    /\ LogoutRevokesWhatItSaw

(* TestLogoutAllRevokesAllSessions: after a successful LogoutAll no login  *)
(* that was open when it started still has a live session of that user.    *)
LogoutAllEndsEveryLogin ==
    \A r \in Requests, t \in Tokens :
        (/\ target[r] # NoUser /\ resp[r] = "ok"
         /\ \E s \in snap[r] : family[s] = family[t]) => ~Live(t)

(* Every request that has begun is answered: no row lock outlives its      *)
(* transaction and no set of requests waits for itself forever.            *)
EveryRequestAnswered ==
    \A r \in Requests : pc[r] # "idle" ~> pc[r] = "done"

(* The table implements the life cycle of SessionLifecycle: seen through   *)
(* committed, unrevoked rows, every step of every transaction is one       *)
(* issue, one exchange, one spend, or nothing.                             *)
Contract == INSTANCE SessionLifecycle WITH
    live <- [t \in Tokens |-> IF t \in revoked THEN NoUser ELSE owner[t]],
    spent <- revoked
Lifecycle == Contract!Spec
=============================================================================
