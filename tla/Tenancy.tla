------------------------------ MODULE Tenancy ------------------------------
(***************************************************************************)
(* Tenants and their members: Bootstrap and SwitchTenant of auth-api, and  *)
(* the member and role requests of admin-api behind its AdminRBAC          *)
(* middleware, on the users, tenants, tenant_users and user_roles tables.  *)
(*                                                                         *)
(* A SQL statement is one step, except that Bootstrap's inserts appear     *)
(* together with its commit.  The policy is the one SeedDefaultPolicy      *)
(* installs.  A request is used once.                                      *)
(***************************************************************************)
CONSTANTS
    Users,       \* users, one per e-mail address
    Tenants,     \* tenant ids, drawn by Bootstrap
    Names,       \* tenant names
    Requests,    \* HTTP requests to either service
    None

ASSUME TenancyAssumption ==
    None \notin Users \cup Tenants \cup Names \cup Requests

Roles == {"owner", "admin", "member"}
Grants == {"tenant_admin", "other"}   \* user_roles.role may be any string

VARIABLES
    account,     \* users row: none, pending (not verified), active
    name,        \* tenants.name, None while there is no tenant
    role,        \* tenant_users.role, "none" while there is no row
    grants,      \* user_roles of a tenant and a user
    minted,      \* <<user, tenant>>: access tokens SwitchTenant has signed
    pc, resp,
    req,         \* the request's fields
    seen,        \* Bootstrap: the account as its SELECT saw it
    \* history
    founder,     \* the user a tenant was bootstrapped for
    entitled     \* admin requests: the caller was owner or admin since it began

tables == <<account, name, role, grants>>
vars == <<tables, minted, pc, resp, req, seen, founder, entitled>>

Blank == [op |-> "none", user |-> None, tenant |-> None, target |-> None, arg |-> None]
Locked == {"claimed", "name_free"}
PC == {"idle", "selecting", "claiming", "mailing", "begun", "admitted", "confirmed", "done"} \cup Locked
Answers == {"none", "ok", "refused", "conflict", "not_found", "error"}

Answer(r, a) ==
    /\ pc' = [pc EXCEPT ![r] = "done"]
    /\ resp' = [resp EXCEPT ![r] = a]
    /\ req' = [req EXCEPT ![r] = Blank]
    /\ seen' = [seen EXCEPT ![r] = "none"]

Goto(r, l) ==
    /\ pc' = [pc EXCEPT ![r] = l]
    /\ UNCHANGED <<resp, req>>

TypeOK ==
    /\ account \in [Users -> {"none", "pending", "active"}]
    /\ name \in [Tenants -> Names \cup {None}]
    /\ role \in [Tenants -> [Users -> Roles \cup {"none"}]]
    /\ grants \in [Tenants -> [Users -> SUBSET Grants]]
    /\ minted \subseteq Users \X Tenants
    /\ pc \in [Requests -> PC]
    /\ resp \in [Requests -> Answers]
    /\ \A r \in Requests : pc[r] \notin {"idle", "done"} => req[r].user \in Users /\ req[r].tenant \in Tenants
    /\ seen \in [Requests -> {"none", "pending", "active"}]
    /\ founder \in [Tenants -> Users \cup {None}]
    /\ entitled \in [Requests -> BOOLEAN]

(* Some users have registered and verified their address before.           *)
Init ==
    /\ account \in [Users -> {"none", "active"}]
    /\ name = [t \in Tenants |-> None]
    /\ role = [t \in Tenants |-> [u \in Users |-> "none"]]
    /\ grants = [t \in Tenants |-> [u \in Users |-> {}]]
    /\ minted = {}
    /\ pc = [r \in Requests |-> "idle"]
    /\ resp = [r \in Requests |-> "none"]
    /\ req = [r \in Requests |-> Blank]
    /\ seen = [r \in Requests |-> "none"]
    /\ founder = [t \in Tenants |-> None]
    /\ entitled = [r \in Requests |-> FALSE]

(* The subjects defaultPolicyRules lets into every admin endpoint of every *)
(* tenant.                                                                 *)
Subjects == {"tenant_owner", "tenant_admin"}

MapTenantRoleToCasbin == [owner |-> "tenant_owner", admin |-> "tenant_admin", member |-> "member"]

(* Queries of the two stores.                                              *)
TenantUserRole(t, u) == role[t][u]
RolesForUser(t, u) == grants[t][u]
UserExists(u) == account[u] # "none"
EnsureUserInTenant(u, t) == role[t][u] # "none"

(* Handler.enforce: some user_roles row of the caller is let in.           *)
Permitted(t, u) == RolesForUser(t, u) \cap Subjects # {}

EnforcedAnyMember(x) == x # "none"   \* mutant: members are let in

(* The verdict of AdminRBAC on a tenant role.                              *)
Enforced(x) == x \in Roles /\ MapTenantRoleToCasbin[x] \in Subjects

(* The history of every step: a caller who is owner or admin after the     *)
(* step is entitled from then on.                                          *)
Observe ==
    entitled' = [r \in Requests |->
        \/ entitled[r]
        \/ /\ pc'[r] \in {"begun", "admitted", "confirmed"}
           /\ role'[req'[r].tenant][req'[r].user] \in {"owner", "admin"}]
-----------------------------------------------------------------------------
BootstrapBegin(r, u, n, t) ==
    /\ pc[r] = "idle"
    /\ name[t] = None /\ \A q \in Requests : req[q].tenant # t
    /\ req' = [req EXCEPT ![r] = [Blank EXCEPT !.op = "bootstrap", !.user = u, !.tenant = t, !.arg = n]]
    /\ pc' = [pc EXCEPT ![r] = "selecting"]
    /\ UNCHANGED <<tables, minted, resp, seen, founder>>

(* The owner is looked up without a lock; a wrong password or an           *)
(* unverified address ends the request.                                    *)
BootstrapSelect(r) ==
    /\ pc[r] = "selecting"
    /\ \/ account[req[r].user] # "none" /\ Answer(r, "refused")
       \/ /\ account[req[r].user] # "pending"
          /\ seen' = [seen EXCEPT ![r] = account[req[r].user]]
          /\ Goto(r, "claiming")
    /\ UNCHANGED <<tables, minted, founder>>

UserFree(u) == \A q \in Requests : ~(pc[q] \in Locked /\ req[q].user = u)

(* Mutant: the row of an existing owner is not updated, hence not locked.  *)
BootstrapClaimUnlocked(r) ==
    /\ pc[r] = "claiming"
    /\ seen[r] = "none" => UserFree(req[r].user)
    /\ \/ seen[r] = "none" /\ account[req[r].user] # "none" /\ Answer(r, "error")
       \/ /\ seen[r] = account[req[r].user] \/ seen[r] # "none"
          /\ Goto(r, "claimed") /\ UNCHANGED seen
    /\ UNCHANGED <<tables, minted, founder>>

(* A new owner is inserted, an existing one updated (status = 1): either   *)
(* waits for a transaction that has done the same to this address, and an  *)
(* insert then meets the unique e-mail.                                    *)
BootstrapClaim(r) ==
    /\ pc[r] = "claiming"
    /\ UserFree(req[r].user)
    /\ \/ /\ seen[r] = "none" /\ account[req[r].user] # "none"
          /\ Answer(r, "error")
       \/ /\ seen[r] = "none" => account[req[r].user] = "none"
          /\ Goto(r, "claimed")
          /\ UNCHANGED seen
    /\ UNCHANGED <<tables, minted, founder>>

(* The name must not belong to a committed tenant.                         *)
BootstrapCheckName(r) ==
    /\ pc[r] = "claimed"
    /\ \/ (\E t \in Tenants : name[t] = req[r].arg) /\ Answer(r, "conflict")
       \/ /\ \A t \in Tenants : name[t] # req[r].arg
          /\ Goto(r, "name_free")
          /\ UNCHANGED seen
    /\ UNCHANGED <<tables, minted, founder>>

(* Tenant, membership and grant are inserted and everything is committed.  *)
(* An owner who is new is sent a verification.                             *)
BootstrapCommit(r) ==
    LET u == req[r].user
        t == req[r].tenant IN
    /\ pc[r] = "name_free"
    /\ account' = [account EXCEPT ![u] = IF seen[r] = "none" THEN "pending" ELSE "active"]
    /\ name' = [name EXCEPT ![t] = req[r].arg]
    /\ role' = [role EXCEPT ![t][u] = "owner"]
    /\ grants' = [grants EXCEPT ![t][u] = @ \cup {"tenant_admin"}]
    /\ founder' = [founder EXCEPT ![t] = u]
    /\ \/ seen[r] = "none" /\ Goto(r, "mailing") /\ UNCHANGED seen
       \/ seen[r] # "none" /\ Answer(r, "ok")
    /\ UNCHANGED minted

(* The verification is created and enqueued, or that fails: the tenant and *)
(* its unverified owner stay either way.                                   *)
BootstrapMail(r, a) ==
    /\ pc[r] = "mailing"
    /\ Answer(r, a)
    /\ UNCHANGED <<tables, minted, founder>>

(* The owner verifies the address (EmailVerification).                     *)
Verify(u) ==
    /\ account[u] = "pending"
    /\ account' = [account EXCEPT ![u] = "active"]
    /\ UNCHANGED <<name, role, grants, minted, pc, resp, req, seen, founder>>

(* SwitchTenant: one query, then an access token for the tenant is signed. *)
SwitchTenant(r, u, t) ==
    /\ pc[r] = "idle"
    /\ account[u] = "active"
    /\ \/ /\ EnsureUserInTenant(u, t)
          /\ minted' = minted \cup {<<u, t>>}
          /\ Answer(r, "ok")
       \/ /\ ~EnsureUserInTenant(u, t)
          /\ Answer(r, "refused")
          /\ UNCHANGED minted
    /\ UNCHANGED <<tables, founder>>
-----------------------------------------------------------------------------
(* An admin request: caller u, tenant t of the path, tenant tid of the     *)
(* access token or None.                                                   *)
AdminBegin(r, op, u, t, tid, v, x) ==
    /\ pc[r] = "idle"
    /\ account[u] = "active"
    /\ tid = None \/ <<u, tid>> \in minted
    /\ \/ /\ tid \notin {None, t}
          /\ Answer(r, "refused")
       \/ /\ tid \in {None, t}
          /\ req' = [req EXCEPT ![r] = [op |-> op, user |-> u, tenant |-> t, target |-> v, arg |-> x]]
          /\ pc' = [pc EXCEPT ![r] = "begun"]
          /\ UNCHANGED <<resp, seen>>
    /\ UNCHANGED <<tables, minted, founder>>

(* AdminRBAC: the caller's role in the tenant is read and enforced.        *)
AdminRBAC(r) ==
    /\ pc[r] = "begun"
    /\ \/ ~Enforced(TenantUserRole(req[r].tenant, req[r].user)) /\ Answer(r, "refused")
       \/ /\ Enforced(TenantUserRole(req[r].tenant, req[r].user))
          /\ Goto(r, "admitted")
          /\ UNCHANGED seen
    /\ UNCHANGED <<tables, minted, founder>>

(* AddMember checks that the user exists, AssignRole that the caller has a *)
(* user_roles row the policy lets in.                                      *)
Confirm(r) ==
    LET q == req[r]
        ok == \/ q.op = "add" /\ UserExists(q.target)
              \/ q.op = "assign" /\ Permitted(q.tenant, q.user) IN
    /\ pc[r] = "admitted"
    /\ q.op \in {"add", "assign"}
    /\ \/ ok /\ Goto(r, "confirmed") /\ UNCHANGED seen
       \/ ~ok /\ Answer(r, IF q.op = "add" THEN "not_found" ELSE "refused")
    /\ UNCHANGED <<tables, minted, founder>>

(* INSERT, refused by the primary key if there is a row.                   *)
AddMember(r) ==
    LET q == req[r] IN
    /\ pc[r] = "confirmed" /\ q.op = "add"
    /\ \/ /\ role[q.tenant][q.target] # "none"
          /\ Answer(r, "conflict")
          /\ UNCHANGED role
       \/ /\ role[q.tenant][q.target] = "none"
          /\ role' = [role EXCEPT ![q.tenant][q.target] = q.arg]
          /\ Answer(r, "ok")
    /\ UNCHANGED <<account, name, grants, minted, founder>>

(* INSERT ... ON CONFLICT DO NOTHING; users and tenants are foreign keys.  *)
AssignRole(r) ==
    LET q == req[r] IN
    /\ pc[r] = "confirmed" /\ q.op = "assign"
    /\ \/ /\ account[q.target] = "none"
          /\ Answer(r, "error")
          /\ UNCHANGED grants
       \/ /\ account[q.target] # "none"
          /\ grants' = [grants EXCEPT ![q.tenant][q.target] = @ \cup {q.arg}]
          /\ Answer(r, "ok")
    /\ UNCHANGED <<account, name, role, minted, founder>>

(* Mutant: the UPDATE has become an upsert.                                *)
UpdateMemberRoleUpsert(r) ==
    LET q == req[r] IN
    /\ pc[r] = "admitted" /\ q.op = "update"
    /\ role' = [role EXCEPT ![q.tenant][q.target] = q.arg]
    /\ Answer(r, "ok")
    /\ UNCHANGED <<account, name, grants, minted, founder>>

UpdateMemberRole(r) ==
    LET q == req[r] IN
    /\ pc[r] = "admitted" /\ q.op = "update"
    /\ \/ /\ role[q.tenant][q.target] = "none"
          /\ Answer(r, "not_found")
          /\ UNCHANGED role
       \/ /\ role[q.tenant][q.target] # "none"
          /\ role' = [role EXCEPT ![q.tenant][q.target] = q.arg]
          /\ Answer(r, "ok")
    /\ UNCHANGED <<account, name, grants, minted, founder>>

(* Mutant: NULL is written where the row should go.                        *)
RemoveMemberNulls(r) ==
    LET q == req[r] IN
    /\ pc[r] = "admitted" /\ q.op = "remove"
    /\ role' = [role EXCEPT ![q.tenant][q.target] = "null"]
    /\ Answer(r, "ok")
    /\ UNCHANGED <<account, name, grants, minted, founder>>

(* The membership goes; user_roles and the tokens already signed stay.     *)
RemoveMember(r) ==
    LET q == req[r] IN
    /\ pc[r] = "admitted" /\ q.op = "remove"
    /\ role' = [role EXCEPT ![q.tenant][q.target] = "none"]
    /\ Answer(r, IF role[q.tenant][q.target] = "none" THEN "not_found" ELSE "ok")
    /\ UNCHANGED <<account, name, grants, minted, founder>>

(* A statement fails, the client goes away or the process dies.            *)
Fail(r) ==
    /\ pc[r] \notin {"idle", "done"}
    /\ Answer(r, "error")
    /\ UNCHANGED <<tables, minted, founder>>
-----------------------------------------------------------------------------
Args(op) == IF op = "assign" THEN Grants ELSE IF op = "remove" THEN {None} ELSE Roles

Bootstrap(r) ==
    \/ \E u \in Users, n \in Names, t \in Tenants : BootstrapBegin(r, u, n, t)
    \/ BootstrapSelect(r) \/ BootstrapClaim(r) \/ BootstrapCheckName(r) \/ BootstrapCommit(r)
    \/ \E a \in {"ok", "error"} : BootstrapMail(r, a)

Admin(r) ==
    \/ \E op \in {"add", "assign", "update", "remove"}, u, v \in Users, t \in Tenants,
          tid \in Tenants \cup {None} : \E x \in Args(op) : AdminBegin(r, op, u, t, tid, v, x)
    \/ AdminRBAC(r) \/ Confirm(r)
    \/ AddMember(r) \/ AssignRole(r) \/ UpdateMemberRole(r) \/ RemoveMember(r)

Next ==
    /\ \/ \E r \in Requests :
             \/ Bootstrap(r) \/ Admin(r) \/ Fail(r)
             \/ \E u \in Users, t \in Tenants : SwitchTenant(r, u, t)
       \/ \E u \in Users : Verify(u)
    /\ Observe

Spec == Init /\ [][Next]_vars
-----------------------------------------------------------------------------
(* Members and roles of a tenant are only changed for a caller who was its *)
(* owner or admin at some moment while the request was under way, however  *)
(* memberships, grants and tokens changed before and meanwhile.            *)
ChangesAuthorised ==
    [][\A r \in Requests :
         (/\ pc[r] \in {"admitted", "confirmed"} /\ pc'[r] = "done"
          /\ <<role, grants>>' # <<role, grants>>) => entitled[r]]_vars

(* Bootstrap checks a name before it inserts it, without a unique index.   *)
(* Two requests of the same owner still never create two tenants of one    *)
(* name: the second waits for the owner's row and then sees the first.     *)
NameOncePerFounder ==
    \A s, t \in Tenants :
        name[s] = name[t] /\ name[s] # None /\ founder[s] = founder[t] => s = t

(* Only AddMember and Bootstrap make a member: a role change that races    *)
(* with a removal does not bring the removed member back.                  *)
RemovalSticks ==
    [][\A t \in Tenants, u \in Users :
         role[t][u] = "none" /\ role'[t][u] # "none" =>
             \E r \in Requests :
                 /\ pc[r] # pc'[r]
                 /\ req[r].tenant = t
                 /\ \/ req[r].op = "add" /\ req[r].target = u
                    \/ req[r].op = "bootstrap" /\ req[r].user = u]_vars
=============================================================================
