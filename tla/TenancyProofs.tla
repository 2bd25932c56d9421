--------------------------- MODULE TenancyProofs ---------------------------
(***************************************************************************)
(* For any users, tenants, names and requests: who may change memberships, *)
(* which tenants one owner can get, and that removed members stay removed. *)
(***************************************************************************)
EXTENDS Tenancy, TLAPS

(* Leaves are for Zenon, but for those that cite SMT.                       *)
USE Zenon

Bootstrapping == {"selecting", "claiming", "claimed", "name_free", "mailing"}
Administering == {"begun", "admitted", "confirmed"}
Fields == [op : {"none", "bootstrap", "add", "assign", "update", "remove"},
           user : Users \cup {None}, tenant : Tenants \cup {None},
           target : Users \cup {None}, arg : Roles \cup Grants \cup Names \cup {None}]

(* The fields of a request under way are those its operation needs.        *)
RequestsInv ==
    /\ req \in [Requests -> Fields]
    /\ \A r \in Requests :
         /\ pc[r] \in Bootstrapping =>
               /\ req[r].op = "bootstrap" /\ req[r].arg \in Names
               /\ req[r].user \in Users /\ req[r].tenant \in Tenants
         /\ pc[r] \in Administering =>
               /\ req[r].op \in {"add", "assign", "update", "remove"}
               /\ req[r].arg \in Args(req[r].op) /\ req[r].target \in Users
               /\ req[r].user \in Users /\ req[r].tenant \in Tenants

(* Whom AdminRBAC has let in was owner or admin.                           *)
EntitledInv == \A r \in Requests : pc[r] \in {"admitted", "confirmed"} => entitled[r]

(* One transaction at a time holds an owner's row, and the name it found   *)
(* free is not taken by a tenant of that owner.                            *)
ClaimInv ==
    /\ \A r, q \in Requests :
         pc[r] \in Locked /\ pc[q] \in Locked /\ req[r].user = req[q].user => r = q
    /\ \A r \in Requests : pc[r] = "name_free" =>
         \A t \in Tenants : ~(name[t] = req[r].arg /\ founder[t] = req[r].user)

TablesType ==
    /\ account \in [Users -> {"none", "pending", "active"}]
    /\ name \in [Tenants -> Names \cup {None}]
    /\ role \in [Tenants -> [Users -> Roles \cup {"none"}]]
    /\ grants \in [Tenants -> [Users -> SUBSET Grants]]
    /\ minted \subseteq Users \X Tenants
    /\ founder \in [Tenants -> Users \cup {None}]

LocalsType ==
    /\ pc \in [Requests -> PC]
    /\ resp \in [Requests -> Answers]
    /\ seen \in [Requests -> {"none", "pending", "active"}]
    /\ entitled \in [Requests -> BOOLEAN]

TenancyInv ==
    /\ TablesType /\ LocalsType /\ RequestsInv
    /\ EntitledInv /\ ClaimInv /\ NameOncePerFounder

(* A step lets a caller through AdminRBAC only as owner or admin.          *)
Admits ==
    \A q \in Requests : pc'[q] \in {"admitted", "confirmed"} =>
        \/ pc[q] \in {"admitted", "confirmed"}
        \/ role'[req'[q].tenant][req'[q].user] \in {"owner", "admin"}

(* What a step has to establish besides the history variable.              *)
Kept ==
    /\ TablesType' /\ RequestsInv' /\ ClaimInv' /\ NameOncePerFounder' /\ Admits
    /\ pc' \in [Requests -> PC] /\ resp' \in [Requests -> Answers]
    /\ seen' \in [Requests -> {"none", "pending", "active"}]

(* A request that is answered keeps the invariants of requests.            *)
LEMMA AnswerKeeps ==
    ASSUME LocalsType, RequestsInv, NEW r \in Requests, NEW a \in Answers, Answer(r, a)
    PROVE  /\ pc' \in [Requests -> PC] /\ resp' \in [Requests -> Answers]
           /\ seen' \in [Requests -> {"none", "pending", "active"}]
           /\ RequestsInv'
           /\ pc'[r] = "done" /\ \A q \in Requests \ {r} : pc'[q] = pc[q] /\ req'[q] = req[q]
<1> USE DEF LocalsType, Answer, PC, Locked
<1>1. Blank \in Fields
  BY DEF Blank, Fields
<1>2. req' \in [Requests -> Fields]
  BY <1>1 DEF RequestsInv
<1>3. pc'[r] = "done" /\ \A q \in Requests \ {r} : pc'[q] = pc[q] /\ req'[q] = req[q]
  BY DEF RequestsInv
<1>4. RequestsInv'
  BY SMT, <1>2, <1>3 DEF RequestsInv, Bootstrapping, Administering, Args
<1> QED  BY <1>3, <1>4

(* So does one that goes on to a stage of the same operation.              *)
LEMMA GotoKeeps ==
    ASSUME LocalsType, RequestsInv, NEW r \in Requests, NEW l \in PC, Goto(r, l),
           \/ pc[r] \in Bootstrapping /\ l \in Bootstrapping
           \/ pc[r] \in Administering /\ l \in Administering
    PROVE  /\ pc' \in [Requests -> PC] /\ resp' \in [Requests -> Answers]
           /\ RequestsInv'
           /\ pc'[r] = l /\ req' = req /\ \A q \in Requests \ {r} : pc'[q] = pc[q]
<1>1. pc'[r] = l /\ req' = req /\ \A q \in Requests \ {r} : pc'[q] = pc[q]
  BY DEF Goto, LocalsType
<1>2. RequestsInv'
  BY <1>1 DEF RequestsInv, Bootstrapping, Administering, Args
<1> QED  BY <1>1, <1>2 DEF Goto, LocalsType

(* Observe keeps the history variable in step with AdminRBAC.              *)
LEMMA ObserveKeeps == TenancyInv /\ Kept /\ Observe => TenancyInv'
<1> SUFFICES ASSUME TenancyInv, Kept, Observe PROVE TenancyInv'
  OBVIOUS
<1>1. entitled' \in [Requests -> BOOLEAN]
  BY Zenon DEF Observe
<1>2. EntitledInv'
  <2> SUFFICES ASSUME NEW r \in Requests, pc'[r] \in {"admitted", "confirmed"} PROVE entitled'[r]
    BY DEF EntitledInv
  <2>1. pc[r] \in {"admitted", "confirmed"} => entitled[r]
    BY DEF TenancyInv, EntitledInv
  <2>2. \/ pc[r] \in {"admitted", "confirmed"}
        \/ role'[req'[r].tenant][req'[r].user] \in {"owner", "admin"}
    BY DEF Kept, Admits
  <2> QED  BY <2>1, <2>2 DEF Observe
<1> QED  BY <1>1, <1>2 DEF TenancyInv, Kept, LocalsType

(* A request is answered and neither names nor founders change.            *)
LEMMA AnswerSafe ==
    ASSUME TenancyInv, NEW r \in Requests, NEW a \in Answers, Answer(r, a),
           TablesType', name' = name, founder' = founder
    PROVE  Kept
<1>1. /\ pc' \in [Requests -> PC] /\ resp' \in [Requests -> Answers]
      /\ seen' \in [Requests -> {"none", "pending", "active"}]
      /\ RequestsInv'
      /\ pc'[r] = "done" /\ \A q \in Requests \ {r} : pc'[q] = pc[q] /\ req'[q] = req[q]
  BY AnswerKeeps DEF TenancyInv
<1>2. ClaimInv' /\ NameOncePerFounder'
  BY SMT, <1>1 DEF TenancyInv, ClaimInv, NameOncePerFounder, Locked
<1>3. Admits
  BY <1>1 DEF Admits
<1> QED  BY <1>1, <1>2, <1>3 DEF Kept

(* A request goes on without taking a lock.                                *)
LEMMA GotoSafe ==
    ASSUME TenancyInv, NEW r \in Requests, NEW l \in PC \ Locked, Goto(r, l),
           \/ pc[r] \in Bootstrapping /\ l \in Bootstrapping
           \/ pc[r] \in Administering /\ l \in Administering,
           l \in {"admitted", "confirmed"} =>
               \/ pc[r] \in {"admitted", "confirmed"}
               \/ role[req[r].tenant][req[r].user] \in {"owner", "admin"},
           TablesType', role' = role, name' = name, founder' = founder,
           seen' \in [Requests -> {"none", "pending", "active"}]
    PROVE  Kept
<1>1. /\ pc' \in [Requests -> PC] /\ resp' \in [Requests -> Answers]
      /\ RequestsInv'
      /\ pc'[r] = l /\ req' = req /\ \A q \in Requests \ {r} : pc'[q] = pc[q]
  BY GotoKeeps DEF TenancyInv
<1>2. ClaimInv' /\ NameOncePerFounder'
  BY SMT, <1>1 DEF TenancyInv, ClaimInv, NameOncePerFounder, Locked
<1>3. Admits
  BY <1>1 DEF Admits
<1> QED  BY <1>1, <1>2, <1>3 DEF Kept

(* The lookups of Bootstrap and its start leave the tables as they are.    *)
LEMMA BootstrapSteps ==
    ASSUME TenancyInv, NEW r \in Requests
    PROVE  /\ \A u \in Users, n \in Names, t \in Tenants : BootstrapBegin(r, u, n, t) => Kept
           /\ BootstrapSelect(r) => Kept
           /\ \A a \in {"ok", "error"} : BootstrapMail(r, a) => Kept
<1>1. ASSUME NEW u \in Users, NEW n \in Names, NEW t \in Tenants, BootstrapBegin(r, u, n, t)
      PROVE  Kept
  <2> DEFINE f == [Blank EXCEPT !.op = "bootstrap", !.user = u, !.tenant = t, !.arg = n]
  <2>1. f \in Fields /\ f.op = "bootstrap" /\ f.arg = n /\ f.user = u /\ f.tenant = t
    BY DEF Blank, Fields
  <2>2. /\ req' \in [Requests -> Fields] /\ req'[r] = f /\ pc'[r] = "selecting"
        /\ \A q \in Requests \ {r} : pc'[q] = pc[q] /\ req'[q] = req[q]
    BY <1>1, <2>1 DEF BootstrapBegin, TenancyInv, RequestsInv, LocalsType
  <2> HIDE DEF f
  <2>3. RequestsInv'
    BY <2>1, <2>2 DEF TenancyInv, RequestsInv, Bootstrapping, Administering, Args
  <2>4. TablesType' /\ name' = name /\ founder' = founder
    BY <1>1 DEF BootstrapBegin, tables, TenancyInv, TablesType
  <2>5. ClaimInv' /\ NameOncePerFounder'
    BY SMT, <2>2, <2>4 DEF TenancyInv, ClaimInv, NameOncePerFounder, Locked
  <2>6. Admits
    BY <2>2 DEF Admits
  <2>7. /\ pc' \in [Requests -> PC] /\ resp' \in [Requests -> Answers]
        /\ seen' \in [Requests -> {"none", "pending", "active"}]
    BY <1>1 DEF BootstrapBegin, TenancyInv, LocalsType, PC
  <2> QED  BY <2>3, <2>4, <2>5, <2>6, <2>7 DEF Kept
<1>2. ASSUME BootstrapSelect(r) PROVE Kept
  <2>1. TablesType' /\ role' = role /\ name' = name /\ founder' = founder
    BY <1>2 DEF BootstrapSelect, tables, TenancyInv, TablesType
  <2>2. CASE Answer(r, "refused")
    BY <2>1, <2>2, AnswerSafe DEF Answers
  <2>3. CASE Goto(r, "claiming") /\ seen' = [seen EXCEPT ![r] = account[req[r].user]]
    <3>1. pc[r] \in Bootstrapping /\ "claiming" \in Bootstrapping /\ "claiming" \in PC \ Locked
      BY <1>2 DEF BootstrapSelect, Bootstrapping, PC, Locked
    <3>2. seen' \in [Requests -> {"none", "pending", "active"}]
      BY <2>3, <3>1 DEF TenancyInv, LocalsType, TablesType, RequestsInv
    <3> QED  BY <2>1, <2>3, <3>1, <3>2, GotoSafe
  <2> QED  BY <1>2, <2>2, <2>3 DEF BootstrapSelect
<1>3. ASSUME NEW a \in {"ok", "error"}, BootstrapMail(r, a) PROVE Kept
  <2>1. TablesType' /\ name' = name /\ founder' = founder
    BY <1>3 DEF BootstrapMail, tables, TenancyInv, TablesType
  <2> QED  BY <1>3, <2>1, AnswerSafe DEF BootstrapMail, Answers
<1> QED  BY <1>1, <1>2, <1>3

(* The owner's row is claimed while no other transaction holds it.         *)
LEMMA ClaimStep == ASSUME TenancyInv, NEW r \in Requests, BootstrapClaim(r) PROVE Kept
<1>1. TablesType' /\ name' = name /\ founder' = founder
  BY DEF BootstrapClaim, tables, TenancyInv, TablesType
<1>2. CASE Answer(r, "error")
  BY <1>1, <1>2, AnswerSafe DEF Answers
<1>3. CASE Goto(r, "claimed") /\ UNCHANGED seen
  <2>1. pc[r] \in Bootstrapping /\ "claimed" \in Bootstrapping /\ "claimed" \in PC
    BY DEF BootstrapClaim, Bootstrapping, PC, Locked
  <2>2. /\ pc' \in [Requests -> PC] /\ resp' \in [Requests -> Answers] /\ RequestsInv'
        /\ pc'[r] = "claimed" /\ req' = req /\ \A q \in Requests \ {r} : pc'[q] = pc[q]
    BY <1>3, <2>1, GotoKeeps DEF TenancyInv
  <2>3. \A q \in Requests : ~(pc[q] \in Locked /\ req[q].user = req[r].user)
    BY DEF BootstrapClaim, UserFree
  <2>4. ClaimInv' /\ NameOncePerFounder'
    BY SMT, <1>1, <2>2, <2>3 DEF TenancyInv, ClaimInv, NameOncePerFounder, Locked
  <2>5. Admits
    BY <2>2 DEF Admits
  <2>6. seen' \in [Requests -> {"none", "pending", "active"}]
    BY <1>3 DEF TenancyInv, LocalsType
  <2> QED  BY <1>1, <2>2, <2>4, <2>5, <2>6 DEF Kept
<1> QED  BY <1>2, <1>3 DEF BootstrapClaim

(* A name found free is free of this owner's tenants.                      *)
LEMMA CheckNameStep == ASSUME TenancyInv, NEW r \in Requests, BootstrapCheckName(r) PROVE Kept
<1>1. TablesType' /\ name' = name /\ founder' = founder
  BY DEF BootstrapCheckName, tables, TenancyInv, TablesType
<1>2. CASE Answer(r, "conflict")
  BY <1>1, <1>2, AnswerSafe DEF Answers
<1>3. CASE (\A t \in Tenants : name[t] # req[r].arg) /\ Goto(r, "name_free") /\ UNCHANGED seen
  <2>1. pc[r] = "claimed" /\ pc[r] \in Bootstrapping /\ "name_free" \in Bootstrapping /\ "name_free" \in PC
    BY DEF BootstrapCheckName, Bootstrapping, PC, Locked
  <2>2. /\ pc' \in [Requests -> PC] /\ resp' \in [Requests -> Answers] /\ RequestsInv'
        /\ pc'[r] = "name_free" /\ req' = req /\ \A q \in Requests \ {r} : pc'[q] = pc[q]
    BY <1>3, <2>1, GotoKeeps DEF TenancyInv
  <2>3. ClaimInv' /\ NameOncePerFounder'
    BY SMT, <1>1, <1>3, <2>1, <2>2 DEF TenancyInv, ClaimInv, NameOncePerFounder, Locked
  <2>4. Admits
    BY <2>2 DEF Admits
  <2>5. seen' \in [Requests -> {"none", "pending", "active"}]
    BY <1>3 DEF TenancyInv, LocalsType
  <2> QED  BY <1>1, <2>2, <2>3, <2>4, <2>5 DEF Kept
<1> QED  BY <1>2, <1>3 DEF BootstrapCheckName

(* The commit creates one tenant, of a name its founder did not have, while  *)
(* no other transaction of that founder has found the name free.             *)
LEMMA CommitStep == ASSUME TenancyInv, NEW r \in Requests, BootstrapCommit(r) PROVE Kept
<1> DEFINE u == req[r].user
           t == req[r].tenant
<1>1. pc[r] = "name_free" /\ u \in Users /\ t \in Tenants /\ req[r].arg \in Names
  BY DEF BootstrapCommit, TenancyInv, RequestsInv, Bootstrapping
<1>2. TablesType'
  <2>1. role' \in [Tenants -> [Users -> Roles \cup {"none"}]]
    BY <1>1 DEF BootstrapCommit, TenancyInv, TablesType, Roles
  <2>2. grants' \in [Tenants -> [Users -> SUBSET Grants]]
    BY SMT, <1>1 DEF BootstrapCommit, TenancyInv, TablesType, Grants
  <2>3. /\ account' \in [Users -> {"none", "pending", "active"}]
        /\ name' \in [Tenants -> Names \cup {None}]
        /\ founder' \in [Tenants -> Users \cup {None}]
        /\ minted' \subseteq Users \X Tenants
    BY <1>1 DEF BootstrapCommit, TenancyInv, TablesType
  <2> QED  BY <2>1, <2>2, <2>3 DEF TablesType
<1>3. /\ name'[t] = req[r].arg /\ founder'[t] = u
      /\ \A s \in Tenants \ {t} : name'[s] = name[s] /\ founder'[s] = founder[s]
  BY <1>1 DEF BootstrapCommit, TenancyInv, TablesType
<1>4. /\ pc' \in [Requests -> PC] /\ resp' \in [Requests -> Answers]
      /\ seen' \in [Requests -> {"none", "pending", "active"}] /\ RequestsInv'
      /\ pc'[r] \in {"mailing", "done"}
      /\ \A q \in Requests \ {r} : pc'[q] = pc[q] /\ req'[q] = req[q]
  <2>1. CASE Goto(r, "mailing") /\ UNCHANGED seen
    BY <1>1, <2>1, GotoKeeps DEF TenancyInv, LocalsType, Bootstrapping, PC
  <2>2. CASE Answer(r, "ok")
    BY <2>2, AnswerKeeps DEF TenancyInv, Answers
  <2> QED  BY <2>1, <2>2 DEF BootstrapCommit
<1>5. \A s \in Tenants : ~(name[s] = req[r].arg /\ founder[s] = u)
  BY <1>1 DEF TenancyInv, ClaimInv
<1>6. \A q \in Requests \ {r} : pc[q] \in Locked => req[q].user # u
  BY <1>1 DEF TenancyInv, ClaimInv, Locked
<1> HIDE DEF u, t
<1>7. NameOncePerFounder'
  BY SMT, <1>1, <1>3, <1>5 DEF TenancyInv, NameOncePerFounder
<1>8. ClaimInv'
  BY SMT, <1>1, <1>3, <1>4, <1>6 DEF TenancyInv, ClaimInv, Locked
<1>9. Admits
  BY <1>4 DEF Admits
<1> QED  BY <1>2, <1>4, <1>7, <1>8, <1>9 DEF Kept

(* AdminRBAC admits owners and admins only.                                *)
LEMMA EnforcedRoles == \A x : Enforced(x) => x \in {"owner", "admin"}
BY SMT DEF Enforced, MapTenantRoleToCasbin, Subjects, Roles

(* Admin requests begin, pass the middleware and are confirmed.            *)
LEMMA AdminChecks ==
    ASSUME TenancyInv, NEW r \in Requests
    PROVE  /\ \A op \in {"add", "assign", "update", "remove"}, u, v \in Users, t \in Tenants,
                 tid \in Tenants \cup {None} : \A x \in Args(op) :
                    AdminBegin(r, op, u, t, tid, v, x) => Kept
           /\ AdminRBAC(r) => Kept
           /\ Confirm(r) => Kept
<1>1. ASSUME NEW op \in {"add", "assign", "update", "remove"}, NEW u \in Users, NEW v \in Users,
             NEW t \in Tenants, NEW tid \in Tenants \cup {None}, NEW x \in Args(op),
             AdminBegin(r, op, u, t, tid, v, x)
      PROVE  Kept
  <2>1. TablesType' /\ name' = name /\ founder' = founder
    BY <1>1 DEF AdminBegin, tables, TenancyInv, TablesType
  <2>2. CASE Answer(r, "refused")
    BY <2>1, <2>2, AnswerSafe DEF Answers
  <2> DEFINE f == [op |-> op, user |-> u, tenant |-> t, target |-> v, arg |-> x]
  <2>3. CASE /\ req' = [req EXCEPT ![r] = f] /\ pc' = [pc EXCEPT ![r] = "begun"]
             /\ UNCHANGED <<resp, seen>>
    <3>1. x \in Roles \cup Grants \cup {None}
      BY DEF Args
    <3>2. f \in Fields /\ f.op = op /\ f.arg = x /\ f.target = v /\ f.user = u /\ f.tenant = t
      BY <3>1 DEF Fields
    <3> HIDE DEF f
    <3>3. /\ req' \in [Requests -> Fields] /\ req'[r] = f /\ pc'[r] = "begun"
          /\ \A q \in Requests \ {r} : pc'[q] = pc[q] /\ req'[q] = req[q]
      BY <2>3, <3>2 DEF TenancyInv, RequestsInv, LocalsType
    <3>4. RequestsInv'
      BY SMT, <3>2, <3>3 DEF TenancyInv, RequestsInv, Bootstrapping, Administering, Args
    <3>5. ClaimInv' /\ NameOncePerFounder'
      BY SMT, <2>1, <3>3 DEF TenancyInv, ClaimInv, NameOncePerFounder, Locked
    <3>6. Admits
      BY <3>3 DEF Admits
    <3>7. /\ pc' \in [Requests -> PC] /\ resp' \in [Requests -> Answers]
          /\ seen' \in [Requests -> {"none", "pending", "active"}]
      BY <2>3 DEF TenancyInv, LocalsType, PC
    <3> QED  BY <2>1, <3>4, <3>5, <3>6, <3>7 DEF Kept
  <2> QED  BY <1>1, <2>2, <2>3 DEF AdminBegin
<1>2. ASSUME AdminRBAC(r) PROVE Kept
  <2>1. TablesType' /\ role' = role /\ name' = name /\ founder' = founder
    BY <1>2 DEF AdminRBAC, tables, TenancyInv, TablesType
  <2>2. CASE Answer(r, "refused")
    BY <2>1, <2>2, AnswerSafe DEF Answers
  <2>3. CASE Enforced(TenantUserRole(req[r].tenant, req[r].user)) /\ Goto(r, "admitted") /\ UNCHANGED seen
    <3>1. /\ pc[r] \in Administering /\ "admitted" \in Administering /\ "admitted" \in PC \ Locked
      BY <1>2 DEF AdminRBAC, Administering, PC, Locked
    <3>2. role[req[r].tenant][req[r].user] \in {"owner", "admin"}
      BY <2>3, EnforcedRoles DEF TenantUserRole
    <3>3. seen' \in [Requests -> {"none", "pending", "active"}]
      BY <2>3 DEF TenancyInv, LocalsType
    <3> QED  BY <2>1, <2>3, <3>1, <3>2, <3>3, GotoSafe
  <2> QED  BY <1>2, <2>2, <2>3 DEF AdminRBAC
<1>3. ASSUME Confirm(r) PROVE Kept
  <2>1. TablesType' /\ role' = role /\ name' = name /\ founder' = founder
    BY <1>3 DEF Confirm, tables, TenancyInv, TablesType
  <2>2. CASE Goto(r, "confirmed") /\ UNCHANGED seen
    <3>1. /\ pc[r] = "admitted" /\ pc[r] \in Administering
          /\ "confirmed" \in Administering /\ "confirmed" \in PC \ Locked
      BY <1>3 DEF Confirm, Administering, PC, Locked
    <3>2. seen' \in [Requests -> {"none", "pending", "active"}]
      BY <2>2 DEF TenancyInv, LocalsType
    <3> QED  BY <2>1, <2>2, <3>1, <3>2, GotoSafe
  <2>3. CASE \E a \in {"not_found", "refused"} : Answer(r, a)
    BY <2>1, <2>3, AnswerSafe DEF Answers
  <2> QED  BY <1>3, <2>2, <2>3 DEF Confirm
<1> QED  BY <1>1, <1>2, <1>3

(* The statements that change members and roles touch one row each.        *)
LEMMA AdminChanges ==
    ASSUME TenancyInv, NEW r \in Requests,
           AddMember(r) \/ AssignRole(r) \/ UpdateMemberRole(r) \/ RemoveMember(r)
    PROVE  Kept
<1>1. /\ pc[r] \in Administering /\ req[r].tenant \in Tenants /\ req[r].target \in Users
      /\ req[r].arg \in Args(req[r].op)
  <2>1. pc[r] \in Administering
    BY DEF AddMember, AssignRole, UpdateMemberRole, RemoveMember, Administering
  <2> QED  BY <2>1 DEF TenancyInv, RequestsInv
<1>2. name' = name /\ founder' = founder
  BY DEF AddMember, AssignRole, UpdateMemberRole, RemoveMember
<1>3. \E a \in Answers : Answer(r, a)
  <2>1. \E a \in {"ok", "conflict", "error", "not_found"} : Answer(r, a)
    BY DEF AddMember, AssignRole, UpdateMemberRole, RemoveMember
  <2> QED  BY <2>1 DEF Answers
<1>4. role' \in [Tenants -> [Users -> Roles \cup {"none"}]]
  <2>1. role \in [Tenants -> [Users -> Roles \cup {"none"}]]
    BY DEF TenancyInv, TablesType
  <2>2. CASE role' = role
    BY <2>1, <2>2
  <2>3. CASE \E x \in Roles \cup {"none"} : role' = [role EXCEPT ![req[r].tenant][req[r].target] = x]
    BY SMT, <1>1, <2>1, <2>3
  <2>4. CASE AddMember(r) \/ UpdateMemberRole(r)
    <3>1. req[r].arg \in Roles
      BY <1>1, <2>4 DEF AddMember, UpdateMemberRole, Args
    <3> QED  BY <2>2, <2>3, <2>4, <3>1 DEF AddMember, UpdateMemberRole
  <2>5. CASE AssignRole(r)
    BY <2>2, <2>5 DEF AssignRole
  <2>6. CASE RemoveMember(r)
    BY <2>3, <2>6 DEF RemoveMember
  <2> QED  BY <2>4, <2>5, <2>6
<1>5. grants' \in [Tenants -> [Users -> SUBSET Grants]]
  <2>1. grants \in [Tenants -> [Users -> SUBSET Grants]]
    BY DEF TenancyInv, TablesType
  <2>2. CASE grants' = grants
    BY <2>1, <2>2
  <2>3. CASE AssignRole(r) /\ grants' # grants
    <3>1. req[r].arg \in Grants
      BY <1>1, <2>3 DEF AssignRole, Args
    <3>2. grants' = [grants EXCEPT ![req[r].tenant][req[r].target] = @ \cup {req[r].arg}]
      BY <2>3 DEF AssignRole
    <3> QED  BY SMT, <1>1, <2>1, <3>1, <3>2
  <2> QED  BY <2>2, <2>3 DEF AddMember, UpdateMemberRole, RemoveMember
<1>6. TablesType'
  BY <1>4, <1>5 DEF AddMember, AssignRole, UpdateMemberRole, RemoveMember, TenancyInv, TablesType
<1> QED  BY <1>2, <1>3, <1>6, AnswerSafe

(* So do the remaining steps: a failure, SwitchTenant, a verification.     *)
LEMMA OtherSteps ==
    ASSUME TenancyInv
    PROVE  /\ \A r \in Requests : Fail(r) => Kept
           /\ \A r \in Requests, u \in Users, t \in Tenants : SwitchTenant(r, u, t) => Kept
           /\ \A u \in Users : Verify(u) => Kept
<1>1. ASSUME NEW r \in Requests, Fail(r) PROVE Kept
  <2>1. TablesType' /\ name' = name /\ founder' = founder
    BY <1>1 DEF Fail, tables, TenancyInv, TablesType
  <2> QED  BY <1>1, <2>1, AnswerSafe DEF Fail, Answers
<1>2. ASSUME NEW r \in Requests, NEW u \in Users, NEW t \in Tenants, SwitchTenant(r, u, t) PROVE Kept
  <2>1. TablesType' /\ name' = name /\ founder' = founder
    BY SMT, <1>2 DEF SwitchTenant, tables, TenancyInv, TablesType
  <2>2. \E a \in {"ok", "refused"} : Answer(r, a)
    BY <1>2 DEF SwitchTenant
  <2> QED  BY <2>1, <2>2, AnswerSafe DEF Answers
<1>3. ASSUME NEW u \in Users, Verify(u) PROVE Kept
  <2>1. UNCHANGED <<name, role, grants, minted, pc, resp, req, seen, founder>>
    BY <1>3 DEF Verify
  <2>2. TablesType'
    BY <1>3 DEF Verify, TenancyInv, TablesType
  <2>3. RequestsInv' /\ ClaimInv' /\ NameOncePerFounder'
    BY <2>1 DEF TenancyInv, RequestsInv, ClaimInv, NameOncePerFounder
  <2> QED  BY <2>1, <2>2, <2>3 DEF Kept, Admits, TenancyInv, LocalsType
<1> QED  BY <1>1, <1>2, <1>3

(* The invariant holds at the start and every step keeps it.               *)
THEOREM Invariance == Spec => []TenancyInv
<1>1. Init => TenancyInv
  <2> SUFFICES ASSUME Init PROVE TenancyInv
    OBVIOUS
  <2>1. TablesType
    BY DEF Init, TablesType
  <2>2. LocalsType
    BY DEF Init, LocalsType, PC, Answers
  <2>3. RequestsInv
    BY DEF Init, RequestsInv, Blank, Fields, Bootstrapping, Administering
  <2>4. EntitledInv /\ ClaimInv /\ NameOncePerFounder
    BY DEF Init, EntitledInv, ClaimInv, NameOncePerFounder, Locked
  <2> QED  BY <2>1, <2>2, <2>3, <2>4 DEF TenancyInv
<1>2. TenancyInv /\ [Next]_vars => TenancyInv'
  <2> SUFFICES ASSUME TenancyInv, [Next]_vars PROVE TenancyInv'
    OBVIOUS
  <2>1. CASE UNCHANGED vars
    BY <2>1 DEF vars, tables, TenancyInv, TablesType, LocalsType, RequestsInv, EntitledInv,
                ClaimInv, NameOncePerFounder
  <2>2. CASE Next
    <3>1. Kept
      <4>1. ASSUME NEW r \in Requests, Bootstrap(r) PROVE Kept
        BY <4>1, BootstrapSteps, ClaimStep, CheckNameStep, CommitStep DEF Bootstrap
      <4>2. ASSUME NEW r \in Requests, Admin(r) PROVE Kept
        BY <4>2, AdminChecks, AdminChanges DEF Admin
      <4> QED  BY <2>2, <4>1, <4>2, OtherSteps DEF Next
    <3> QED  BY <2>2, <3>1, ObserveKeeps DEF Next
  <2> QED  BY <2>1, <2>2
<1> QED  BY <1>1, <1>2, PTL DEF Spec

(* Every variable keeps its type, and a request under way names a user and *)
(* a tenant.                                                               *)
THEOREM TypeCorrect == Spec => []TypeOK
<1>1. TenancyInv => TypeOK
  BY DEF TenancyInv, TablesType, LocalsType, RequestsInv, TypeOK, Bootstrapping, Administering, PC, Locked
<1> QED  BY <1>1, Invariance, PTL

(* However many Bootstrap requests of one owner run at once, no two        *)
(* tenants of that owner get the same name.                                *)
THEOREM NamesOnce == Spec => []NameOncePerFounder
<1>1. TenancyInv => NameOncePerFounder
  BY DEF TenancyInv
<1> QED  BY <1>1, Invariance, PTL

(* Members and roles change only for a caller who was owner or admin of    *)
(* the tenant while the request was under way.                             *)
THEOREM Authorised == Spec => ChangesAuthorised
<1>1. TenancyInv => [\A r \in Requests :
         (/\ pc[r] \in {"admitted", "confirmed"} /\ pc'[r] = "done"
          /\ <<role, grants>>' # <<role, grants>>) => entitled[r]]_vars
  BY DEF TenancyInv, EntitledInv
<1> QED  BY <1>1, Invariance, PTL DEF ChangesAuthorised

(* A membership appears only through AddMember or Bootstrap: a role change *)
(* that meets a removed member leaves it removed.                          *)
THEOREM RemovedStayRemoved == Spec => RemovalSticks
<1> DEFINE Made(t, u) ==
             \E r \in Requests :
                 /\ pc[r] # pc'[r]
                 /\ req[r].tenant = t
                 /\ \/ req[r].op = "add" /\ req[r].target = u
                    \/ req[r].op = "bootstrap" /\ req[r].user = u
<1>1. ASSUME TenancyInv, Next, NEW t \in Tenants, NEW u \in Users,
             role[t][u] = "none", role'[t][u] # "none"
      PROVE  Made(t, u)
  <2>1. role \in [Tenants -> [Users -> Roles \cup {"none"}]] /\ pc \in [Requests -> PC]
    BY <1>1 DEF TenancyInv, TablesType, LocalsType
  <2>2. PICK r \in Requests :
           BootstrapCommit(r) \/ AddMember(r) \/ UpdateMemberRole(r) \/ RemoveMember(r)
    <3>1. role' # role
      BY <1>1
    <3>2. ASSUME NEW r \in Requests, Bootstrap(r) PROVE BootstrapCommit(r)
      BY <3>1, <3>2 DEF Bootstrap, BootstrapBegin, BootstrapSelect, BootstrapClaim,
                        BootstrapCheckName, BootstrapMail, tables
    <3>3. ASSUME NEW r \in Requests, Admin(r) PROVE AddMember(r) \/ UpdateMemberRole(r) \/ RemoveMember(r)
      BY ZenonT(30), <3>1, <3>3 DEF Admin, AdminBegin, AdminRBAC, Confirm, AssignRole, tables
    <3>4. \E r \in Requests : Bootstrap(r) \/ Admin(r)
      BY <1>1, <3>1 DEF Next, Fail, SwitchTenant, Verify, tables
    <3> QED  BY <3>2, <3>3, <3>4
  <2>3. CASE BootstrapCommit(r)
    <3>1. pc[r] = "name_free" /\ role' = [role EXCEPT ![req[r].tenant][req[r].user] = "owner"]
      BY <2>3 DEF BootstrapCommit
    <3>2. req[r].op = "bootstrap" /\ req[r].tenant \in Tenants /\ req[r].user \in Users
      BY <1>1, <3>1 DEF TenancyInv, RequestsInv, Bootstrapping
    <3>3. req[r].tenant = t /\ req[r].user = u
      BY <1>1, <2>1, <3>1, <3>2
    <3>4. pc'[r] # pc[r]
      BY <2>1, <2>3, <3>1 DEF BootstrapCommit, Goto, Answer
    <3> QED  BY <3>2, <3>3, <3>4
  <2>4. CASE AddMember(r)
    <3>1. pc[r] = "confirmed" /\ req[r].op = "add" /\ pc'[r] = "done"
      BY <2>1, <2>4 DEF AddMember, Answer
    <3>2. req[r].tenant \in Tenants /\ req[r].target \in Users
      BY <1>1, <3>1 DEF TenancyInv, RequestsInv, Administering
    <3>3. role' = role \/ role' = [role EXCEPT ![req[r].tenant][req[r].target] = req[r].arg]
      BY <2>4 DEF AddMember
    <3>4. req[r].tenant = t /\ req[r].target = u
      BY SMT, <1>1, <2>1, <3>2, <3>3
    <3> QED  BY <3>1, <3>4
  <2>5. CASE UpdateMemberRole(r)
    <3>1. \/ role' = role
          \/ /\ role[req[r].tenant][req[r].target] # "none"
             /\ role' = [role EXCEPT ![req[r].tenant][req[r].target] = req[r].arg]
      BY <2>5 DEF UpdateMemberRole
    <3> QED  BY SMT, <1>1, <2>1, <3>1
  <2>6. CASE RemoveMember(r)
    <3>1. role' = [role EXCEPT ![req[r].tenant][req[r].target] = "none"]
      BY <2>6 DEF RemoveMember
    <3> QED  BY <1>1, <2>1, <3>1
  <2> QED  BY <2>2, <2>3, <2>4, <2>5, <2>6
<1>2. TenancyInv /\ [Next]_vars =>
        [\A t \in Tenants, u \in Users :
            role[t][u] = "none" /\ role'[t][u] # "none" => Made(t, u)]_vars
  BY SMT, <1>1
<1> QED  BY <1>2, Invariance, PTL DEF Spec, RemovalSticks
=============================================================================
