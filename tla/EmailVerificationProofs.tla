---------------------- MODULE EmailVerificationProofs ----------------------
(***************************************************************************)
(* For any requests and bounds: the life cycle of the account, codes and   *)
(* links accepted once, the number of wrong codes compared, types, the     *)
(* outbox towards the e-mail worker, and what a resend voids.              *)
(***************************************************************************)
EXTENDS EmailVerification, WellFoundedInduction, TLAPS

(* Leaves are for Zenon, but for those that cite SMT.                       *)
USE Zenon

Types ==
    /\ account \in [Requests -> {"none", "pending", "active", "deleted"}]
    /\ holder \in [Requests -> Requests \cup {None}]
    /\ code \in [Requests -> {"none", "open", "used"}]
    /\ link \in [Requests -> {"none", "open", "used"}]
    /\ attempts \in [Requests -> Nat]
    /\ kind \in [Requests -> Kinds \cup {"none"}]
    /\ pc \in [Requests -> Flight \cup {"idle", "done"}]
    /\ resp \in [Requests -> Answers]
    /\ arg \in [Requests -> Requests \cup {None}]
    /\ seen \in [Requests -> SUBSET Requests]
    /\ activations \in [Requests -> Nat]
    /\ guesses \in [Requests -> Nat]

(* Stages in which a request has not issued its verification.              *)
Unissued == {"idle", "begun", "owner", "issuing", "selected"}

(* Stages of a request that issues one, and presents none.                 *)
Issuing == {"owner", "issuing", "selected", "created", "undo", "undo_user"}

(* What a request has done when it is at a stage.                          *)
StageInv ==
    \A r \in Requests :
        /\ pc[r] \in {"idle", "begun"} => account[r] = "none"
        /\ pc[r] \in {"owner", "issuing"} => account[r] \in {"pending", "active"}
        /\ pc[r] \in Unissued =>
              /\ holder[r] = None /\ code[r] = "none" /\ link[r] = "none"
              /\ \A q \in Requests : arg[q] # r
        /\ pc[r] = "snapshot" => kind[r] = "otp"
        /\ pc[r] = "validated" => kind[r] = "magic"
        /\ pc[r] \in Issuing => arg[r] = None
        /\ resp[r] = "ok" => pc[r] = "done"
        /\ arg[r] # None => kind[r] \in {"otp", "magic"}

(* Open rows belong to an account; rows that were accepted are closed.     *)
RowInv ==
    /\ \A i \in Requests : Open(i) => holder[i] \in Requests /\ account[holder[i]] \in {"pending", "active"}
    /\ \A r \in Requests : resp[r] = "ok" /\ arg[r] # None =>
          /\ kind[r] = "otp" => code[arg[r]] # "open"
          /\ kind[r] = "magic" => link[arg[r]] # "open"

(* Every comparison with a wrong code is counted in the row.               *)
CountInv == \A i \in Requests : guesses[i] <= attempts[i] /\ attempts[i] <= MaxAttempts + 1

VerificationInv == Types /\ StageInv /\ RowInv /\ CountInv /\ AcceptedOnce

(* What an answer writes.                                                  *)
LEMMA AnswerFacts ==
    ASSUME Types, NEW r \in Requests, NEW a \in Answers, Answer(r, a)
    PROVE  /\ kind' \in [Requests -> Kinds \cup {"none"}]
           /\ pc' \in [Requests -> Flight \cup {"idle", "done"}]
           /\ resp' \in [Requests -> Answers]
           /\ arg' \in [Requests -> Requests \cup {None}]
           /\ seen' \in [Requests -> SUBSET Requests]
           /\ pc'[r] = "done" /\ resp'[r] = a
           /\ a = "ok" => kind'[r] = kind[r] /\ arg'[r] = arg[r]
           /\ a # "ok" => kind'[r] = "none" /\ arg'[r] = None
           /\ \A q \in Requests \ {r} :
                 pc'[q] = pc[q] /\ resp'[q] = resp[q] /\ kind'[q] = kind[q] /\ arg'[q] = arg[q]
<1>1. pc' \in [Requests -> Flight \cup {"idle", "done"}] /\ resp' \in [Requests -> Answers]
  BY DEF Types, Answer
<1>2. kind' \in [Requests -> Kinds \cup {"none"}] /\ arg' \in [Requests -> Requests \cup {None}]
  BY DEF Types, Answer
<1>3. seen' \in [Requests -> SUBSET Requests]
  BY DEF Types, Answer
<1> QED  BY SMT, <1>1, <1>2, <1>3 DEF Types, Answer

(* What going on to another stage writes.                                  *)
LEMMA GotoFacts ==
    ASSUME Types, NEW r \in Requests, NEW l \in Flight, Goto(r, l)
    PROVE  /\ kind' = kind /\ resp' = resp /\ arg' = arg
           /\ pc' \in [Requests -> Flight \cup {"idle", "done"}]
           /\ pc'[r] = l /\ \A q \in Requests \ {r} : pc'[q] = pc[q]
BY DEF Types, Goto, locals

(* The rows of accounts and verifications, except that open ones may go.   *)
SameTables ==
    /\ UNCHANGED <<account, holder, attempts, activations, guesses>>
    /\ \A i \in Requests : /\ code'[i] = code[i] \/ (code[i] = "open" /\ code'[i] = "none")
                           /\ link'[i] = link[i] \/ (link[i] = "open" /\ link'[i] = "none")

(* A step of one request that leaves the tables, claims no success with a  *)
(* code or a link, and presents at most one that exists.                   *)
LEMMA QuietStep ==
    ASSUME VerificationInv, Types', SameTables, NEW r \in Requests,
           \A q \in Requests \ {r} :
              pc'[q] = pc[q] /\ resp'[q] = resp[q] /\ kind'[q] = kind[q] /\ arg'[q] = arg[q],
           pc'[r] = pc[r] \/ pc'[r] # "idle",
           pc'[r] = "begun" => pc[r] \in {"idle", "begun"},
           pc'[r] \in {"owner", "issuing"} => pc[r] \in {"owner", "issuing"},
           pc'[r] \in Unissued => pc[r] \in Unissued,
           pc'[r] = "snapshot" => kind'[r] = "otp",
           pc'[r] = "validated" => kind'[r] = "magic",
           pc'[r] \in Issuing => arg'[r] = None,
           arg'[r] \in {arg[r], None} \/ holder[arg'[r]] # None,
           arg'[r] # None => kind'[r] \in {"otp", "magic"},
           resp'[r] = "ok" => pc'[r] = "done" /\ arg'[r] = None
    PROVE  VerificationInv'
<1>1. Types /\ StageInv /\ RowInv /\ CountInv /\ AcceptedOnce
  BY DEF VerificationInv
<1>2. \A q, s \in Requests : pc'[s] \in Unissued => arg'[q] # s
  <2> SUFFICES ASSUME NEW q \in Requests, NEW s \in Requests, pc'[s] \in Unissued PROVE arg'[q] # s
    OBVIOUS
  <2>1. pc[s] \in Unissued
    OBVIOUS
  <2>2. holder[s] = None /\ (\A p \in Requests : arg[p] # s) /\ s # None
    BY <1>1, <2>1, VerificationAssumption DEF VerificationAssumption, StageInv
  <2> QED  BY <2>2
<1>3. StageInv'
  BY SMT, <1>1, <1>2 DEF StageInv, SameTables, Unissued
<1>4. RowInv'
  <2>1. \A i \in Requests : Open(i)' => Open(i)
    BY DEF SameTables, Open
  <2>2. \A q \in Requests : arg[q] # None => arg[q] \in Requests
    BY SMT, <1>1 DEF Types
  <2>3. \A i \in Requests : (code'[i] = "open" => code[i] = "open") /\ (link'[i] = "open" => link[i] = "open")
    BY DEF SameTables
  <2> QED  BY SMT, <1>1, <2>1, <2>2, <2>3 DEF RowInv, SameTables
<1>5. CountInv'
  BY <1>1 DEF CountInv, SameTables
<1>6. AcceptedOnce'
  BY SMT, <1>1 DEF AcceptedOnce
<1> QED  BY <1>3, <1>4, <1>5, <1>6 DEF VerificationInv

(* An error answer, and a success that presents no code or link.           *)
LEMMA AnswerSafe ==
    ASSUME VerificationInv, NEW r \in Requests, NEW a \in Answers, Answer(r, a),
           a = "ok" => arg[r] = None, SameTables,
           code' \in [Requests -> {"none", "open", "used"}], link' \in [Requests -> {"none", "open", "used"}]
    PROVE  VerificationInv'
<1>0. Types /\ StageInv
  BY DEF VerificationInv
<1>1. /\ kind' \in [Requests -> Kinds \cup {"none"}]
      /\ pc' \in [Requests -> Flight \cup {"idle", "done"}] /\ resp' \in [Requests -> Answers]
      /\ arg' \in [Requests -> Requests \cup {None}] /\ seen' \in [Requests -> SUBSET Requests]
  BY <1>0, AnswerFacts
<1>2. /\ pc'[r] = "done" /\ resp'[r] = a /\ arg'[r] = None
      /\ \A q \in Requests \ {r} :
            pc'[q] = pc[q] /\ resp'[q] = resp[q] /\ kind'[q] = kind[q] /\ arg'[q] = arg[q]
  BY <1>0, AnswerFacts
<1>3. Types'
  BY <1>0, <1>1 DEF Types, SameTables
<1> QED  BY <1>2, <1>3, QuietStep DEF Unissued, Issuing

(* A request goes on to a stage that follows its own.                      *)
LEMMA GotoSafe ==
    ASSUME VerificationInv, NEW r \in Requests, NEW l \in Flight, Goto(r, l),
           UNCHANGED <<account, holder, code, link, attempts, activations, guesses>>,
           seen' \in [Requests -> SUBSET Requests],
           l # "begun", l \notin {"owner", "issuing"},
           l \in Unissued => pc[r] \in Unissued,
           l = "snapshot" => kind[r] = "otp", l = "validated" => kind[r] = "magic",
           l \in Issuing => arg[r] = None, pc[r] # "done"
    PROVE  VerificationInv'
<1>0. Types /\ StageInv
  BY DEF VerificationInv
<1>1. /\ kind' = kind /\ resp' = resp /\ arg' = arg
      /\ pc' \in [Requests -> Flight \cup {"idle", "done"}]
      /\ pc'[r] = l /\ \A q \in Requests \ {r} : pc'[q] = pc[q]
  BY <1>0, GotoFacts
<1>2. Types' /\ SameTables
  <2>1. Types'
    BY <1>0, <1>1 DEF Types
  <2>2. SameTables
    BY DEF SameTables
  <2> QED  BY <2>1, <2>2
<1>3. l # "idle" /\ resp[r] # "ok" /\ (arg[r] # None => kind[r] \in {"otp", "magic"})
  BY <1>0 DEF Flight, StageInv
<1> QED  BY <1>1, <1>2, <1>3, QuietStep

(* A request begins.                                                       *)
LEMMA BeginSafe ==
    ASSUME VerificationInv, NEW r \in Requests, NEW k \in Kinds, NEW a \in Known, Begin(r, k, a),
           k \notin {"otp", "magic"} => a = None
    PROVE  VerificationInv'
<1>0. Types /\ StageInv
  BY DEF VerificationInv
<1>1. a \in Requests \cup {None} /\ (a = None \/ holder[a] # None)
  BY DEF Known
<1>2. UNCHANGED <<account, holder, code, link, attempts, resp, seen, activations, guesses>>
  BY DEF Begin, table
<1>3. /\ pc' = [pc EXCEPT ![r] = "begun"] /\ kind' = [kind EXCEPT ![r] = k]
      /\ arg' = [arg EXCEPT ![r] = a] /\ pc[r] = "idle"
  BY DEF Begin
<1>4. Types'
  BY <1>0, <1>1, <1>2, <1>3 DEF Types, Flight
<1>5. SameTables
  BY <1>2 DEF SameTables
<1>6. /\ pc'[r] = "begun" /\ kind'[r] = k /\ arg'[r] = a /\ resp'[r] # "ok"
      /\ \A q \in Requests \ {r} :
            pc'[q] = pc[q] /\ resp'[q] = resp[q] /\ kind'[q] = kind[q] /\ arg'[q] = arg[q]
  BY SMT, <1>0, <1>2, <1>3 DEF Types, StageInv
<1> QED  BY <1>1, <1>3, <1>4, <1>5, <1>6, QuietStep DEF Unissued, Issuing

(* The life cycle's steps, seen from the tables.                           *)
Effect == [Account!Next]_(Account!vars)

(* A step that leaves accounts alone has no effect on the life cycle.      *)
LEMMA NoEffect == UNCHANGED <<account, activations>> => Effect
BY DEF Effect, Account!vars

(* A request is answered and the tables stay as they are.                  *)
LEMMA AnswerQuiet ==
    ASSUME VerificationInv, NEW r \in Requests, NEW a \in Answers, Answer(r, a), a = "ok" => arg[r] = None,
           UNCHANGED <<account, holder, code, link, attempts, activations, guesses>>
    PROVE  VerificationInv' /\ Effect
<1>1. SameTables
  BY DEF SameTables
<1>2. code' \in [Requests -> {"none", "open", "used"}] /\ link' \in [Requests -> {"none", "open", "used"}]
  BY DEF VerificationInv, Types
<1> QED  BY <1>1, <1>2, AnswerSafe, NoEffect

(* A resend within the cooldown, and a request whose database fails.       *)
LEMMA RefusedActions ==
    ASSUME VerificationInv, NEW r \in Requests, ResendLimited(r) \/ Fail(r)
    PROVE  VerificationInv' /\ Effect
<1>1. PICK a \in {"refused", "error"} : Answer(r, a)
  BY DEF ResendLimited, Fail
<1>2. UNCHANGED <<account, holder, code, link, attempts, activations, guesses>>
  BY DEF ResendLimited, Fail, table, history, counts
<1> QED  BY <1>1, <1>2, AnswerQuiet DEF Answers

(* A resend reads the rows it will revoke.                                 *)
LEMMA ResendSelectAction ==
    ASSUME VerificationInv, NEW r \in Requests, ResendSelect(r)
    PROVE  VerificationInv' /\ Effect
<1>1. UNCHANGED <<account, holder, code, link, attempts, activations, guesses>>
  BY DEF ResendSelect, table, history, counts
<1>2. CASE Answer(r, "refused")
  BY <1>1, <1>2, AnswerQuiet DEF Answers
<1>3. CASE /\ \E u \in Requests : seen' = [seen EXCEPT ![r] = Revocable(u, now[r])]
           /\ Goto(r, "selected")
  <2>1. pc[r] = "begun" /\ kind[r] = "resend" /\ arg[r] = None
    BY DEF ResendSelect, VerificationInv, StageInv
  <2>2. seen' \in [Requests -> SUBSET Requests]
    BY SMT, <1>3 DEF VerificationInv, Types, Revocable
  <2> QED  BY <1>1, <1>3, <2>1, <2>2, GotoSafe, NoEffect DEF Flight, Unissued
<1> QED  BY <1>2, <1>3 DEF ResendSelect

(* Bootstrap turns to the mail of its owner.                               *)
LEMMA EnqueueVerificationAction ==
    ASSUME VerificationInv, NEW r \in Requests, EnqueueVerificationEmail(r)
    PROVE  VerificationInv' /\ Effect
<1>0. Types /\ StageInv
  BY DEF VerificationInv
<1>1. /\ UNCHANGED <<account, holder, code, link, attempts, activations, guesses>>
      /\ UNCHANGED <<resp, kind, arg, seen>>
  BY DEF EnqueueVerificationEmail, table, history, counts
<1>2. pc[r] = "owner" /\ pc' = [pc EXCEPT ![r] = "issuing"]
  BY DEF EnqueueVerificationEmail
<1>3. Types'
  BY <1>0, <1>1, <1>2 DEF Types, Flight
<1>4. SameTables
  BY <1>1 DEF SameTables
<1>5. /\ pc'[r] = "issuing" /\ arg[r] = None /\ resp[r] # "ok"
      /\ \A q \in Requests \ {r} : pc'[q] = pc[q]
  BY SMT, <1>0, <1>2 DEF Types, StageInv, Issuing
<1> QED  BY <1>1, <1>2, <1>3, <1>4, <1>5, QuietStep, NoEffect DEF Unissued

(* The job is pushed, or the push fails.                                   *)
LEMMA EnqueueActions ==
    ASSUME VerificationInv, NEW r \in Requests,
           Enqueue(r) \/ (\E landed \in BOOLEAN : EnqueueFails(r, landed))
    PROVE  VerificationInv' /\ Effect
<1>0. Types /\ StageInv
  BY DEF VerificationInv
<1>1. /\ UNCHANGED <<account, holder, code, link, attempts, activations, guesses>>
      /\ pc[r] = "created"
  BY DEF Enqueue, EnqueueFails, table, history, counts
<1>2. arg[r] = None
  BY <1>0, <1>1 DEF StageInv, Issuing
<1>3. CASE \E a \in {"ok", "error"} : Answer(r, a)
  BY <1>1, <1>2, <1>3, AnswerQuiet DEF Answers
<1>4. CASE Goto(r, "undo") /\ UNCHANGED <<seen, saved>>
  <2>1. seen' \in [Requests -> SUBSET Requests]
    BY <1>0, <1>4 DEF Types
  <2> QED  BY <1>1, <1>2, <1>4, <2>1, GotoSafe, NoEffect DEF Flight, Unissued
<1> QED  BY <1>3, <1>4 DEF Enqueue, EnqueueFails

(* A cleanup deletes records, and a rollback restores or discards rows.    *)
LEMMA UndoActions ==
    ASSUME VerificationInv, NEW r \in Requests, CleanupRecords(r) \/ RollbackResend(r)
    PROVE  VerificationInv' /\ Effect
<1>0. Types /\ StageInv
  BY DEF VerificationInv
<1>1. CASE CleanupRecords(r)
  <2>1. UNCHANGED <<account, holder, code, link, attempts, activations, guesses>>
    BY <1>1 DEF CleanupRecords, table, history, counts
  <2>2. pc[r] = "undo" /\ arg[r] = None /\ Goto(r, "undo_user")
    BY <1>0, <1>1 DEF CleanupRecords, StageInv, Issuing
  <2>3. seen' \in [Requests -> SUBSET Requests]
    BY <1>0, <1>1 DEF CleanupRecords, Types
  <2> QED  BY <2>1, <2>2, <2>3, GotoSafe, NoEffect DEF Flight, Unissued
<1>2. CASE RollbackResend(r)
  <2>1. UNCHANGED <<account, holder, attempts, activations, guesses>> /\ Answer(r, "error")
    BY <1>2 DEF RollbackResend, history, counts
  <2>2. /\ code' \in [Requests -> {"none", "open", "used"}] /\ link' \in [Requests -> {"none", "open", "used"}]
        /\ \A i \in Requests : /\ code'[i] = code[i] \/ (code[i] = "open" /\ code'[i] = "none")
                               /\ link'[i] = link[i] \/ (link[i] = "open" /\ link'[i] = "none")
    BY <1>0, <1>2 DEF RollbackResend, Discard, Types
  <2>3. SameTables
    BY <2>1, <2>2 DEF SameTables
  <2> QED  BY <2>1, <2>2, <2>3, AnswerSafe, NoEffect DEF Answers
<1> QED  BY <1>1, <1>2

(* The unlocked reads of the two verifications.                            *)
LEMMA ReadActions ==
    ASSUME VerificationInv, NEW r \in Requests, OtpSnapshot(r) \/ MagicValidate(r)
    PROVE  VerificationInv' /\ Effect
<1>0. Types
  BY DEF VerificationInv
<1>1. UNCHANGED <<account, holder, code, link, attempts, activations, guesses>> /\ pc[r] = "begun"
  BY DEF OtpSnapshot, MagicValidate, table, history, counts
<1>2. CASE OtpSnapshot(r)
  <2>1. kind[r] = "otp" /\ Goto(r, "snapshot")
    BY <1>2 DEF OtpSnapshot
  <2>2. seen' \in [Requests -> SUBSET Requests]
    BY <1>0, <1>2 DEF OtpSnapshot, Types
  <2> QED  BY <1>1, <2>1, <2>2, GotoSafe, NoEffect DEF Flight, Unissued, Issuing
<1>3. CASE \E a \in {"invalid", "expired", "otp_page"} : Answer(r, a)
  BY <1>1, <1>3, AnswerQuiet DEF Answers
<1>4. CASE kind[r] = "magic" /\ Goto(r, "validated") /\ UNCHANGED <<seen, saved>>
  <2>1. seen' \in [Requests -> SUBSET Requests]
    BY <1>0, <1>4 DEF Types
  <2> QED  BY <1>1, <1>4, <2>1, GotoSafe, NoEffect DEF Flight, Unissued, Issuing
<1> QED  BY <1>2, <1>3, <1>4 DEF MagicValidate

(* A request commits the rows it issues for user u, perhaps with u itself. *)
LEMMA IssueSafe ==
    ASSUME VerificationInv, NEW r \in Requests, NEW u \in Requests,
           pc[r] \in Unissued, pc[r] # "idle", arg[r] = None, Issue(r, u), Goto(r, "created"),
           \/ account' = account /\ account[u] \in {"pending", "active"}
           \/ u = r /\ account[r] = "none" /\ account' = [account EXCEPT ![r] = "pending"],
           seen' \in [Requests -> SUBSET Requests], UNCHANGED <<activations, guesses>>
    PROVE  VerificationInv'
<1>0. Types /\ StageInv /\ RowInv /\ CountInv /\ AcceptedOnce
  BY DEF VerificationInv
<1>1. /\ kind' = kind /\ resp' = resp /\ arg' = arg
      /\ pc' \in [Requests -> Flight \cup {"idle", "done"}]
      /\ pc'[r] = "created" /\ \A q \in Requests \ {r} : pc'[q] = pc[q]
  BY <1>0, GotoFacts DEF Flight
<1>2. /\ holder' \in [Requests -> Requests \cup {None}]
      /\ code' \in [Requests -> {"none", "open", "used"}] /\ link' \in [Requests -> {"none", "open", "used"}]
      /\ holder'[r] = u /\ attempts' = attempts
      /\ \A i \in Requests \ {r} : holder'[i] = holder[i] /\ code'[i] = code[i] /\ link'[i] = link[i]
  BY SMT, <1>0 DEF Issue, Types
<1>3. /\ account' \in [Requests -> {"none", "pending", "active", "deleted"}]
      /\ account'[u] \in {"pending", "active"}
      /\ \A q \in Requests : account'[q] = account[q] \/ (q = r /\ account'[q] = "pending")
  BY SMT, <1>0 DEF Types
<1>4. Types'
  BY <1>0, <1>1, <1>2, <1>3 DEF Types
<1>5. StageInv'
  BY SMT, <1>0, <1>1, <1>2, <1>3 DEF StageInv, Unissued, Issuing
<1>6. RowInv'
  <2>1. \A i \in Requests : Open(i)' => holder'[i] \in Requests /\ account'[holder'[i]] \in {"pending", "active"}
    BY SMT, <1>0, <1>2, <1>3 DEF RowInv, Open
  <2>2. \A q \in Requests : arg[q] # None => arg[q] \in Requests \ {r}
    BY SMT, <1>0 DEF Types, StageInv
  <2>3. \A q \in Requests : resp'[q] = "ok" /\ arg'[q] # None =>
          /\ kind'[q] = "otp" => code'[arg'[q]] # "open"
          /\ kind'[q] = "magic" => link'[arg'[q]] # "open"
    BY SMT, <1>0, <1>1, <1>2, <2>2 DEF RowInv
  <2> QED  BY <2>1, <2>3 DEF RowInv
<1>7. CountInv' /\ AcceptedOnce'
  BY SMT, <1>0, <1>1, <1>2 DEF CountInv, AcceptedOnce
<1> QED  BY <1>4, <1>5, <1>6, <1>7 DEF VerificationInv

(* A pending account appears where none holds the address.                 *)
LEMMA CreateEffect ==
    ASSUME NEW r \in Requests, Current = {}, account[r] = "none",
           account' = [account EXCEPT ![r] = "pending"], UNCHANGED activations
    PROVE  Effect
<1>1. Account!Create(r)
  BY DEF Account!Create, Account!Current, Current
<1> QED  BY <1>1 DEF Effect, Account!Next

(* Register's transaction creates the account with its verification.       *)
LEMMA RegisterAction ==
    ASSUME VerificationInv, NEW r \in Requests, RegisterTx(r)
    PROVE  VerificationInv' /\ Effect
<1>0. Types /\ StageInv
  BY DEF VerificationInv
<1>1. UNCHANGED <<activations, guesses>> /\ pc[r] = "begun" /\ kind[r] = "register"
  BY DEF RegisterTx, history, counts
<1>2. arg[r] = None /\ account[r] = "none"
  BY <1>0, <1>1 DEF StageInv
<1>3. CASE Answer(r, "error") /\ UNCHANGED table
  BY <1>1, <1>3, AnswerQuiet DEF table, Answers
<1>4. CASE /\ Current = {} /\ account' = [account EXCEPT ![r] = "pending"]
           /\ Issue(r, r) /\ Goto(r, "created") /\ UNCHANGED <<seen, saved>>
  <2>1. seen' \in [Requests -> SUBSET Requests]
    BY <1>0, <1>4 DEF Types
  <2> QED  BY <1>1, <1>2, <1>4, <2>1, IssueSafe, CreateEffect DEF Unissued
<1> QED  BY <1>3, <1>4 DEF RegisterTx

(* A new owner's account is there before its verification.                 *)
LEMMA OwnerCreated ==
    ASSUME VerificationInv, NEW r \in Requests, pc[r] = "begun", kind[r] = "bootstrap",
           account' = [account EXCEPT ![r] = "pending"], Goto(r, "owner"),
           UNCHANGED <<holder, code, link, attempts, activations, guesses, seen>>
    PROVE  VerificationInv'
<1>0. Types /\ StageInv /\ RowInv /\ CountInv /\ AcceptedOnce
  BY DEF VerificationInv
<1>1. /\ kind' = kind /\ resp' = resp /\ arg' = arg
      /\ pc' \in [Requests -> Flight \cup {"idle", "done"}]
      /\ pc'[r] = "owner" /\ \A q \in Requests \ {r} : pc'[q] = pc[q]
  BY <1>0, GotoFacts DEF Flight
<1>2. /\ account' \in [Requests -> {"none", "pending", "active", "deleted"}]
      /\ account'[r] = "pending" /\ \A q \in Requests \ {r} : account'[q] = account[q]
  BY <1>0 DEF Types
<1>3. Types'
  BY <1>0, <1>1, <1>2 DEF Types
<1>4. StageInv'
  BY SMT, <1>0, <1>1, <1>2 DEF StageInv, Unissued, Issuing
<1>5. RowInv'
  BY <1>0, <1>1, <1>2 DEF RowInv, Open
<1>6. CountInv' /\ AcceptedOnce'
  BY <1>0, <1>1 DEF CountInv, AcceptedOnce
<1> QED  BY <1>3, <1>4, <1>5, <1>6 DEF VerificationInv

(* Bootstrap's transaction.                                                *)
LEMMA BootstrapAction ==
    ASSUME VerificationInv, NEW r \in Requests, BootstrapTx(r)
    PROVE  VerificationInv' /\ Effect
<1>1. /\ UNCHANGED <<holder, code, link, attempts, activations, guesses>>
      /\ pc[r] = "begun" /\ kind[r] = "bootstrap"
  BY DEF BootstrapTx, counts
<1>2. arg[r] = None /\ account[r] = "none"
  BY <1>1 DEF VerificationInv, StageInv
<1>3. CASE (\E a \in {"ok", "refused"} : Answer(r, a)) /\ UNCHANGED account
  BY <1>1, <1>2, <1>3, AnswerQuiet DEF Answers
<1>4. CASE /\ Current = {} /\ account' = [account EXCEPT ![r] = "pending"]
           /\ Goto(r, "owner") /\ UNCHANGED <<seen, saved>>
  BY <1>1, <1>2, <1>4, OwnerCreated, CreateEffect
<1> QED  BY <1>3, <1>4 DEF BootstrapTx

(* Bootstrap and a resend issue a verification for an account that exists. *)
LEMMA ReissueActions ==
    ASSUME VerificationInv, NEW r \in Requests, CreateVerification(r) \/ ResendTx(r)
    PROVE  VerificationInv' /\ Effect
<1>0. Types /\ StageInv
  BY DEF VerificationInv
<1>1. UNCHANGED <<account, activations, guesses>> /\ pc[r] \in {"issuing", "selected"} /\ Goto(r, "created")
  BY DEF CreateVerification, ResendTx, history, counts
<1>2. arg[r] = None
  BY <1>0, <1>1 DEF StageInv, Issuing
<1>3. seen' \in [Requests -> SUBSET Requests]
  BY SMT, <1>0 DEF CreateVerification, ResendTx, Types
<1>4. PICK u \in Requests : account[u] \in {"pending", "active"} /\ Issue(r, u)
  BY <1>0 DEF CreateVerification, ResendTx, StageInv
<1> QED  BY <1>1, <1>2, <1>3, <1>4, IssueSafe, NoEffect DEF Unissued

(* A cleanup drops a pending account with all its verifications.           *)
LEMMA CleanupAction ==
    ASSUME VerificationInv, NEW r \in Requests, CleanupUser(r)
    PROVE  VerificationInv' /\ Effect
<1>0. Types /\ StageInv /\ RowInv /\ CountInv /\ AcceptedOnce
  BY DEF VerificationInv
<1>1. /\ UNCHANGED <<activations, guesses>> /\ pc[r] = "undo_user" /\ Answer(r, "error")
      /\ "error" \in Answers
  BY DEF CleanupUser, history, counts, Answers
<1>2. CASE UNCHANGED table
  <2>1. UNCHANGED <<account, holder, code, link, attempts>>
    BY <1>2 DEF table
  <2>2. SameTables
    BY <1>1, <2>1 DEF SameTables
  <2>3. code' \in [Requests -> {"none", "open", "used"}] /\ link' \in [Requests -> {"none", "open", "used"}]
    BY <1>0, <2>1 DEF Types
  <2> QED  BY <1>1, <2>1, <2>2, <2>3, AnswerSafe, NoEffect
<1>3. CASE /\ Removable(r) /\ account' = [account EXCEPT ![r] = "deleted"]
           /\ Delete({i \in Requests : holder[i] = r})
           /\ holder' = [i \in Requests |-> IF holder[i] = r THEN None ELSE holder[i]]
           /\ UNCHANGED attempts
  <2>1. /\ pc'[r] = "done" /\ resp'[r] = "error" /\ kind'[r] = "none" /\ arg'[r] = None
        /\ \A q \in Requests \ {r} :
              pc'[q] = pc[q] /\ resp'[q] = resp[q] /\ kind'[q] = kind[q] /\ arg'[q] = arg[q]
    BY <1>0, <1>1, AnswerFacts
  <2>2. /\ account' \in [Requests -> {"none", "pending", "active", "deleted"}]
        /\ \A q \in Requests \ {r} : account'[q] = account[q]
    BY <1>0, <1>3 DEF Types
  <2>3. /\ holder' \in [Requests -> Requests \cup {None}]
        /\ code' \in [Requests -> {"none", "open", "used"}] /\ link' \in [Requests -> {"none", "open", "used"}]
        /\ \A i \in Requests : holder[i] = r => holder'[i] = None /\ code'[i] = "none" /\ link'[i] = "none"
        /\ \A i \in Requests : holder[i] # r => holder'[i] = holder[i] /\ code'[i] = code[i] /\ link'[i] = link[i]
    BY <1>0, <1>3 DEF Types, Delete
  <2>4. Types'
    BY <1>0, <1>1, <1>3, <2>2, <2>3, AnswerFacts DEF Types
  <2>5. StageInv'
    <3>1. \A q \in Requests : pc'[q] \in Unissued => q # r /\ pc[q] \in Unissued
      BY <2>1 DEF Unissued
    <3>2. \A q \in Requests : pc'[q] \in Unissued =>
             holder'[q] = None /\ code'[q] = "none" /\ link'[q] = "none"
      BY SMT, <1>0, <2>3, <3>1, VerificationAssumption DEF VerificationAssumption, StageInv
    <3>3. \A q, p \in Requests : pc'[q] \in Unissued => arg'[p] # q
      BY SMT, <1>0, <2>1, <3>1, VerificationAssumption DEF VerificationAssumption, StageInv
    <3> QED  BY SMT, <1>0, <2>1, <2>2, <3>2, <3>3 DEF StageInv, Issuing
  <2>6. RowInv'
    <3>1. \A i \in Requests : Open(i)' => holder'[i] \in Requests /\ account'[holder'[i]] \in {"pending", "active"}
      BY SMT, <1>0, <2>2, <2>3 DEF RowInv, Open
    <3>2. \A q \in Requests : arg[q] # None => arg[q] \in Requests
      BY <1>0 DEF Types
    <3>3. \A i \in Requests : (code'[i] = "open" => code[i] = "open") /\ (link'[i] = "open" => link[i] = "open")
      BY <2>3
    <3> QED  BY SMT, <1>0, <2>1, <3>1, <3>2, <3>3 DEF RowInv
  <2>7. CountInv' /\ AcceptedOnce'
    BY SMT, <1>0, <1>1, <1>3, <2>1 DEF CountInv, AcceptedOnce
  <2>8. Account!Drop(r)
    BY <1>1, <1>3 DEF Account!Drop, Removable
  <2> QED  BY <2>4, <2>5, <2>6, <2>7, <2>8 DEF VerificationInv, Effect, Account!Next
<1> QED  BY <1>2, <1>3 DEF CleanupUser

(* A code or a link is accepted: its row closes, and its account, which is *)
(* pending or active, is activated at most once.                           *)
LEMMA AcceptSafe ==
    ASSUME VerificationInv, NEW r \in Requests, NEW i \in Requests, arg[r] = i, pc[r] # "done",
           Activate(holder[i]), Answer(r, "ok"), UNCHANGED <<holder, attempts, guesses>>,
           \/ /\ kind[r] = "otp" /\ code[i] = "open"
              /\ code' = [code EXCEPT ![i] = "used"] /\ link' = link
           \/ /\ kind[r] = "magic" /\ link[i] = "open"
              /\ link' = [link EXCEPT ![i] = "used"] /\ code' = code
    PROVE  VerificationInv' /\ Effect
<1>0. Types /\ StageInv /\ RowInv /\ CountInv /\ AcceptedOnce /\ "ok" \in Answers
  BY DEF VerificationInv, Answers
<1>1. holder[i] \in Requests /\ account[holder[i]] \in {"pending", "active"}
  BY <1>0 DEF RowInv, Open
<1>2. /\ pc'[r] = "done" /\ resp'[r] = "ok" /\ kind'[r] = kind[r] /\ arg'[r] = i
      /\ \A q \in Requests \ {r} :
            pc'[q] = pc[q] /\ resp'[q] = resp[q] /\ kind'[q] = kind[q] /\ arg'[q] = arg[q]
  BY <1>0, AnswerFacts
<1>3. /\ account' \in [Requests -> {"none", "pending", "active", "deleted"}]
      /\ account'[holder[i]] = "active" /\ \A q \in Requests \ {holder[i]} : account'[q] = account[q]
  BY SMT, <1>0, <1>1 DEF Types, Activate
<1>4. activations' \in [Requests -> Nat]
  <2>1. activations[holder[i]] + (IF account[holder[i]] = "pending" THEN 1 ELSE 0) \in Nat
    BY SMT, <1>0, <1>1 DEF Types
  <2> QED  BY <1>0, <2>1 DEF Types, Activate
<1>5. /\ code' \in [Requests -> {"none", "open", "used"}] /\ link' \in [Requests -> {"none", "open", "used"}]
      /\ \A j \in Requests : (code'[j] = "open" => code[j] = "open") /\ (link'[j] = "open" => link[j] = "open")
      /\ \A j \in Requests \ {i} : code'[j] = code[j] /\ link'[j] = link[j]
      /\ kind[r] = "otp" => code'[i] = "used"
      /\ kind[r] = "magic" => link'[i] = "used"
  BY SMT, <1>0 DEF Types
<1>6. Types'
  BY <1>0, <1>3, <1>4, <1>5, AnswerFacts DEF Types
<1>7. StageInv'
  <2>1. \A q \in Requests : pc'[q] \in Unissued => q # r /\ q # i /\ pc[q] \in Unissued
    BY SMT, <1>0, <1>2 DEF Unissued, StageInv
  <2>2. \A q, p \in Requests : pc'[q] \in Unissued => arg'[p] # q
    BY SMT, <1>0, <1>2, <2>1 DEF StageInv
  <2>3. \A q \in Requests : pc'[q] \in {"idle", "begun"} => account'[q] = "none"
    BY SMT, <1>0, <1>1, <1>2, <1>3 DEF StageInv
  <2>4. \A q \in Requests : pc'[q] \in {"owner", "issuing"} => account'[q] \in {"pending", "active"}
    BY SMT, <1>0, <1>2, <1>3 DEF StageInv
  <2>5. \A q \in Requests : pc'[q] \in Unissued => holder'[q] = None /\ code'[q] = "none" /\ link'[q] = "none"
    BY SMT, <1>0, <1>5, <2>1 DEF StageInv
  <2>6. i # None /\ kind[r] \in {"otp", "magic"}
    BY VerificationAssumption DEF VerificationAssumption
  <2> QED  BY SMT, <1>0, <1>2, <2>2, <2>3, <2>4, <2>5, <2>6 DEF StageInv, Issuing
<1>8. RowInv'
  <2>1. \A j \in Requests : Open(j)' => holder'[j] \in Requests /\ account'[holder'[j]] \in {"pending", "active"}
    BY SMT, <1>0, <1>3, <1>5 DEF RowInv, Open
  <2>2. \A q \in Requests : arg[q] # None => arg[q] \in Requests
    BY <1>0 DEF Types
  <2>3. \A q \in Requests : resp'[q] = "ok" /\ arg'[q] # None =>
          /\ kind'[q] = "otp" => code'[arg'[q]] # "open"
          /\ kind'[q] = "magic" => link'[arg'[q]] # "open"
    BY SMT, <1>0, <1>2, <1>5, <2>2 DEF RowInv
  <2> QED  BY <2>1, <2>3 DEF RowInv
<1>9. AcceptedOnce'
  <2>1. \A q \in Requests \ {r} : resp[q] = "ok" /\ arg[q] = i => kind[q] # kind[r]
    BY SMT, <1>0, VerificationAssumption DEF VerificationAssumption, RowInv
  <2> QED  BY SMT, <1>0, <1>2, <2>1 DEF AcceptedOnce
<1>10. CountInv'
  BY <1>0 DEF CountInv
<1>11. Effect
  <2>1. CASE account[holder[i]] = "pending"
    <3>1. Account!Activate(holder[i])
      BY <1>0, <1>1, <2>1 DEF Account!Activate, Activate, Types
    <3> QED  BY <1>1, <3>1 DEF Effect, Account!Next
  <2>2. CASE account[holder[i]] = "active"
    <3>1. account' = account
      BY SMT, <1>0, <1>1, <2>2 DEF Activate, Types
    <3>2. activations' = activations
      BY SMT, <1>0, <1>1, <2>2 DEF Activate, Types
    <3> QED  BY <3>1, <3>2, NoEffect
  <2> QED  BY <1>1, <2>1, <2>2
<1> QED  BY <1>6, <1>7, <1>8, <1>9, <1>10, <1>11 DEF VerificationInv

(* A wrong code is counted while the row is not locked out.                *)
LEMMA WrongSafe ==
    ASSUME VerificationInv, NEW r \in Requests, NEW i \in Requests, ~LockedOut(i), OtpWrong(r, i)
    PROVE  VerificationInv' /\ Effect
<1>0. Types /\ StageInv /\ RowInv /\ CountInv /\ AcceptedOnce /\ MaxAttempts \in Nat
  BY VerificationAssumption DEF VerificationAssumption, VerificationInv
<1>1. PICK a \in {"too_many", "invalid"} : Answer(r, a)
  BY DEF OtpWrong
<1>2. UNCHANGED <<account, holder, code, link, activations>>
  BY DEF OtpWrong
<1>3. /\ pc'[r] = "done" /\ resp'[r] = a /\ kind'[r] = "none" /\ arg'[r] = None
      /\ \A q \in Requests \ {r} :
            pc'[q] = pc[q] /\ resp'[q] = resp[q] /\ kind'[q] = kind[q] /\ arg'[q] = arg[q]
  BY <1>0, <1>1, AnswerFacts DEF Answers
<1>4. /\ attempts' = [attempts EXCEPT ![i] = attempts[i] + 1] /\ guesses' = [guesses EXCEPT ![i] = guesses[i] + 1]
      /\ attempts[i] \in Nat /\ guesses[i] \in Nat /\ attempts[i] <= MaxAttempts
  BY SMT, <1>0 DEF OtpWrong, LockedOut, Types
<1>5. Types'
  <2>1. attempts' \in [Requests -> Nat] /\ guesses' \in [Requests -> Nat]
    BY SMT, <1>0, <1>4 DEF Types
  <2> QED  BY SMT, <1>0, <1>1, <1>2, <2>1, AnswerFacts DEF Types, Answers
<1>6. CountInv'
  <2>1. \A j \in Requests : attempts[j] \in Nat /\ guesses[j] \in Nat
    BY <1>0 DEF Types
  <2>2. /\ attempts'[i] = attempts[i] + 1 /\ guesses'[i] = guesses[i] + 1
        /\ \A j \in Requests \ {i} : attempts'[j] = attempts[j] /\ guesses'[j] = guesses[j]
    BY <1>0, <1>4 DEF Types
  <2> QED  BY SMT, <1>0, <1>4, <2>1, <2>2 DEF CountInv
<1>7. StageInv'
  <2>1. \A q \in Requests : pc'[q] \in Unissued => q # r /\ pc[q] \in Unissued
    BY SMT, <1>3 DEF Unissued
  <2>2. \A q, p \in Requests : pc'[q] \in Unissued => arg'[p] # q
    BY SMT, <1>0, <1>3, <2>1, VerificationAssumption DEF VerificationAssumption, StageInv
  <2> QED  BY SMT, <1>0, <1>2, <1>3, <2>2 DEF StageInv, Unissued, Issuing
<1>8. RowInv' /\ AcceptedOnce'
  BY SMT, <1>0, <1>2, <1>3 DEF RowInv, Open, AcceptedOnce
<1> QED  BY <1>2, <1>5, <1>6, <1>7, <1>8, NoEffect DEF VerificationInv

(* The OTP transaction refuses, counts a wrong code or accepts.            *)
LEMMA OtpAction ==
    ASSUME VerificationInv, NEW r \in Requests, OtpDecide(r)
    PROVE  VerificationInv' /\ Effect
<1>0. Types /\ StageInv
  BY DEF VerificationInv
<1>1. pc[r] = "snapshot" /\ kind[r] = "otp"
  BY <1>0 DEF OtpDecide, StageInv
<1>2. ASSUME NEW a \in {"invalid", "too_many", "expired"}, OtpRefused(r, a)
      PROVE  VerificationInv' /\ Effect
  BY <1>2, AnswerQuiet DEF OtpRefused, table, Answers
<1>3. ASSUME NEW i \in Requests, ~LockedOut(i), OtpWrong(r, i) PROVE VerificationInv' /\ Effect
  BY <1>3, WrongSafe
<1>4. ASSUME NEW i \in Requests, arg[r] = i, code[i] = "open", OtpRight(r, i)
      PROVE  VerificationInv' /\ Effect
  BY <1>1, <1>4, AcceptSafe DEF OtpRight
<1>5. \/ \E a \in {"invalid", "too_many", "expired"} : OtpRefused(r, a)
      \/ \E i \in Requests : ~LockedOut(i) /\ OtpWrong(r, i)
      \/ \E i \in Requests : arg[r] = i /\ code[i] = "open" /\ OtpRight(r, i)
  <2>1. \A i \in Newest({j \in seen[r] : code[j] = "open"}) : i \in Requests /\ code[i] = "open"
    BY <1>0 DEF Newest, Types
  <2> QED  BY <2>1 DEF OtpDecide
<1> QED  BY <1>2, <1>3, <1>4, <1>5

(* The transaction of a link refuses or accepts.                           *)
LEMMA MagicAction ==
    ASSUME VerificationInv, NEW r \in Requests, MagicDecide(r)
    PROVE  VerificationInv' /\ Effect
<1>1. pc[r] = "validated" /\ kind[r] = "magic" /\ UNCHANGED guesses
  BY DEF MagicDecide, VerificationInv, StageInv
<1>2. CASE (\E a \in {"invalid", "expired"} : Answer(r, a)) /\ UNCHANGED <<table, activations>>
  BY <1>1, <1>2, AnswerQuiet DEF table, Answers
<1>3. CASE /\ LinkOpen(arg[r]) /\ link' = [link EXCEPT ![arg[r]] = "used"]
           /\ Activate(holder[arg[r]]) /\ Answer(r, "ok")
           /\ UNCHANGED <<holder, code, exp, created, attempts, record>>
  <2>1. arg[r] \in Requests /\ link[arg[r]] = "open"
    BY <1>3 DEF LinkOpen, VerificationInv, Types
  <2> QED  BY <1>1, <1>3, <2>1, AcceptSafe
<1> QED  BY <1>2, <1>3 DEF MagicDecide

(* Every step keeps the invariant and is a step of the life cycle or none. *)
LEMMA StepSafe == VerificationInv /\ [Next]_vars => VerificationInv' /\ Effect
<1> SUFFICES ASSUME VerificationInv, [Next]_vars PROVE VerificationInv' /\ Effect
  OBVIOUS
<1>1. CASE Tick \/ UNCHANGED vars
  <2>1. UNCHANGED <<table, pc, resp, kind, arg, seen, activations, guesses>>
    BY <1>1 DEF Tick, vars, locals, history, counts
  <2>2. UNCHANGED <<account, holder, code, link, attempts>>
    BY <2>1 DEF table
  <2>3. Types' /\ CountInv' /\ AcceptedOnce'
    BY <2>1, <2>2 DEF VerificationInv, Types, CountInv, AcceptedOnce
  <2>4. StageInv' /\ RowInv'
    BY SMT, <2>1, <2>2 DEF VerificationInv, StageInv, RowInv, Open
  <2> QED  BY <2>1, <2>2, <2>3, <2>4, NoEffect DEF VerificationInv
<1>2. ASSUME NEW r \in Requests, NEW k \in Kinds, NEW a \in Known, Begin(r, k, a),
             k \notin {"otp", "magic"} => a = None
      PROVE  VerificationInv' /\ Effect
  <2>1. UNCHANGED <<account, activations>>
    BY <1>2 DEF Begin, table
  <2> QED  BY <1>2, <2>1, BeginSafe, NoEffect
<1>3. ASSUME NEW r \in Requests, RegisterBegin(r) \/ BootstrapBegin(r) \/ ResendBegin(r)
      PROVE  VerificationInv' /\ Effect
  <2>1. None \in Known /\ {"register", "bootstrap", "resend"} \subseteq Kinds
    BY DEF Known, Kinds
  <2> QED  BY <1>2, <1>3, <2>1 DEF RegisterBegin, BootstrapBegin, ResendBegin
<1>4. ASSUME NEW r \in Requests, NEW a \in Known, VerifyEmailBegin(r, a) \/ VerifyMagicLinkBegin(r, a)
      PROVE  VerificationInv' /\ Effect
  BY <1>2, <1>4 DEF VerifyEmailBegin, VerifyMagicLinkBegin, Kinds
<1> QED  BY <1>1, <1>3, <1>4, RefusedActions, ResendSelectAction, EnqueueVerificationAction,
            EnqueueActions, UndoActions, ReadActions, RegisterAction, BootstrapAction, ReissueActions,
            CleanupAction, OtpAction, MagicAction DEF Next

(* The invariant holds in every reachable state.                           *)
THEOREM Invariance == Spec => []VerificationInv
<1>1. Init => VerificationInv
  <2> SUFFICES ASSUME Init PROVE VerificationInv
    OBVIOUS
  <2>1. Types
    BY DEF Init, Types, Answers
  <2>2. StageInv
    BY VerificationAssumption DEF VerificationAssumption, Init, StageInv, Issuing
  <2>3. RowInv /\ AcceptedOnce
    BY DEF Init, RowInv, Open, AcceptedOnce
  <2>4. CountInv
    BY SMT, VerificationAssumption DEF VerificationAssumption, Init, CountInv
  <2> QED  BY <2>1, <2>2, <2>3, <2>4 DEF VerificationInv
<1> QED  BY <1>1, StepSafe, PTL DEF Spec

(* However many registrations, bootstraps, resends, verifications and      *)
(* cleanups race, the users table keeps the promised life cycle.           *)
THEOREM ImplementsAccount == Spec => AccountContract
<1>1. Init => Account!Init
  <2> SUFFICES ASSUME Init PROVE Account!Init
    OBVIOUS
  <2>1. Account!Current = {}
    BY DEF Init, Account!Current
  <2> QED  BY <2>1 DEF Init, Account!Init
<1>2. VerificationInv /\ [Next]_vars => [Account!Next]_(Account!vars)
  BY StepSafe DEF Effect
<1> QED  BY <1>1, <1>2, Invariance, PTL DEF Spec, AccountContract, Account!Spec

(* No code and no link is accepted twice.                                  *)
THEOREM OnceAccepted == Spec => []AcceptedOnce
<1>1. VerificationInv => AcceptedOnce
  BY DEF VerificationInv
<1> QED  BY <1>1, Invariance, PTL

(* No OTP row is compared with more than MaxAttempts + 1 wrong codes.      *)
THEOREM GuessesStayBounded == Spec => []GuessesBounded
<1>1. VerificationInv => GuessesBounded
  <2> SUFFICES ASSUME VerificationInv, NEW i \in Requests PROVE guesses[i] <= MaxAttempts + 1
    BY DEF GuessesBounded
  <2>1. guesses[i] \in Nat /\ attempts[i] \in Nat /\ MaxAttempts \in Nat
    BY VerificationAssumption DEF VerificationAssumption, VerificationInv, Types
  <2> QED  BY SMT, <2>1 DEF VerificationInv, CountInv
<1> QED  BY <1>1, Invariance, PTL

-----------------------------------------------------------------------------
(* A set of naturals with an upper bound has a largest element.            *)
LEMMA MaxFacts ==
    ASSUME NEW S, S \subseteq Nat, S # {}, NEW n \in Nat, \A x \in S : x <= n
    PROVE  Max(S) \in S /\ \A y \in S : y <= Max(S)
<1> DEFINE T == {k \in Nat : \A x \in S : x <= k}
<1>1. T \subseteq Nat /\ T # {}
  OBVIOUS
<1>2. PICK k \in T : \A y \in T : ~(<<y, k>> \in OpToRel(<, Nat))
  <2> HIDE DEF T
  <2> QED  BY <1>1, WFMin, NatLessThanWellFounded
<1>3. \A y \in T : ~(y < k)
  <2>1. \A y \in Nat : y < k => <<y, k>> \in OpToRel(<, Nat)
    BY SMT DEF OpToRel
  <2> QED  BY <1>2, <2>1
<1>4. k \in S
  <2> SUFFICES ASSUME k \notin S PROVE FALSE
    OBVIOUS
  <2>1. \A x \in S : x \in Nat /\ x <= k /\ x # k
    OBVIOUS
  <2>2. PICK x \in S : TRUE
    OBVIOUS
  <2>3. k - 1 \in Nat /\ \A y \in S : y <= k - 1
    BY SMT, <2>1, <2>2
  <2>4. k - 1 \in T /\ k - 1 < k
    BY SMT, <2>3
  <2> QED  BY <1>3, <2>4
<1>5. \A y \in S : k >= y
  BY SMT
<1>6. Max(S) \in S /\ \A y \in S : Max(S) >= y
  BY <1>4, <1>5 DEF Max
<1> QED  BY SMT, <1>6

-----------------------------------------------------------------------------
(* Clocks, transaction times and records.                                  *)

TableTypes ==
    /\ clock \in 0..MaxTime
    /\ exp \in [Requests -> Nat] /\ created \in [Requests -> Nat]
    /\ record \in [Requests -> BOOLEAN]
    /\ pushed \subseteq Requests /\ coolUntil \in Nat
    /\ now \in [Requests -> 0..MaxTime] /\ stamp \in [Requests -> Nat]
    /\ saved \in [Requests -> [Requests -> Nat]]
    /\ revoked \subseteq Requests /\ stale \in [Requests -> BOOLEAN] /\ owners \subseteq Requests

(* No clock runs backwards, and the transaction times have a latest one.   *)
TimeInv ==
    /\ \A r \in Requests : now[r] <= clock
    /\ \E n \in Nat : \A r \in Requests : stamp[r] <= n /\ created[r] <= n

(* A request that issues has a transaction time from its begin on, and     *)
(* what it issued has it as created_at; every record was issued.           *)
RecordInv ==
    \A r \in Requests :
        /\ pc[r] \in Unissued => created[r] = 0
        /\ pc[r] = "begun" /\ kind[r] \in {"register", "resend"} => stamp[r] # 0
        /\ pc[r] \in {"issuing", "selected"} => stamp[r] # 0
        /\ pc[r] \in {"created", "undo", "undo_user"} => created[r] # 0
        /\ record[r] => created[r] # 0

TableInv == TableTypes /\ TimeInv /\ RecordInv

(* The next transaction time is later than all the others.                 *)
LEMMA LatestFacts ==
    ASSUME TableInv, NEW q \in Requests
    PROVE  Latest \in Nat /\ \A r \in Requests : stamp[r] <= Latest /\ created[r] <= Latest
<1> DEFINE S == {stamp[r] : r \in Requests} \cup {created[r] : r \in Requests}
<1>1. PICK n \in Nat : \A r \in Requests : stamp[r] <= n /\ created[r] <= n
  BY DEF TableInv, TimeInv
<1>2. S \subseteq Nat
  <2>1. \A r \in Requests : stamp[r] \in Nat /\ created[r] \in Nat
    BY DEF TableInv, TableTypes
  <2> QED  BY <2>1
<1>3. S # {} /\ \A x \in S : x <= n
  BY <1>1
<1>4. \A r \in Requests : stamp[r] \in S /\ created[r] \in S
  OBVIOUS
<1> HIDE DEF S
<1>5. Max(S) \in S /\ \A y \in S : y <= Max(S)
  BY <1>2, <1>3, MaxFacts
<1>6. Latest = Max(S)
  BY DEF Latest, S
<1> QED  BY <1>2, <1>4, <1>5, <1>6

(* Times are set to the next one, copied from stamp to created, or reset.  *)
LEMMA TimesBounded ==
    ASSUME TableInv, NEW q \in Requests,
           \A r \in Requests : stamp'[r] \in {stamp[r], 0, Latest + 1} /\ created'[r] \in {created[r], stamp[r]}
    PROVE  \E n \in Nat : \A r \in Requests : stamp'[r] <= n /\ created'[r] <= n
<1>1. Latest \in Nat /\ \A r \in Requests : stamp[r] <= Latest /\ created[r] <= Latest
  BY LatestFacts
<1>2. \A r \in Requests : stamp[r] \in Nat /\ created[r] \in Nat
  BY DEF TableInv, TableTypes
<1>3. Latest + 1 \in Nat
  BY SMT, <1>1
<1>4. \A r \in Requests : stamp'[r] <= Latest + 1 /\ created'[r] <= Latest + 1
  BY SMT, <1>1, <1>2
<1> QED  BY <1>3, <1>4

(* A step of one request that creates no record but, perhaps, its own.     *)
LEMMA TableStep ==
    ASSUME TableInv, TableTypes', NEW r \in Requests, clock' = clock,
           \A q \in Requests \ {r} : /\ pc'[q] = pc[q] /\ kind'[q] = kind[q] /\ now'[q] = now[q]
                                     /\ stamp'[q] = stamp[q] /\ created'[q] = created[q],
           stamp'[r] \in {stamp[r], 0, Latest + 1}, created'[r] \in {created[r], stamp[r]},
           now'[r] <= clock,
           pc'[r] \in Unissued => pc[r] \in Unissued /\ created'[r] = created[r],
           pc'[r] = "begun" /\ kind'[r] \in {"register", "resend"} => stamp'[r] # 0,
           pc'[r] \in {"issuing", "selected"} => stamp'[r] # 0,
           pc'[r] \in {"created", "undo", "undo_user"} => created'[r] # 0,
           \A i \in Requests \ {r} : record'[i] => record[i],
           record'[r] => created'[r] # 0
    PROVE  TableInv'
<1>1. TimeInv'
  <2>1. \A q \in Requests : now'[q] <= clock'
    BY DEF TableInv, TimeInv
  <2>2. \A q \in Requests : stamp'[q] \in {stamp[q], 0, Latest + 1} /\ created'[q] \in {created[q], stamp[q]}
    OBVIOUS
  <2>3. \E n \in Nat : \A q \in Requests : stamp'[q] <= n /\ created'[q] <= n
    BY <2>2, TimesBounded
  <2> QED  BY <2>1, <2>3 DEF TimeInv
<1>2. RecordInv'
  BY SMT DEF TableInv, RecordInv
<1> QED  BY <1>1, <1>2 DEF TableInv

(* What an answer and a change of stage do to the times.                   *)
LEMMA AnswerTimes ==
    ASSUME Types, TableInv, NEW r \in Requests, NEW a \in Answers, Answer(r, a)
    PROVE  /\ now' \in [Requests -> 0..MaxTime] /\ stamp' \in [Requests -> Nat]
           /\ saved' \in [Requests -> [Requests -> Nat]]
           /\ now'[r] = 0 /\ stamp'[r] = 0 /\ \A i \in Requests : saved'[r][i] = 0
           /\ now'[r] <= clock /\ clock \in Nat
           /\ \A q \in Requests \ {r} : now'[q] = now[q] /\ stamp'[q] = stamp[q] /\ saved'[q] = saved[q]
<1>1. /\ now \in [Requests -> 0..MaxTime] /\ stamp \in [Requests -> Nat]
      /\ saved \in [Requests -> [Requests -> Nat]]
      /\ clock \in 0..MaxTime
  BY DEF TableInv, TableTypes
<1>2. 0 \in 0..MaxTime /\ 0 \in Nat /\ clock \in Nat /\ 0 <= clock
  BY SMT, <1>1, VerificationAssumption DEF VerificationAssumption
<1>3. /\ now' = [now EXCEPT ![r] = 0] /\ stamp' = [stamp EXCEPT ![r] = 0]
      /\ saved' = [saved EXCEPT ![r] = [i \in Requests |-> 0]]
  BY DEF Answer
<1>4. now' \in [Requests -> 0..MaxTime] /\ stamp' \in [Requests -> Nat] /\ saved' \in [Requests -> [Requests -> Nat]]
  BY <1>1, <1>2, <1>3
<1> QED  BY <1>1, <1>2, <1>3, <1>4

(* A request is answered: nothing is issued.                               *)
LEMMA AnswerTables ==
    ASSUME Types, TableInv, NEW r \in Requests, NEW a \in Answers, Answer(r, a),
           UNCHANGED <<clock, created, coolUntil, stale, owners>>,
           exp' \in [Requests -> Nat], record' \in [Requests -> BOOLEAN],
           \A i \in Requests : record'[i] => record[i],
           pushed' \subseteq Requests, revoked' \subseteq Requests
    PROVE  TableInv'
<1>1. /\ now' \in [Requests -> 0..MaxTime] /\ stamp' \in [Requests -> Nat]
      /\ saved' \in [Requests -> [Requests -> Nat]]
      /\ now'[r] <= clock /\ stamp'[r] = 0
      /\ \A q \in Requests \ {r} : now'[q] = now[q] /\ stamp'[q] = stamp[q]
  BY AnswerTimes
<1>2. TableTypes'
  BY <1>1 DEF TableInv, TableTypes
<1>3. pc'[r] = "done" /\ \A q \in Requests \ {r} : pc'[q] = pc[q] /\ kind'[q] = kind[q]
  BY AnswerFacts
<1>4. record[r] => created[r] # 0
  BY DEF TableInv, RecordInv
<1> QED  BY <1>1, <1>2, <1>3, <1>4, TableStep DEF Unissued

(* A request goes on to a stage at which it has issued nothing new.        *)
LEMMA GotoTables ==
    ASSUME Types, TableInv, NEW r \in Requests, NEW l \in Flight, Goto(r, l),
           UNCHANGED <<clock, exp, created, record, coolUntil, stale, saved, revoked>>,
           pushed' \subseteq Requests, owners' \subseteq Requests,
           l \in Unissued => pc[r] \in Unissued, l \notin {"begun", "issuing"},
           l = "selected" => pc[r] = "begun" /\ kind[r] = "resend",
           l \in {"created", "undo", "undo_user"} => pc[r] \in {"created", "undo", "undo_user"}
    PROVE  TableInv'
<1>0. TableTypes /\ TimeInv /\ RecordInv
  BY DEF TableInv
<1>1. kind' = kind /\ now' = now /\ stamp' = stamp /\ pc'[r] = l /\ \A q \in Requests \ {r} : pc'[q] = pc[q]
  BY GotoFacts DEF Goto, locals
<1>2. TableTypes'
  BY <1>0, <1>1 DEF TableTypes
<1>3. /\ now'[r] <= clock /\ (record[r] => created[r] # 0)
      /\ l = "selected" => stamp[r] # 0
      /\ l \in {"created", "undo", "undo_user"} => created[r] # 0
  BY <1>0, <1>1 DEF TimeInv, RecordInv
<1> QED  BY <1>1, <1>2, <1>3, TableStep

(* The rows of the outbox, and the steps it allows.                        *)
Rows == {i \in Requests : record[i]}
Issued == {i \in Requests : created[i] # 0}
OutboxStep == [Outbox!Next]_(Outbox!vars)

(* Records that go are withdrawn.                                          *)
LEMMA Withdrawn ==
    ASSUME UNCHANGED <<created, pushed>>, \A i \in Requests : record'[i] => record[i]
    PROVE  OutboxStep
<1> DEFINE gone == Rows \ Rows'
<1>1. Issued' = Issued /\ Rows' = Rows \ gone /\ gone \in SUBSET Rows
  BY DEF Rows, Issued
<1> HIDE DEF gone
<1>2. \E M \in SUBSET Rows : Rows' = Rows \ M /\ Issued' = Issued /\ pushed' = pushed
  BY <1>1
<1>3. Outbox!Next
  BY <1>2 DEF Outbox!Next, Outbox!Withdraw, Rows, Issued
<1> QED  BY <1>3 DEF OutboxStep

(* A job is pushed for a record that was issued.                           *)
LEMMA PushedLater ==
    ASSUME UNCHANGED <<created, record>>, NEW r \in Requests, created[r] # 0,
           pushed' = pushed \cup {r} \/ pushed' = pushed
    PROVE  OutboxStep
<1>1. Rows' = Rows /\ Issued' = Issued /\ r \in Issued
  BY DEF Rows, Issued
<1>2. CASE pushed' = pushed \cup {r}
  <2>1. Outbox!Push(r)
    BY <1>1, <1>2 DEF Outbox!Push, Rows, Issued
  <2> QED  BY <2>1 DEF OutboxStep, Outbox!Next
<1>3. CASE pushed' = pushed
  BY <1>1, <1>3 DEF OutboxStep, Outbox!vars, Rows, Issued
<1> QED  BY <1>2, <1>3

(* Steps that answer a request and issue nothing.                          *)
LEMMA AnswerOutbox ==
    ASSUME Types, TableInv, NEW r \in Requests, NEW a \in Answers, Answer(r, a),
           UNCHANGED <<clock, exp, created, record, coolUntil, stale, owners, pushed, revoked>>
    PROVE  TableInv' /\ OutboxStep
<1>1. /\ exp' \in [Requests -> Nat] /\ record' \in [Requests -> BOOLEAN]
      /\ pushed' \subseteq Requests /\ revoked' \subseteq Requests
      /\ \A i \in Requests : record'[i] => record[i]
  BY DEF TableInv, TableTypes
<1>2. TableInv'
  BY <1>1, AnswerTables
<1> QED  BY <1>1, <1>2, Withdrawn

(* A resend that is refused, and a request that fails.                     *)
LEMMA RefusedTables ==
    ASSUME Types, TableInv, NEW r \in Requests, ResendLimited(r) \/ Fail(r)
    PROVE  TableInv' /\ OutboxStep
<1>1. PICK a \in {"refused", "error"} : Answer(r, a)
  BY DEF ResendLimited, Fail
<1>2. UNCHANGED <<clock, exp, created, record, coolUntil, stale, owners, pushed, revoked>>
  BY DEF ResendLimited, Fail, table, history, counts
<1> QED  BY <1>1, <1>2, AnswerOutbox DEF Answers

(* A request goes on and leaves the records alone.                         *)
LEMMA GotoOutbox ==
    ASSUME Types, TableInv, NEW r \in Requests, NEW l \in Flight, Goto(r, l),
           UNCHANGED <<clock, exp, created, record, coolUntil, stale, saved, revoked, pushed>>,
           owners' \subseteq Requests,
           l \in Unissued => pc[r] \in Unissued, l \notin {"begun", "issuing"},
           l = "selected" => pc[r] = "begun" /\ kind[r] = "resend",
           l \in {"created", "undo", "undo_user"} => pc[r] \in {"created", "undo", "undo_user"}
    PROVE  TableInv' /\ OutboxStep
<1>1. pushed' \subseteq Requests
  BY DEF TableInv, TableTypes
<1>2. TableInv'
  BY <1>1, GotoTables
<1> QED  BY <1>2, Withdrawn

(* The unlocked reads.                                                     *)
LEMMA ReadTables ==
    ASSUME Types, TableInv, NEW r \in Requests,
           ResendSelect(r) \/ CleanupRecords(r) \/ OtpSnapshot(r) \/ MagicValidate(r)
    PROVE  TableInv' /\ OutboxStep
<1>1. UNCHANGED <<clock, exp, created, record, coolUntil, stale, revoked, pushed, owners>>
  BY DEF ResendSelect, CleanupRecords, OtpSnapshot, MagicValidate, table, history, counts
<1>2. CASE \E a \in {"refused", "invalid", "expired", "otp_page"} : Answer(r, a)
  BY <1>1, <1>2, AnswerOutbox DEF Answers
<1>3. CASE /\ \E l \in {"selected", "undo_user", "snapshot", "validated"} :
                 /\ Goto(r, l)
                 /\ l = "selected" => pc[r] = "begun" /\ kind[r] = "resend"
                 /\ l = "undo_user" => pc[r] = "undo"
           /\ UNCHANGED saved
  <2>1. owners' \subseteq Requests
    BY <1>1 DEF TableInv, TableTypes
  <2> QED  BY <1>1, <1>3, <2>1, GotoOutbox DEF Flight, Unissued
<1> QED  BY <1>2, <1>3 DEF ResendSelect, CleanupRecords, OtpSnapshot, MagicValidate

(* The push, and its failure.                                              *)
LEMMA EnqueueTables ==
    ASSUME Types, TableInv, NEW r \in Requests,
           Enqueue(r) \/ (\E landed \in BOOLEAN : EnqueueFails(r, landed))
    PROVE  TableInv' /\ OutboxStep
<1>0. TableTypes /\ RecordInv
  BY DEF TableInv
<1>1. /\ UNCHANGED <<clock, exp, created, record, coolUntil, stale, owners>> /\ pc[r] = "created"
      /\ pushed' = pushed \cup {r} \/ pushed' = pushed
  BY DEF Enqueue, EnqueueFails, table, history, counts
<1>2. created[r] # 0
  BY <1>0, <1>1 DEF RecordInv
<1>3. OutboxStep
  BY <1>1, <1>2, PushedLater
<1>4. /\ exp' \in [Requests -> Nat] /\ record' \in [Requests -> BOOLEAN]
      /\ \A i \in Requests : record'[i] => record[i]
      /\ pushed' \subseteq Requests /\ owners' \subseteq Requests
  BY <1>0, <1>1 DEF TableTypes
<1>5. CASE \E a \in {"ok", "error"} : Answer(r, a)
  <2>1. revoked' \subseteq Requests
    BY <1>0 DEF TableTypes, Types, Enqueue, EnqueueFails, history, counts
  <2> QED  BY <1>1, <1>3, <1>4, <1>5, <2>1, AnswerTables DEF Answers
<1>6. CASE Goto(r, "undo") /\ UNCHANGED <<saved, revoked>>
  BY <1>1, <1>3, <1>4, <1>6, GotoTables DEF Flight, Unissued
<1> QED  BY <1>5, <1>6 DEF Enqueue, EnqueueFails, history, counts

(* The cleanups withdraw records.                                          *)
LEMMA UndoTables ==
    ASSUME Types, TableInv, NEW r \in Requests, CleanupUser(r) \/ RollbackResend(r)
    PROVE  TableInv' /\ OutboxStep
<1>0. TableTypes /\ RecordInv
  BY DEF TableInv
<1>1. Answer(r, "error") /\ UNCHANGED <<clock, created, coolUntil, stale, owners, pushed, revoked>>
  BY DEF CleanupUser, RollbackResend, table, history, counts
<1>2. record' \in [Requests -> BOOLEAN] /\ \A i \in Requests : record'[i] => record[i]
  <2>1. CASE CleanupUser(r)
    BY <1>0, <2>1 DEF CleanupUser, table, TableTypes
  <2>2. CASE RollbackResend(r)
    BY <1>0, <2>2 DEF RollbackResend, TableTypes
  <2> QED  BY <2>1, <2>2
<1>3. exp' \in [Requests -> Nat]
  <2>1. CASE CleanupUser(r)
    BY <1>0, <2>1 DEF CleanupUser, table, TableTypes
  <2>2. CASE RollbackResend(r)
    <3>1. \A i \in Requests : exp[i] \in Nat /\ saved[r][i] \in Nat
      BY <1>0 DEF TableTypes
    <3> QED  BY <2>2, <3>1 DEF RollbackResend
  <2> QED  BY <2>1, <2>2
<1>4. pushed' \subseteq Requests /\ revoked' \subseteq Requests
  BY <1>0, <1>1 DEF TableTypes
<1> QED  BY <1>1, <1>2, <1>3, <1>4, AnswerTables, Withdrawn DEF Answers

(* The transactions of a code and a link.                                  *)
LEMMA DecideTables ==
    ASSUME Types, TableInv, NEW r \in Requests, OtpDecide(r) \/ MagicDecide(r)
    PROVE  TableInv' /\ OutboxStep
<1>1. UNCHANGED <<clock, exp, created, record, coolUntil, stale, owners, pushed, revoked>>
  BY DEF OtpDecide, OtpRefused, OtpWrong, OtpRight, MagicDecide, table
<1>2. PICK a \in {"invalid", "too_many", "expired", "ok"} : Answer(r, a)
  BY DEF OtpDecide, OtpRefused, OtpWrong, OtpRight, MagicDecide
<1> QED  BY <1>1, <1>2, AnswerOutbox DEF Answers

(* A request commits its verification with its record.                     *)
LEMMA IssueTables ==
    ASSUME Types, TableInv, NEW r \in Requests, NEW u, Issue(r, u), Goto(r, "created"),
           \/ pc[r] \in {"issuing", "selected"}
           \/ pc[r] = "begun" /\ kind[r] = "register",
           exp' \in [Requests -> Nat], saved' \in [Requests -> [Requests -> Nat]],
           UNCHANGED <<clock, coolUntil, pushed, revoked, stale, owners>>
    PROVE  TableInv' /\ OutboxStep
<1>0. TableTypes /\ TimeInv /\ RecordInv
  BY DEF TableInv
<1>1. /\ kind' = kind /\ now' = now /\ stamp' = stamp
      /\ pc'[r] = "created" /\ \A q \in Requests \ {r} : pc'[q] = pc[q]
  BY GotoFacts DEF Goto, locals, Flight
<1>2. stamp[r] # 0 /\ created[r] = 0 /\ stamp[r] \in Nat /\ now[r] <= clock
  BY <1>0 DEF RecordInv, TableTypes, TimeInv, Unissued
<1>3. /\ created' \in [Requests -> Nat] /\ record' \in [Requests -> BOOLEAN]
      /\ created'[r] = stamp[r] /\ record'[r]
      /\ \A q \in Requests \ {r} : created'[q] = created[q] /\ record'[q] = record[q]
  BY <1>0, <1>2 DEF Issue, TableTypes
<1>4. TableTypes'
  BY <1>0, <1>1, <1>3 DEF TableTypes
<1>5. TableInv'
  BY <1>1, <1>2, <1>3, <1>4, TableStep DEF Unissued
<1>6. Rows' = Rows \cup {r} /\ Issued' = Issued \cup {r} /\ r \notin Issued
  <2>1. Rows' = Rows \cup {r}
    BY <1>3 DEF Rows
  <2>2. Issued' = Issued \cup {r}
    BY <1>2, <1>3 DEF Issued
  <2> QED  BY <1>2, <2>1, <2>2 DEF Issued
<1>7. Outbox!Issue(r)
  BY <1>6 DEF Outbox!Issue, Rows, Issued
<1> QED  BY <1>5, <1>7 DEF OutboxStep, Outbox!Next

(* The three transactions that issue, and Bootstrap's first one.           *)
LEMMA IssuingTables ==
    ASSUME Types, TableInv, NEW r \in Requests,
           RegisterTx(r) \/ BootstrapTx(r) \/ CreateVerification(r) \/ ResendTx(r)
    PROVE  TableInv' /\ OutboxStep
<1>0. TableTypes /\ TimeInv /\ RecordInv
  BY DEF TableInv
<1>1. \A i \in Requests : exp[i] \in Nat /\ now[i] \in Nat /\ now[i] + TTL \in Nat
  <2>1. \A i \in Requests : exp[i] \in Nat /\ now[i] \in 0..MaxTime
    BY <1>0 DEF TableTypes
  <2> QED  BY SMT, <2>1, VerificationAssumption DEF VerificationAssumption
<1>2. CASE RegisterTx(r)
  <2>1. UNCHANGED <<clock, coolUntil, pushed, revoked, stale, owners>> /\ pc[r] = "begun" /\ kind[r] = "register"
    BY <1>2 DEF RegisterTx, history, counts
  <2>2. CASE Answer(r, "error") /\ UNCHANGED table
    BY <2>1, <2>2, AnswerOutbox DEF table, Answers
  <2>3. CASE /\ exp' = [exp EXCEPT ![r] = now[r] + TTL]
             /\ Issue(r, r) /\ Goto(r, "created") /\ UNCHANGED <<seen, saved>>
    <3>1. exp' \in [Requests -> Nat] /\ saved' \in [Requests -> [Requests -> Nat]]
      BY <1>0, <1>1, <2>3 DEF TableTypes
    <3> QED  BY <2>1, <2>3, <3>1, IssueTables
  <2> QED  BY <1>2, <2>2, <2>3 DEF RegisterTx
<1>3. CASE BootstrapTx(r)
  <2>1. UNCHANGED <<clock, exp, created, record, coolUntil, pushed, revoked, stale>> /\ pc[r] = "begun"
    BY <1>3 DEF BootstrapTx, counts
  <2>2. CASE (\E a \in {"refused", "ok"} : Answer(r, a)) /\ UNCHANGED owners
    BY <2>1, <2>2, AnswerOutbox DEF Answers
  <2>3. CASE owners' = owners \cup {r} /\ Goto(r, "owner") /\ UNCHANGED <<seen, saved>>
    <3>1. owners' \subseteq Requests
      BY <1>0, <2>3 DEF TableTypes
    <3> QED  BY <2>1, <2>3, <3>1, GotoOutbox DEF Flight, Unissued
  <2> QED  BY <1>3, <2>2, <2>3 DEF BootstrapTx
<1>4. CASE CreateVerification(r)
  <2>1. /\ UNCHANGED <<clock, coolUntil, pushed, revoked, stale, owners>> /\ pc[r] = "issuing"
        /\ Issue(r, r) /\ Goto(r, "created")
    BY <1>4 DEF CreateVerification, history, counts
  <2>2. exp' \in [Requests -> Nat] /\ saved' \in [Requests -> [Requests -> Nat]]
    BY <1>0, <1>1, <1>4 DEF CreateVerification, TableTypes
  <2> QED  BY <2>1, <2>2, IssueTables
<1>5. CASE ResendTx(r)
  <2>1. /\ UNCHANGED <<clock, coolUntil, pushed, revoked, stale, owners>> /\ pc[r] = "selected"
        /\ Goto(r, "created")
    BY <1>5 DEF ResendTx, history, counts
  <2>2. PICK u \in Requests :
           LET expired == Revocable(u, now[r]) IN
           /\ saved' = [saved EXCEPT ![r] =
                           [i \in Requests |-> IF i \in seen[r] \cap expired THEN exp[i] ELSE 0]]
           /\ exp' = [i \in Requests |-> IF i = r THEN now[r] + TTL
                                        ELSE IF i \in expired THEN now[r] ELSE exp[i]]
           /\ Issue(r, u)
    BY <1>5 DEF ResendTx
  <2>3. exp' \in [Requests -> Nat]
    BY <1>1, <2>2
  <2>4. saved' \in [Requests -> [Requests -> Nat]]
    <3>1. [i \in Requests |-> IF i \in seen[r] \cap Revocable(u, now[r]) THEN exp[i] ELSE 0] \in [Requests -> Nat]
      BY SMT, <1>1
    <3> QED  BY <1>0, <2>2, <3>1 DEF TableTypes
  <2> QED  BY <2>1, <2>2, <2>3, <2>4, IssueTables
<1> QED  BY <1>2, <1>3, <1>4, <1>5

(* A request begins, and its transaction may be given its time.            *)
LEMMA BeginTables ==
    ASSUME Types, TableInv, NEW r \in Requests, NEW k, NEW a, Begin(r, k, a), coolUntil' \in Nat,
           \/ Stamp(r)
           \/ UNCHANGED stamp /\ k \notin {"register", "resend"}
    PROVE  TableInv' /\ OutboxStep
<1>0. TableTypes /\ TimeInv /\ RecordInv
  BY DEF TableInv
<1>1. /\ UNCHANGED <<clock, exp, created, record, pushed, saved, revoked, owners>>
      /\ pc[r] = "idle" /\ pc' = [pc EXCEPT ![r] = "begun"] /\ kind' = [kind EXCEPT ![r] = k]
      /\ now' = [now EXCEPT ![r] = clock] /\ stale' = [stale EXCEPT ![r] = a \in revoked]
  BY DEF Begin, table
<1>2. Latest + 1 \in Nat /\ Latest + 1 # 0 /\ clock <= clock
  <2>1. Latest \in Nat /\ clock \in Nat
    BY SMT, <1>0, LatestFacts DEF TableTypes
  <2> QED  BY SMT, <2>1
<1>3. /\ stamp' \in [Requests -> Nat] /\ \A q \in Requests \ {r} : stamp'[q] = stamp[q]
      /\ stamp'[r] \in {stamp[r], Latest + 1} /\ (k \in {"register", "resend"} => stamp'[r] # 0)
  BY <1>0, <1>2 DEF Stamp, TableTypes
<1>4. /\ pc'[r] = "begun" /\ kind'[r] = k /\ now'[r] = clock
      /\ \A q \in Requests \ {r} : pc'[q] = pc[q] /\ kind'[q] = kind[q] /\ now'[q] = now[q]
  BY <1>0, <1>1 DEF Types, TableTypes
<1>5. TableTypes'
  <2>1. now' \in [Requests -> 0..MaxTime]
    BY <1>0, <1>1 DEF TableTypes
  <2>2. stale' \in [Requests -> BOOLEAN]
    <3>1. (a \in revoked) \in BOOLEAN
      BY SMT
    <3> QED  BY <1>0, <1>1, <3>1 DEF TableTypes
  <2> QED  BY <1>0, <1>1, <1>3, <2>1, <2>2 DEF TableTypes
<1>6. record[r] => created[r] # 0
  BY <1>0 DEF RecordInv
<1>7. TableInv'
  BY <1>1, <1>2, <1>3, <1>4, <1>5, <1>6, TableStep DEF Unissued
<1> QED  BY <1>1, <1>7, Withdrawn

(* The requests begin.                                                     *)
LEMMA BeginningTables ==
    ASSUME Types, TableInv, NEW r \in Requests,
           \/ RegisterBegin(r) \/ BootstrapBegin(r) \/ ResendBegin(r)
           \/ \E a \in Known : VerifyEmailBegin(r, a) \/ VerifyMagicLinkBegin(r, a)
    PROVE  TableInv' /\ OutboxStep
<1>1. coolUntil' \in Nat
  <2>1. coolUntil \in Nat /\ clock \in 0..MaxTime
    BY DEF TableInv, TableTypes
  <2>2. clock + Window \in Nat
    BY SMT, <2>1, VerificationAssumption DEF VerificationAssumption
  <2> QED  BY <2>1, <2>2 DEF RegisterBegin, BootstrapBegin, ResendBegin, VerifyEmailBegin, VerifyMagicLinkBegin
<1> QED  BY <1>1, BeginTables DEF RegisterBegin, BootstrapBegin, ResendBegin, VerifyEmailBegin, VerifyMagicLinkBegin

(* Bootstrap reads the clock for its verification.                         *)
LEMMA EnqueueVerificationTables ==
    ASSUME Types, TableInv, NEW r \in Requests, EnqueueVerificationEmail(r)
    PROVE  TableInv' /\ OutboxStep
<1>0. TableTypes /\ TimeInv /\ RecordInv
  BY DEF TableInv
<1>1. /\ UNCHANGED <<clock, exp, created, record, pushed, coolUntil, kind, saved, revoked, stale, owners>>
      /\ pc[r] = "owner" /\ pc' = [pc EXCEPT ![r] = "issuing"]
      /\ now' = [now EXCEPT ![r] = clock] /\ stamp' = [stamp EXCEPT ![r] = Latest + 1]
  BY DEF EnqueueVerificationEmail, Stamp, table, history, counts
<1>2. Latest + 1 \in Nat /\ Latest + 1 # 0 /\ clock <= clock
  <2>1. Latest \in Nat /\ clock \in Nat
    BY SMT, <1>0, LatestFacts DEF TableTypes
  <2> QED  BY SMT, <2>1
<1>3. /\ pc'[r] = "issuing" /\ now'[r] = clock /\ stamp'[r] = Latest + 1
      /\ \A q \in Requests \ {r} : pc'[q] = pc[q] /\ now'[q] = now[q] /\ stamp'[q] = stamp[q]
  BY <1>0, <1>1 DEF Types, TableTypes
<1>4. TableTypes'
  BY <1>0, <1>1, <1>2 DEF TableTypes
<1>5. record[r] => created[r] # 0
  BY <1>0 DEF RecordInv
<1>6. TableInv'
  BY <1>1, <1>2, <1>3, <1>4, <1>5, TableStep DEF Unissued
<1> QED  BY <1>1, <1>6, Withdrawn

(* Every step keeps the tables and is a step of the outbox or none.        *)
LEMMA StepTables == Types /\ TableInv /\ [Next]_vars => TableInv' /\ OutboxStep
<1> SUFFICES ASSUME Types, TableInv, [Next]_vars PROVE TableInv' /\ OutboxStep
  OBVIOUS
<1>1. CASE Tick \/ UNCHANGED vars
  <2>1. /\ UNCHANGED <<exp, created, record, pushed, coolUntil, pc, kind, now, stamp, saved, revoked, stale, owners>>
        /\ clock' = clock \/ (clock < MaxTime /\ clock' = clock + 1)
    BY <1>1 DEF Tick, vars, table, locals, history, counts
  <2>2. TableTypes /\ TimeInv /\ RecordInv
    BY DEF TableInv
  <2>3. clock' \in 0..MaxTime /\ \A r \in Requests : now'[r] <= clock'
    <3>1. /\ clock \in 0..MaxTime /\ MaxTime \in Nat
          /\ \A r \in Requests : now'[r] = now[r] /\ now[r] \in 0..MaxTime /\ now[r] <= clock
      BY <2>1, <2>2, VerificationAssumption DEF VerificationAssumption, TableTypes, TimeInv
    <3> QED  BY SMT, <2>1, <3>1
  <2>4. TableTypes'
    BY <2>1, <2>2, <2>3 DEF TableTypes
  <2>5. TimeInv'
    BY <2>1, <2>2, <2>3 DEF TimeInv
  <2>6. RecordInv'
    BY <2>1, <2>2 DEF RecordInv
  <2> QED  BY <2>1, <2>4, <2>5, <2>6, Withdrawn DEF TableInv
<1> QED  BY <1>1, RefusedTables, ReadTables, EnqueueTables, UndoTables, DecideTables, IssuingTables,
            BeginningTables, EnqueueVerificationTables DEF Next

(* The tables are right in every reachable state.                          *)
THEOREM TablesInvariant == Spec => []TableInv
<1>1. Init => TableInv
  <2> SUFFICES ASSUME Init PROVE TableInv
    OBVIOUS
  <2>1. 0 \in 0..MaxTime /\ 0 \in Nat /\ 0 <= 0
    BY SMT, VerificationAssumption DEF VerificationAssumption
  <2>2. TableTypes
    BY <2>1 DEF Init, TableTypes
  <2>3. TimeInv
    BY <2>1 DEF Init, TimeInv
  <2>4. RecordInv
    BY DEF Init, RecordInv
  <2> QED  BY <2>2, <2>3, <2>4 DEF TableInv
<1>2. VerificationInv => Types
  BY DEF VerificationInv
<1> QED  BY <1>1, <1>2, StepTables, Invariance, PTL DEF Spec

(* Every variable keeps its type: the counters and clocks stay natural     *)
(* numbers, and no row is counted past MaxAttempts + 1.                    *)
THEOREM TypeCorrect == Spec => []TypeOK
<1>1. VerificationInv /\ TableInv => TypeOK
  <2> SUFFICES ASSUME VerificationInv, TableInv PROVE TypeOK
    OBVIOUS
  <2>1. attempts \in [Requests -> 0..(MaxAttempts + 1)]
    <3>1. /\ attempts \in [Requests -> Nat] /\ MaxAttempts \in Nat
          /\ \A i \in Requests : attempts[i] <= MaxAttempts + 1
      BY VerificationAssumption DEF VerificationAssumption, VerificationInv, Types, CountInv
    <3>2. \A i \in Requests : attempts[i] \in 0..(MaxAttempts + 1)
      BY SMT, <3>1
    <3> QED  BY <3>1, <3>2
  <2> QED  BY <2>1 DEF TypeOK, VerificationInv, Types, TableInv, TableTypes
<1> QED  BY <1>1, Invariance, TablesInvariant, PTL

(* Whatever registrations, resends, failed pushes, cleanups and crashes    *)
(* interleave, no job is pushed before its record is committed and no      *)
(* record comes back after it was withdrawn.                               *)
THEOREM ImplementsOutbox == Spec => OutboxContract
<1>1. Init => Outbox!Init
  <2> SUFFICES ASSUME Init PROVE Outbox!Init
    OBVIOUS
  <2>1. Rows = {} /\ Issued = {} /\ pushed = {}
    BY DEF Init, Rows, Issued
  <2> QED  BY <2>1 DEF Outbox!Init, Rows, Issued
<1>2. VerificationInv => Types
  BY DEF VerificationInv
<1>3. Types /\ TableInv /\ [Next]_vars => [Outbox!Next]_(Outbox!vars)
  BY StepTables DEF OutboxStep
<1> QED  BY <1>1, <1>2, <1>3, Invariance, TablesInvariant, PTL DEF Spec, OutboxContract, Outbox!Spec

-----------------------------------------------------------------------------
(* Resends, while they are answered before their cooldown is over: one     *)
(* voids the older codes and links, and at most one verification of the    *)
(* address is alive.                                                       *)

(* At most one account holds the address.                                  *)
OneCurrent == \A u, v \in Current : u = v

(* The life cycle keeps it so.                                             *)
LEMMA CurrentKept ==
    ASSUME Types, OneCurrent, Effect
    PROVE  OneCurrent'
<1>1. CASE UNCHANGED <<account, activations>>
  BY <1>1 DEF OneCurrent, Current
<1>2. ASSUME NEW a \in Requests, Account!Create(a) PROVE OneCurrent'
  <2>1. Current = {} /\ account' = [account EXCEPT ![a] = "pending"]
    BY <1>2 DEF Account!Create, Account!Current, Current
  <2>2. \A u \in Requests : u \in Current' => u = a
    BY <2>1 DEF Current, Types
  <2> QED  BY <2>2 DEF OneCurrent, Current
<1>3. ASSUME NEW a \in Requests, Account!Activate(a) \/ Account!Drop(a) PROVE OneCurrent'
  <2>1. /\ account[a] = "pending"
        /\ \E x \in {"active", "deleted"} : account' = [account EXCEPT ![a] = x]
    BY <1>3 DEF Account!Activate, Account!Drop
  <2>2. \A u \in Requests : u \in Current' => u \in Current
    BY <2>1 DEF Current, Types
  <2> QED  BY <2>2 DEF OneCurrent, Current
<1> QED  BY <1>1, <1>2, <1>3 DEF Effect, Account!Next, Account!vars

(* A resend that is in flight.                                             *)
Resending(p) == kind[p] = "resend" /\ pc[p] \in Flight

(* No code or link of the verification is accepted at time t.              *)
Dead(i, t) == Open(i) => exp[i] <= t

(* What a request has read at a stage: only a resend carries rows to its   *)
(* last step.                                                              *)
SeenInv(p) ==
    /\ pc[p] = "selected" => kind[p] = "resend"
    /\ pc[p] \in {"owner", "issuing"} => p \in owners /\ kind[p] = "bootstrap"
    /\ pc[p] \in {"idle", "begun", "owner", "issuing"} => seen[p] = {}
    /\ pc[p] \in {"created", "undo"} /\ kind[p] # "resend" => seen[p] = {}

(* The cooldown admits one resend at a time.  What it saved is of          *)
(* verifications that exist.                                               *)
FlightInv ==
    /\ \A p \in Requests : Resending(p) => now[p] + Window <= coolUntil /\ clock < now[p] + Window
    /\ \A p, q \in Requests : Resending(p) /\ Resending(q) => p = q
    /\ \A p \in Requests : SeenInv(p)
    /\ \A p, i \in Requests : saved[p][i] # 0 => Resending(p) /\ pc[i] \notin Unissued

(* What a successful resend revoked, or is about to, is dead, and a later  *)
(* resend that is undone does not bring it back.                           *)
RevokedInv ==
    /\ \A i \in revoked : pc[i] \notin Unissued /\ Dead(i, clock)
    /\ \A p \in Requests, i \in revoked : Resending(p) => Dead(i, now[p]) /\ saved[p][i] = 0
    /\ \A p \in Requests : kind[p] = "resend" /\ pc[p] = "created" =>
          \A i \in seen[p] : pc[i] \notin Unissued /\ Dead(i, now[p])

(* A request that began with a revoked one compares it with a time at      *)
(* which it was dead.                                                      *)
StaleOf(r) ==
    kind[r] \in {"otp", "magic"} /\ stale[r] =>
        /\ resp[r] # "ok"
        /\ pc[r] \in Flight => arg[r] \in revoked /\ Dead(arg[r], now[r])

StaleInv == \A r \in Requests : StaleOf(r)

(* A verification is alive, or would be again if p were undone.            *)
Live(i) == Open(i) /\ exp[i] > clock
Returns(p, i) == Open(i) /\ saved[p][i] > clock

(* One is alive; one would be in its place; and while there is one that    *)
(* would be, the one alive is that of the resend itself.                   *)
LiveInv ==
    /\ \A i, j \in Requests \ owners : Live(i) /\ Live(j) => i = j
    /\ \A p \in Requests : \A i, j \in Requests \ owners : Returns(p, i) /\ Returns(p, j) => i = j
    /\ \A p \in Requests : \A i, j \in Requests \ owners : Returns(p, i) /\ Live(j) => j = p

ResendInv == OneCurrent /\ FlightInv /\ RevokedInv /\ StaleInv /\ LiveInv

(* A step of request r leaves the other requests alone.                    *)
OnlyOf(r) ==
    \A q \in Requests \ {r} :
        /\ pc'[q] = pc[q] /\ kind'[q] = kind[q] /\ resp'[q] = resp[q] /\ now'[q] = now[q]
        /\ arg'[q] = arg[q] /\ seen'[q] = seen[q] /\ saved'[q] = saved[q] /\ stale'[q] = stale[q]

(* Types of what the argument reads.                                       *)
LEMMA TableFacts ==
    ASSUME TableInv
    PROVE  /\ clock \in Nat /\ coolUntil \in Nat /\ exp \in [Requests -> Nat] /\ now \in [Requests -> Nat]
           /\ saved \in [Requests -> [Requests -> Nat]] /\ stale \in [Requests -> BOOLEAN]
           /\ revoked \subseteq Requests /\ ~(0 > clock) /\ \A r \in Requests : now[r] <= clock
<1>1. /\ clock \in 0..MaxTime /\ now \in [Requests -> 0..MaxTime]
      /\ coolUntil \in Nat /\ exp \in [Requests -> Nat] /\ saved \in [Requests -> [Requests -> Nat]]
      /\ stale \in [Requests -> BOOLEAN] /\ revoked \subseteq Requests /\ \A r \in Requests : now[r] <= clock
  BY DEF TableInv, TableTypes, TimeInv
<1>2. clock \in Nat /\ ~(0 > clock)
  BY SMT, <1>1
<1>3. \A r \in Requests : now[r] \in Nat
  <2>1. \A r \in Requests : now[r] \in 0..MaxTime
    BY <1>1
  <2>2. \A n \in 0..MaxTime : n \in Nat
    BY SMT
  <2> QED  BY <2>1, <2>2
<1> QED  BY <1>1, <1>2, <1>3

(* A request that stays at its stage keeps what it has read.               *)
LEMMA SeenKept ==
    ASSUME NEW p \in Requests, SeenInv(p), pc'[p] = pc[p], kind'[p] = kind[p], seen'[p] = seen[p],
           owners \subseteq owners'
    PROVE  SeenInv(p)'
BY DEF SeenInv

(* A stale request stays one that meets a dead row.                        *)
LEMMA StaleKept ==
    ASSUME NEW q \in Requests, StaleOf(q), kind'[q] = kind[q], resp'[q] = resp[q], now'[q] = now[q],
           arg'[q] = arg[q], stale'[q] = stale[q], pc'[q] \in Flight => pc[q] \in Flight,
           revoked \subseteq Requests, revoked \subseteq revoked',
           \A i \in revoked : Dead(i, now[q]) => (Open(i)' => exp'[i] <= now[q])
    PROVE  StaleOf(q)'
<1>1. ASSUME arg[q] \in revoked, Dead(arg[q], now[q]) PROVE Dead(arg[q], now[q])'
  <2>1. PICK i \in Requests : i = arg[q]
    BY <1>1
  <2>2. Open(i)' => exp'[i] <= now[q]
    BY <1>1, <2>1
  <2> QED  BY <2>1, <2>2 DEF Dead, Open
<1> QED  BY <1>1 DEF StaleOf

(* A step that issues nothing, moves no expiry and revokes nothing.        *)
LEMMA GentleStep ==
    ASSUME Types, TableInv, ResendInv, OneCurrent', NEW r \in Requests, OnlyOf(r),
           UNCHANGED <<clock, exp, coolUntil, revoked>>,
           \A i \in Requests : Open(i)' => Open(i),
           owners \subseteq owners',
           pc'[r] \in Unissued => pc[r] \in Unissued,
           kind'[r] = "resend" /\ pc'[r] \in Flight => Resending(r) /\ now'[r] = now[r] /\ saved'[r] = saved[r],
           ~(kind'[r] = "resend" /\ pc'[r] \in Flight) => \A i \in Requests : saved'[r][i] = 0,
           pc'[r] # "created", SeenInv(r)', StaleOf(r)'
    PROVE  ResendInv'
<1>0. FlightInv /\ RevokedInv /\ StaleInv /\ LiveInv /\ revoked \subseteq Requests /\ ~(0 > clock)
  BY TableFacts DEF ResendInv
<1>1. \A p \in Requests : Resending(p)' => Resending(p) /\ now'[p] = now[p] /\ saved'[p] = saved[p]
  <2> SUFFICES ASSUME NEW p \in Requests, kind'[p] = "resend", pc'[p] \in Flight
               PROVE  Resending(p) /\ now'[p] = now[p] /\ saved'[p] = saved[p]
    BY DEF Resending
  <2>1. CASE p = r
    BY <2>1
  <2>2. CASE p # r
    BY <2>2 DEF OnlyOf, Resending
  <2> QED  BY <2>1, <2>2
<1>2. \A p, i \in Requests : saved'[p][i] = saved[p][i] \/ saved'[p][i] = 0
  BY DEF OnlyOf
<1>3. \A i \in Requests : pc'[i] \in Unissued => pc[i] \in Unissued
  BY DEF OnlyOf
<1>4. FlightInv'
  <2>1. \A p \in Requests : Resending(p)' => now'[p] + Window <= coolUntil' /\ clock' < now'[p] + Window
    BY <1>0, <1>1 DEF FlightInv
  <2>2. \A p, q \in Requests : Resending(p)' /\ Resending(q)' => p = q
    BY <1>0, <1>1 DEF FlightInv
  <2>3. \A p \in Requests : SeenInv(p)'
    <3>1. ASSUME NEW p \in Requests, p # r PROVE SeenInv(p)'
      BY <1>0, <3>1, SeenKept DEF FlightInv, OnlyOf
    <3> QED  BY <3>1
  <2>4. \A p, i \in Requests : saved'[p][i] # 0 => Resending(p)' /\ pc'[i] \notin Unissued
    <3> SUFFICES ASSUME NEW p \in Requests, NEW i \in Requests, saved'[p][i] # 0
                 PROVE  Resending(p)' /\ pc'[i] \notin Unissued
      OBVIOUS
    <3>1. CASE p = r
      <4>1. kind'[r] = "resend" /\ pc'[r] \in Flight /\ saved[r][i] # 0
        BY <3>1
      <4> QED  BY <1>0, <1>3, <3>1, <4>1 DEF FlightInv, Resending
    <3>2. CASE p # r
      <4>1. saved[p][i] # 0 /\ kind'[p] = kind[p] /\ pc'[p] = pc[p]
        BY <3>2 DEF OnlyOf
      <4> QED  BY <1>0, <1>3, <4>1 DEF FlightInv, Resending
    <3> QED  BY <3>1, <3>2
  <2> QED  BY <2>1, <2>2, <2>3, <2>4 DEF FlightInv
<1>5. RevokedInv'
  <2>1. \A i \in revoked' : pc'[i] \notin Unissued /\ (Open(i)' => exp'[i] <= clock')
    BY <1>0, <1>3 DEF RevokedInv, Dead
  <2>2. \A p \in Requests, i \in revoked' : Resending(p)' => (Open(i)' => exp'[i] <= now'[p]) /\ saved'[p][i] = 0
    <3> SUFFICES ASSUME NEW p \in Requests, NEW i \in revoked, Resending(p)'
                 PROVE  (Open(i)' => exp'[i] <= now'[p]) /\ saved'[p][i] = 0
      OBVIOUS
    <3>1. Dead(i, now[p]) /\ saved[p][i] = 0 /\ now'[p] = now[p] /\ saved'[p] = saved[p] /\ i \in Requests
      BY <1>0, <1>1 DEF RevokedInv
    <3> QED  BY <3>1 DEF Dead
  <2>3. \A p \in Requests : kind'[p] = "resend" /\ pc'[p] = "created" =>
          \A i \in seen'[p] : pc'[i] \notin Unissued /\ (Open(i)' => exp'[i] <= now'[p])
    <3> SUFFICES ASSUME NEW p \in Requests, kind'[p] = "resend", pc'[p] = "created", NEW i \in seen'[p]
                 PROVE  pc'[i] \notin Unissued /\ (Open(i)' => exp'[i] <= now'[p])
      OBVIOUS
    <3>1. p # r /\ kind[p] = "resend" /\ pc[p] = "created" /\ i \in seen[p] /\ now'[p] = now[p]
      BY DEF OnlyOf
    <3>2. i \in Requests
      BY <3>1 DEF Types
    <3> QED  BY <1>0, <1>3, <3>1, <3>2 DEF RevokedInv, Dead
  <2> QED  BY <2>1, <2>2, <2>3 DEF RevokedInv, Dead
<1>6. StaleInv'
  <2>1. ASSUME NEW q \in Requests, q # r PROVE StaleOf(q)'
    <3>1. \A i \in revoked : Dead(i, now[q]) => (Open(i)' => exp'[i] <= now[q])
      BY <1>0 DEF Dead
    <3>2. /\ kind'[q] = kind[q] /\ resp'[q] = resp[q] /\ now'[q] = now[q] /\ arg'[q] = arg[q]
          /\ stale'[q] = stale[q] /\ pc'[q] = pc[q] /\ StaleOf(q)
      BY <1>0, <2>1 DEF OnlyOf, StaleInv
    <3> QED  BY <1>0, <3>1, <3>2, StaleKept
  <2> QED  BY <2>1 DEF StaleInv
<1>7. LiveInv'
  <2>1. \A i \in Requests : Live(i)' => Live(i)
    BY DEF Live
  <2>2. \A p, i \in Requests : Returns(p, i)' => Returns(p, i)
    BY <1>0, <1>2 DEF Returns
  <2> QED  BY <1>0, <2>1, <2>2 DEF LiveInv
<1> QED  BY <1>4, <1>5, <1>6, <1>7 DEF ResendInv

(* What an answer leaves of a request.                                     *)
LEMMA AnswerOnly ==
    ASSUME Types, TableInv, NEW r \in Requests, NEW a \in Answers, Answer(r, a), UNCHANGED stale
    PROVE  /\ OnlyOf(r) /\ pc'[r] = "done" /\ resp'[r] = a
           /\ a = "ok" => kind'[r] = kind[r] /\ arg'[r] = arg[r]
           /\ a # "ok" => kind'[r] = "none"
           /\ \A i \in Requests : saved'[r][i] = 0
<1>1. /\ \A i \in Requests : saved'[r][i] = 0
      /\ \A q \in Requests \ {r} : now'[q] = now[q] /\ saved'[q] = saved[q]
  BY AnswerTimes
<1>2. /\ pc'[r] = "done" /\ resp'[r] = a
      /\ a = "ok" => kind'[r] = kind[r] /\ arg'[r] = arg[r]
      /\ a # "ok" => kind'[r] = "none"
      /\ \A q \in Requests \ {r} :
            pc'[q] = pc[q] /\ resp'[q] = resp[q] /\ kind'[q] = kind[q] /\ arg'[q] = arg[q]
  BY AnswerFacts
<1>3. \A q \in Requests \ {r} : seen'[q] = seen[q]
  BY DEF Answer, Types
<1> QED  BY <1>1, <1>2, <1>3 DEF OnlyOf

(* A request is answered; an accepted code or link is not a stale one.     *)
LEMMA AnswerGentle ==
    ASSUME Types, TableInv, ResendInv, OneCurrent', NEW r \in Requests, NEW a \in Answers, Answer(r, a),
           UNCHANGED <<clock, exp, coolUntil, revoked, stale, owners>>,
           \A i \in Requests : Open(i)' => Open(i),
           a = "ok" => kind[r] \notin {"otp", "magic"} \/ ~stale[r]
    PROVE  ResendInv'
<1>1. /\ OnlyOf(r) /\ pc'[r] = "done" /\ resp'[r] = a
      /\ a = "ok" => kind'[r] = kind[r] /\ arg'[r] = arg[r]
      /\ a # "ok" => kind'[r] = "none"
      /\ \A i \in Requests : saved'[r][i] = 0
  BY AnswerOnly
<1>2. "done" \notin Flight /\ "done" \notin Unissued
  BY DEF Flight, Unissued
<1>3. StaleOf(r)'
  BY <1>1, <1>2 DEF StaleOf
<1>4. SeenInv(r)'
  BY <1>1 DEF SeenInv
<1> QED  BY <1>1, <1>2, <1>3, <1>4, GentleStep

(* A request goes on to a stage other than created.                        *)
LEMMA GotoGentle ==
    ASSUME Types, TableInv, ResendInv, OneCurrent', NEW r \in Requests, NEW l \in Flight, Goto(r, l),
           UNCHANGED <<clock, code, link, exp, coolUntil, revoked, stale, saved>>,
           owners \subseteq owners', \A q \in Requests \ {r} : seen'[q] = seen[q],
           pc[r] \in Flight, l \notin {"created", "begun", "issuing"},
           l \in Unissued => pc[r] \in Unissued,
           l = "selected" => kind[r] = "resend",
           l = "owner" => r \in owners' /\ kind[r] = "bootstrap" /\ seen'[r] = {},
           l = "undo" /\ kind[r] # "resend" => seen'[r] = {}
    PROVE  ResendInv'
<1>1. /\ kind' = kind /\ resp' = resp /\ arg' = arg /\ now' = now
      /\ pc'[r] = l /\ \A q \in Requests \ {r} : pc'[q] = pc[q]
  BY GotoFacts DEF Goto, locals
<1>2. OnlyOf(r)
  BY <1>1 DEF OnlyOf
<1>3. \A i \in Requests : Open(i)' => Open(i)
  BY DEF Open
<1>4. kind[r] = "resend" => Resending(r)
  BY DEF Resending
<1>5. kind[r] # "resend" => \A i \in Requests : saved[r][i] = 0
  BY DEF ResendInv, FlightInv, Resending
<1>6. StaleOf(r)'
  <2>1. StaleOf(r) /\ revoked \subseteq Requests /\ \A i \in revoked : Dead(i, now[r]) => (Open(i)' => exp'[i] <= now[r])
    BY <1>3, TableFacts DEF ResendInv, StaleInv, Dead
  <2> QED  BY <1>1, <2>1, StaleKept
<1>7. SeenInv(r)'
  <2>1. l # "idle"
    BY DEF Flight
  <2> QED  BY <1>1, <2>1 DEF SeenInv
<1>8. /\ kind'[r] = "resend" /\ pc'[r] \in Flight => Resending(r) /\ now'[r] = now[r] /\ saved'[r] = saved[r]
      /\ ~(kind'[r] = "resend" /\ pc'[r] \in Flight) => \A i \in Requests : saved'[r][i] = 0
      /\ pc'[r] \in Unissued => pc[r] \in Unissued
      /\ pc'[r] # "created"
  BY <1>1, <1>4, <1>5
<1> QED  BY <1>2, <1>3, <1>6, <1>7, <1>8, GentleStep

(* A request other than a resend begins.                                   *)
LEMMA BeginGentle ==
    ASSUME VerificationInv, TableInv, ResendInv, OneCurrent', NEW r \in Requests, NEW k, NEW a, Begin(r, k, a),
           k # "resend", UNCHANGED coolUntil
    PROVE  ResendInv'
<1>0. Types /\ StageInv /\ FlightInv /\ RevokedInv /\ now \in [Requests -> Nat] /\ stale \in [Requests -> BOOLEAN]
  BY TableFacts DEF VerificationInv, ResendInv
<1>1. /\ UNCHANGED <<clock, code, link, exp, resp, seen, saved, revoked, owners>>
      /\ pc[r] = "idle" /\ pc' = [pc EXCEPT ![r] = "begun"] /\ kind' = [kind EXCEPT ![r] = k]
      /\ now' = [now EXCEPT ![r] = clock] /\ arg' = [arg EXCEPT ![r] = a]
      /\ stale' = [stale EXCEPT ![r] = a \in revoked]
  BY DEF Begin, table
<1>2. /\ pc'[r] = "begun" /\ kind'[r] = k /\ now'[r] = clock /\ arg'[r] = a /\ stale'[r] = (a \in revoked)
      /\ resp'[r] # "ok" /\ seen'[r] = {} /\ \A i \in Requests : saved'[r][i] = 0
  <2>1. resp[r] # "ok" /\ seen[r] = {}
    BY <1>0, <1>1 DEF StageInv, FlightInv, SeenInv
  <2>2. \A i \in Requests : saved[r][i] = 0
    BY <1>0, <1>1 DEF FlightInv, Resending, Flight
  <2> QED  BY <1>0, <1>1, <2>1, <2>2 DEF Types
<1>3. OnlyOf(r)
  BY <1>0, <1>1 DEF OnlyOf, Types
<1>4. \A i \in Requests : Open(i)' => Open(i)
  BY <1>1 DEF Open
<1>5. a \in revoked => Dead(a, clock)
  BY <1>0 DEF RevokedInv
<1>6. "begun" \in Unissued /\ pc[r] \in Unissued
  BY <1>1 DEF Unissued
<1>7. SeenInv(r)'
  BY <1>2 DEF SeenInv
<1>8. StaleOf(r)'
  <2>1. a \in revoked => Dead(arg[r], now[r])'
    BY <1>1, <1>2, <1>5 DEF Dead, Open
  <2> QED  BY <1>1, <1>2, <2>1 DEF StaleOf
<1>9. /\ owners \subseteq owners' /\ clock' = clock /\ exp' = exp /\ revoked' = revoked
      /\ pc[r] \in Unissued /\ kind'[r] # "resend" /\ pc'[r] # "created" /\ \A i \in Requests : saved'[r][i] = 0
  BY <1>1, <1>2, <1>6
<1> QED  BY <1>0, <1>3, <1>4, <1>7, <1>8, <1>9, GentleStep

(* Expiries, cooldown, open rows and history of the steps that answer.     *)
LEMMA RefusedResend ==
    ASSUME Types, TableInv, ResendInv, OneCurrent', NEW r \in Requests, ResendLimited(r) \/ Fail(r)
    PROVE  ResendInv'
<1>1. PICK a \in {"refused", "error"} : Answer(r, a)
  BY DEF ResendLimited, Fail
<1>2. UNCHANGED <<clock, code, link, exp, coolUntil, revoked, stale, owners>>
  BY DEF ResendLimited, Fail, table, history, counts
<1>3. \A i \in Requests : Open(i)' => Open(i)
  BY <1>2 DEF Open
<1> QED  BY <1>1, <1>2, <1>3, AnswerGentle DEF Answers

(* The unlocked reads.                                                     *)
LEMMA ReadResend ==
    ASSUME Types, TableInv, ResendInv, OneCurrent', NEW r \in Requests,
           ResendSelect(r) \/ CleanupRecords(r) \/ OtpSnapshot(r) \/ MagicValidate(r)
    PROVE  ResendInv'
<1>1. UNCHANGED <<clock, code, link, exp, coolUntil, revoked, stale, owners>>
  BY DEF ResendSelect, CleanupRecords, OtpSnapshot, MagicValidate, table, history, counts
<1>2. CASE \E a \in {"refused", "invalid", "expired", "otp_page"} : Answer(r, a)
  <2>1. \A i \in Requests : Open(i)' => Open(i)
    BY <1>1 DEF Open
  <2> QED  BY <1>1, <1>2, <2>1, AnswerGentle DEF Answers
<1>3. CASE /\ \E l \in {"selected", "undo_user", "snapshot", "validated"} :
                 /\ Goto(r, l)
                 /\ l = "selected" => pc[r] = "begun" /\ kind[r] = "resend"
           /\ UNCHANGED saved
  <2>1. pc[r] \in Flight
    BY DEF ResendSelect, CleanupRecords, OtpSnapshot, MagicValidate, Flight
  <2>2. \A q \in Requests \ {r} : seen'[q] = seen[q]
    <3>1. seen' = seen \/ \E S : seen' = [seen EXCEPT ![r] = S]
      <4>1. CASE ResendSelect(r) /\ ~Answer(r, "refused")
        BY <4>1 DEF ResendSelect
      <4>2. CASE CleanupRecords(r)
        BY <4>2 DEF CleanupRecords
      <4>3. CASE OtpSnapshot(r)
        BY <4>3 DEF OtpSnapshot
      <4>4. CASE MagicValidate(r)
        BY <4>4 DEF MagicValidate, Answer
      <4>5. CASE Answer(r, "refused")
        BY <4>5 DEF Answer
      <4> QED  BY <4>1, <4>2, <4>3, <4>4, <4>5
    <3> QED  BY <3>1 DEF Types
  <2> QED  BY <1>1, <1>3, <2>1, <2>2, GotoGentle DEF Flight, Unissued
<1> QED  BY <1>2, <1>3 DEF ResendSelect, CleanupRecords, OtpSnapshot, MagicValidate

(* The transactions of a code and a link: a stale one is dead by then.     *)
LEMMA DecideResend ==
    ASSUME VerificationInv, TableInv, ResendInv, OneCurrent', NEW r \in Requests, OtpDecide(r) \/ MagicDecide(r)
    PROVE  ResendInv'
<1>0. Types /\ StaleInv
  BY DEF VerificationInv, ResendInv
<1>1. UNCHANGED <<clock, exp, coolUntil, revoked, stale, owners>> /\ pc[r] \in Flight
  BY DEF OtpDecide, OtpRefused, OtpWrong, OtpRight, MagicDecide, table, Flight
<1>2. stale[r] /\ kind[r] \in {"otp", "magic"} => Dead(arg[r], now[r])
  BY <1>0, <1>1 DEF StaleInv, StaleOf
<1>3. exp[arg[r]] \in Nat /\ now[r] \in Nat /\ exp[arg[r]] > now[r] => ~(exp[arg[r]] <= now[r])
  BY SMT
<1>4. ASSUME NEW a \in {"invalid", "too_many", "expired"}, Answer(r, a), UNCHANGED <<code, link>>
      PROVE  ResendInv'
  <2>1. \A i \in Requests : Open(i)' => Open(i)
    BY <1>4 DEF Open
  <2> QED  BY <1>0, <1>1, <1>4, <2>1, AnswerGentle DEF Answers
<1>5. ASSUME NEW i \in Requests, arg[r] = i, Open(i), exp[i] > now[r], Answer(r, "ok"),
             \/ code' = [code EXCEPT ![i] = "used"] /\ link' = link
             \/ link' = [link EXCEPT ![i] = "used"] /\ code' = code
      PROVE  ResendInv'
  <2>1. exp[i] \in Nat /\ now[r] \in Nat
    BY TableFacts
  <2>2. kind[r] \notin {"otp", "magic"} \/ ~stale[r]
    BY <1>2, <1>3, <1>5, <2>1 DEF Dead
  <2>3. \A j \in Requests : Open(j)' => Open(j)
    <3>1. \A j \in Requests : (code'[j] = "open" => code[j] = "open") /\ (link'[j] = "open" => link[j] = "open")
      BY <1>0, <1>5 DEF Types
    <3> QED  BY <3>1 DEF Open
  <2> QED  BY <1>0, <1>1, <1>5, <2>2, <2>3, AnswerGentle DEF Answers
<1>6. CASE OtpDecide(r)
  <2>1. \A i \in Newest({j \in seen[r] : code[j] = "open"}) : i \in Requests /\ Open(i)
    BY <1>0 DEF Newest, Types, Open
  <2>2. \/ \E a \in {"invalid", "too_many", "expired"} : Answer(r, a) /\ UNCHANGED <<code, link>>
        \/ \E i \in Requests : arg[r] = i /\ Open(i) /\ exp[i] > now[r] /\ OtpRight(r, i)
    BY <1>6, <2>1 DEF OtpDecide, OtpRefused, OtpWrong, table
  <2> QED  BY <1>4, <1>5, <2>2 DEF OtpRight
<1>7. CASE MagicDecide(r)
  <2>1. \/ \E a \in {"invalid", "expired"} : Answer(r, a) /\ UNCHANGED <<code, link>>
        \/ /\ LinkOpen(arg[r]) /\ exp[arg[r]] > now[r] /\ Answer(r, "ok")
           /\ link' = [link EXCEPT ![arg[r]] = "used"] /\ code' = code
    BY <1>7 DEF MagicDecide, table
  <2>2. LinkOpen(arg[r]) => arg[r] \in Requests /\ Open(arg[r])
    BY <1>0 DEF LinkOpen, Types, Open
  <2> QED  BY <1>4, <1>5, <2>1, <2>2
<1> QED  BY <1>6, <1>7

(* A cleanup closes rows.                                                  *)
LEMMA CleanupResend ==
    ASSUME Types, TableInv, ResendInv, OneCurrent', NEW r \in Requests, CleanupUser(r)
    PROVE  ResendInv'
<1>1. UNCHANGED <<clock, exp, coolUntil, revoked, stale, owners>> /\ Answer(r, "error")
  BY DEF CleanupUser, table, history, counts
<1>2. \A i \in Requests : Open(i)' => Open(i)
  BY DEF CleanupUser, table, Delete, Open
<1> QED  BY <1>1, <1>2, AnswerGentle DEF Answers

(* A push fails.                                                           *)
LEMMA EnqueueFailsResend ==
    ASSUME Types, TableInv, ResendInv, OneCurrent', NEW r \in Requests, NEW landed \in BOOLEAN, EnqueueFails(r, landed)
    PROVE  ResendInv'
<1>1. /\ UNCHANGED <<clock, code, link, exp, coolUntil, revoked, stale, owners>> /\ pc[r] = "created"
      /\ Answer(r, "error") \/ (Goto(r, "undo") /\ UNCHANGED <<seen, saved>>)
  BY DEF EnqueueFails, table, history, counts
<1>2. CASE Answer(r, "error")
  <2>1. \A i \in Requests : Open(i)' => Open(i)
    BY <1>1 DEF Open
  <2> QED  BY <1>1, <1>2, <2>1, AnswerGentle DEF Answers
<1>3. CASE Goto(r, "undo") /\ UNCHANGED <<seen, saved>>
  <2>1. kind[r] # "resend" => seen'[r] = {}
    BY <1>1, <1>3 DEF ResendInv, FlightInv, SeenInv
  <2> QED  BY <1>1, <1>3, <2>1, GotoGentle DEF Flight, Unissued
<1> QED  BY <1>1, <1>2, <1>3

(* Bootstrap's transaction, and its turn to the mail.                      *)
LEMMA BootstrapResend ==
    ASSUME VerificationInv, TableInv, ResendInv, OneCurrent', NEW r \in Requests,
           BootstrapTx(r) \/ EnqueueVerificationEmail(r)
    PROVE  ResendInv'
<1>0. Types /\ StageInv /\ FlightInv /\ StaleInv
  BY DEF VerificationInv, ResendInv
<1>1. UNCHANGED <<clock, code, link, exp, coolUntil, revoked, stale>>
  BY DEF BootstrapTx, EnqueueVerificationEmail, table, history, counts
<1>2. \A i \in Requests : Open(i)' => Open(i)
  BY <1>1 DEF Open
<1>3. CASE BootstrapTx(r)
  <2>1. pc[r] = "begun" /\ kind[r] = "bootstrap"
    BY <1>3 DEF BootstrapTx
  <2>2. CASE (\E a \in {"refused", "ok"} : Answer(r, a)) /\ UNCHANGED owners
    BY <1>0, <1>1, <1>2, <2>1, <2>2, AnswerGentle DEF Answers
  <2>3. CASE owners' = owners \cup {r} /\ Goto(r, "owner") /\ UNCHANGED <<seen, saved>>
    <3>1. seen'[r] = {}
      BY <1>0, <2>1, <2>3 DEF FlightInv, SeenInv
    <3> QED  BY <1>0, <1>1, <2>1, <2>3, <3>1, GotoGentle DEF Flight, Unissued
  <2> QED  BY <1>3, <2>2, <2>3 DEF BootstrapTx
<1>4. CASE EnqueueVerificationEmail(r)
  <2>1. /\ UNCHANGED <<resp, kind, arg, seen, saved, owners>> /\ pc[r] = "owner"
        /\ pc' = [pc EXCEPT ![r] = "issuing"] /\ now' = [now EXCEPT ![r] = clock]
    BY <1>4 DEF EnqueueVerificationEmail, history, counts
  <2>2. now \in [Requests -> Nat] /\ revoked \subseteq Requests
    BY TableFacts
  <2>3. pc'[r] = "issuing" /\ \A q \in Requests \ {r} : pc'[q] = pc[q] /\ now'[q] = now[q]
    BY <1>0, <2>1, <2>2 DEF Types
  <2>4. OnlyOf(r)
    BY <1>1, <2>1, <2>3 DEF OnlyOf
  <2>5. kind[r] = "bootstrap" /\ r \in owners /\ seen[r] = {}
    BY <1>0, <2>1 DEF FlightInv, SeenInv
  <2>6. \A i \in Requests : saved[r][i] = 0
    BY <1>0, <2>5 DEF FlightInv, Resending
  <2>7. "issuing" \in Unissued /\ pc[r] \in Unissued
    BY <2>1 DEF Unissued
  <2>8. SeenInv(r)' /\ StaleOf(r)'
    BY <2>1, <2>3, <2>5 DEF SeenInv, StaleOf
  <2> QED  BY <1>0, <1>1, <1>2, <2>1, <2>3, <2>4, <2>5, <2>6, <2>7, <2>8, GentleStep
<1> QED  BY <1>3, <1>4

(* A registration, or the owner of a Bootstrap, gets its verification:     *)
(* either nothing was open, or the exception of LiveInv applies.           *)
LEMMA IssueFirst ==
    ASSUME VerificationInv, TableInv, ResendInv, OneCurrent', NEW r \in Requests, Issue(r, r), Goto(r, "created"),
           pc[r] \in {"begun", "issuing"}, kind[r] \notin {"resend", "otp", "magic"},
           exp' = [exp EXCEPT ![r] = now[r] + TTL],
           UNCHANGED <<clock, coolUntil, seen, saved, revoked, stale, owners>>,
           r \in owners \/ \A i \in Requests : ~Open(i)
    PROVE  ResendInv'
<1>0. /\ Types /\ StageInv /\ FlightInv /\ RevokedInv /\ StaleInv /\ LiveInv /\ ~(0 > clock)
      /\ revoked \subseteq Requests /\ exp \in [Requests -> Nat]
  BY TableFacts DEF VerificationInv, ResendInv
<1>1. /\ kind' = kind /\ resp' = resp /\ arg' = arg /\ now' = now
      /\ pc'[r] = "created" /\ \A q \in Requests \ {r} : pc'[q] = pc[q]
  BY <1>0, GotoFacts DEF Goto, locals, Flight
<1>2. pc[r] \in Unissued /\ "created" \notin Unissued /\ "created" \in Flight
  BY DEF Unissued, Flight
<1>3. \A i \in Requests \ {r} : exp'[i] = exp[i] /\ (Open(i)' => Open(i))
  BY <1>0 DEF Issue, Types, Open
<1>4. /\ \A p \in Requests : Resending(p)' => Resending(p) /\ p # r
      /\ \A i \in Requests : pc'[i] \in Unissued => pc[i] \in Unissued
      /\ \A i \in Requests : pc[i] \notin Unissued => i # r
      /\ \A i \in Requests : saved[r][i] = 0
  <2>1. \A p \in Requests : Resending(p)' => Resending(p) /\ p # r
    <3> SUFFICES ASSUME NEW p \in Requests, kind'[p] = "resend", pc'[p] \in Flight PROVE Resending(p) /\ p # r
      BY DEF Resending
    <3> QED  BY <1>1 DEF Resending
  <2>2. \A i \in Requests : saved[r][i] = 0
    BY <1>0 DEF FlightInv, Resending
  <2> QED  BY <1>1, <1>2, <2>1, <2>2
<1>5. FlightInv'
  <2>1. \A p \in Requests : Resending(p)' => now'[p] + Window <= coolUntil' /\ clock' < now'[p] + Window
    BY <1>0, <1>1, <1>4 DEF FlightInv
  <2>2. \A p, q \in Requests : Resending(p)' /\ Resending(q)' => p = q
    BY <1>0, <1>4 DEF FlightInv
  <2>3. \A p \in Requests : SeenInv(p)'
    <3>1. seen[r] = {}
      BY <1>0 DEF FlightInv, SeenInv
    <3>2. SeenInv(r)'
      BY <1>1, <3>1 DEF SeenInv
    <3>3. ASSUME NEW p \in Requests, p # r PROVE SeenInv(p)'
      BY <1>0, <1>1, <3>3, SeenKept DEF FlightInv
    <3> QED  BY <3>2, <3>3
  <2>4. \A p, i \in Requests : saved'[p][i] # 0 => Resending(p)' /\ pc'[i] \notin Unissued
    <3> SUFFICES ASSUME NEW p \in Requests, NEW i \in Requests, saved[p][i] # 0
                 PROVE  Resending(p)' /\ pc'[i] \notin Unissued
      OBVIOUS
    <3>1. Resending(p) /\ pc[i] \notin Unissued /\ p # r
      BY <1>0, <1>4 DEF FlightInv
    <3> QED  BY <1>1, <1>4, <3>1 DEF Resending
  <2> QED  BY <2>1, <2>2, <2>3, <2>4 DEF FlightInv
<1>6. RevokedInv'
  <2>1. \A i \in revoked' : pc'[i] \notin Unissued /\ (Open(i)' => exp'[i] <= clock')
    BY <1>0, <1>3, <1>4 DEF RevokedInv, Dead
  <2>2. \A p \in Requests, i \in revoked' : Resending(p)' => (Open(i)' => exp'[i] <= now'[p]) /\ saved'[p][i] = 0
    <3> SUFFICES ASSUME NEW p \in Requests, NEW i \in revoked, Resending(p)'
                 PROVE  (Open(i)' => exp'[i] <= now'[p]) /\ saved'[p][i] = 0
      OBVIOUS
    <3>1. Dead(i, now[p]) /\ saved[p][i] = 0 /\ i \in Requests \ {r}
      BY <1>0, <1>4 DEF RevokedInv
    <3> QED  BY <1>1, <1>3, <3>1 DEF Dead
  <2>3. \A p \in Requests : kind'[p] = "resend" /\ pc'[p] = "created" =>
          \A i \in seen'[p] : pc'[i] \notin Unissued /\ (Open(i)' => exp'[i] <= now'[p])
    <3> SUFFICES ASSUME NEW p \in Requests, kind'[p] = "resend", pc'[p] = "created", NEW i \in seen[p]
                 PROVE  pc'[i] \notin Unissued /\ (Open(i)' => exp'[i] <= now'[p])
      OBVIOUS
    <3>1. p # r /\ kind[p] = "resend" /\ pc[p] = "created" /\ i \in Requests
      BY <1>0, <1>1 DEF Types
    <3>2. pc[i] \notin Unissued /\ Dead(i, now[p])
      BY <1>0, <3>1 DEF RevokedInv
    <3> QED  BY <1>1, <1>3, <1>4, <3>1, <3>2 DEF Dead
  <2> QED  BY <2>1, <2>2, <2>3 DEF RevokedInv, Dead
<1>7. StaleInv'
  <2>1. \A i \in revoked : i \in Requests \ {r}
    BY <1>0, <1>4 DEF RevokedInv
  <2>2. StaleOf(r)'
    BY <1>1 DEF StaleOf
  <2>3. ASSUME NEW q \in Requests, q # r PROVE StaleOf(q)'
    <3>1. \A i \in revoked : Dead(i, now[q]) => (Open(i)' => exp'[i] <= now[q])
      BY <1>3, <2>1 DEF Dead
    <3>2. /\ kind'[q] = kind[q] /\ resp'[q] = resp[q] /\ now'[q] = now[q] /\ arg'[q] = arg[q]
          /\ stale'[q] = stale[q] /\ pc'[q] = pc[q] /\ StaleOf(q)
      BY <1>0, <1>1, <2>3 DEF StaleInv
    <3> QED  BY <1>0, <3>1, <3>2, StaleKept
  <2> QED  BY <2>2, <2>3 DEF StaleInv
<1>8. LiveInv'
  <2>1. \A i \in Requests \ {r} : Live(i)' => Live(i)
    BY <1>3 DEF Live
  <2>2. \A p, i \in Requests : Returns(p, i)' => Returns(p, i) /\ i # r
    <3> SUFFICES ASSUME NEW p \in Requests, NEW i \in Requests, Open(i)', saved[p][i] > clock
                 PROVE  Returns(p, i) /\ i # r
      BY DEF Returns
    <3>1. saved[p][i] # 0
      BY <1>0
    <3>2. i # r
      BY <1>0, <1>2, <3>1 DEF FlightInv
    <3> QED  BY <1>3, <3>2 DEF Returns
  <2>3. CASE r \in owners
    BY <1>0, <2>1, <2>2, <2>3 DEF LiveInv
  <2>4. CASE \A i \in Requests : ~Open(i)
    <3>1. \A i \in Requests \ {r} : ~Live(i)'
      BY <2>1, <2>4 DEF Live
    <3>2. \A p, i \in Requests : ~Returns(p, i)'
      BY <2>2, <2>4 DEF Returns
    <3> QED  BY <3>1, <3>2 DEF LiveInv
  <2> QED  BY <2>3, <2>4
<1> QED  BY <1>5, <1>6, <1>7, <1>8 DEF ResendInv

(* Register's transaction and the one of Bootstrap's mail.                 *)
LEMMA FirstResend ==
    ASSUME VerificationInv, TableInv, ResendInv, OneCurrent', NEW r \in Requests, RegisterTx(r) \/ CreateVerification(r)
    PROVE  ResendInv'
<1>0. Types /\ StageInv /\ RowInv /\ FlightInv
  BY DEF VerificationInv, ResendInv
<1>1. UNCHANGED <<clock, coolUntil, revoked, stale, owners>>
  BY DEF RegisterTx, CreateVerification, history, counts
<1>2. CASE RegisterTx(r)
  <2>1. pc[r] = "begun" /\ kind[r] = "register"
    BY <1>2 DEF RegisterTx
  <2>2. CASE Answer(r, "error") /\ UNCHANGED table
    <3>1. UNCHANGED <<code, link, exp>>
      BY <2>2 DEF table
    <3>2. \A i \in Requests : Open(i)' => Open(i)
      BY <3>1 DEF Open
    <3> QED  BY <1>0, <1>1, <2>2, <3>1, <3>2, AnswerGentle DEF Answers
  <2>3. CASE /\ Current = {} /\ exp' = [exp EXCEPT ![r] = now[r] + TTL]
             /\ Issue(r, r) /\ Goto(r, "created") /\ UNCHANGED <<seen, saved>>
    <3>1. \A i \in Requests : ~Open(i)
      BY <1>0, <2>3 DEF RowInv, Current
    <3> QED  BY <1>1, <2>1, <2>3, <3>1, IssueFirst
  <2> QED  BY <1>2, <2>2, <2>3 DEF RegisterTx
<1>3. CASE CreateVerification(r)
  <2>1. /\ pc[r] = "issuing" /\ exp' = [exp EXCEPT ![r] = now[r] + TTL]
        /\ Issue(r, r) /\ Goto(r, "created") /\ UNCHANGED <<seen, saved>>
    BY <1>3 DEF CreateVerification
  <2>2. kind[r] = "bootstrap" /\ r \in owners
    BY <1>0, <2>1 DEF FlightInv, SeenInv
  <2> QED  BY <1>1, <2>1, <2>2, IssueFirst
<1> QED  BY <1>2, <1>3

(* A resend begins when the window of the last one is over: no other is    *)
(* in flight.                                                              *)
LEMMA ResendBegins ==
    ASSUME VerificationInv, TableInv, ResendInv, OneCurrent', NEW r \in Requests, ResendBegin(r)
    PROVE  ResendInv'
<1>0. /\ Types /\ StageInv /\ FlightInv /\ RevokedInv /\ StaleInv /\ LiveInv /\ clock \in Nat
      /\ coolUntil \in Nat /\ Window \in Nat \ {0} /\ revoked \subseteq Requests
      /\ now \in [Requests -> Nat] /\ stale \in [Requests -> BOOLEAN]
  BY TableFacts, VerificationAssumption DEF VerificationAssumption, VerificationInv, ResendInv
<1>1. /\ UNCHANGED <<clock, code, link, exp, resp, seen, saved, revoked, owners>>
      /\ pc[r] = "idle" /\ pc' = [pc EXCEPT ![r] = "begun"] /\ kind' = [kind EXCEPT ![r] = "resend"]
      /\ now' = [now EXCEPT ![r] = clock] /\ arg' = [arg EXCEPT ![r] = None]
      /\ stale' = [stale EXCEPT ![r] = None \in revoked] /\ coolUntil' = clock + Window /\ ~(clock < coolUntil)
  BY DEF ResendBegin, Begin, table, CooldownActive
<1>2. /\ pc'[r] = "begun" /\ kind'[r] = "resend" /\ now'[r] = clock
      /\ \A q \in Requests \ {r} : /\ pc'[q] = pc[q] /\ kind'[q] = kind[q] /\ now'[q] = now[q]
                                   /\ arg'[q] = arg[q] /\ stale'[q] = stale[q]
  BY <1>0, <1>1 DEF Types
<1>3. \A p \in Requests : ~Resending(p)
  <2> SUFFICES ASSUME NEW p \in Requests, Resending(p) PROVE FALSE
    OBVIOUS
  <2>1. now[p] + Window <= coolUntil /\ clock < now[p] + Window /\ now[p] \in Nat
    BY <1>0 DEF FlightInv
  <2>2. ~(clock < coolUntil) /\ clock \in Nat /\ coolUntil \in Nat /\ Window \in Nat
    BY <1>0, <1>1
  <2> QED  BY SMT, <2>1, <2>2
<1>4. \A p \in Requests : Resending(p)' => p = r
  <2> SUFFICES ASSUME NEW p \in Requests, kind'[p] = "resend", pc'[p] \in Flight, p # r PROVE FALSE
    BY DEF Resending
  <2> QED  BY <1>2, <1>3 DEF Resending
<1>5. \A p, i \in Requests : saved[p][i] = 0
  BY <1>0, <1>3 DEF FlightInv
<1>6. "begun" \in Unissued /\ "idle" \in Unissued /\ \A i \in Requests : pc'[i] \in Unissued <=> pc[i] \in Unissued
  BY <1>1, <1>2 DEF Unissued
<1>7. \A i \in Requests : Open(i)' <=> Open(i)
  BY <1>1 DEF Open
<1>8. FlightInv'
  <2>1. \A p \in Requests : Resending(p)' => now'[p] + Window <= coolUntil' /\ clock' < now'[p] + Window
    <3>1. clock + Window <= clock + Window /\ clock < clock + Window
      <4>1. clock \in Nat /\ Window \in Nat /\ Window # 0
        BY <1>0
      <4> QED  BY SMT, <4>1
    <3> QED  BY <1>1, <1>2, <1>4, <3>1
  <2>2. \A p \in Requests : SeenInv(p)'
    <3>1. seen'[r] = {}
      BY <1>0, <1>1 DEF FlightInv, SeenInv
    <3>2. SeenInv(r)'
      BY <1>2, <3>1 DEF SeenInv
    <3>3. ASSUME NEW p \in Requests, p # r PROVE SeenInv(p)'
      BY <1>0, <1>1, <1>2, <3>3, SeenKept DEF FlightInv
    <3> QED  BY <3>2, <3>3
  <2> QED  BY <1>1, <1>4, <1>5, <2>1, <2>2 DEF FlightInv
<1>9. RevokedInv'
  <2>1. \A i \in revoked : pc'[i] \notin Unissued /\ (Open(i)' => exp'[i] <= clock)
    BY <1>0, <1>1, <1>6, <1>7 DEF RevokedInv, Dead
  <2>2. \A p \in Requests : ~(kind'[p] = "resend" /\ pc'[p] = "created")
    <3>1. \A p \in Requests : kind'[p] = "resend" /\ pc'[p] = "created" => Resending(p)'
      BY DEF Resending, Flight
    <3> QED  BY <1>2, <1>4, <3>1
  <2>3. \A p \in Requests, i \in revoked' : Resending(p)' => (Open(i)' => exp'[i] <= now'[p]) /\ saved'[p][i] = 0
    <3> SUFFICES ASSUME NEW i \in revoked PROVE (Open(i)' => exp'[i] <= now'[r]) /\ saved'[r][i] = 0
      BY <1>1, <1>4
    <3>1. i \in Requests /\ saved' = saved /\ now'[r] = clock
      BY <1>0, <1>1, <1>2
    <3> QED  BY <1>5, <2>1, <3>1
  <2> QED  BY <1>1, <2>1, <2>2, <2>3 DEF RevokedInv, Dead
<1>10. StaleInv'
  <2>1. StaleOf(r)'
    BY <1>2 DEF StaleOf
  <2>2. ASSUME NEW q \in Requests, q # r PROVE StaleOf(q)'
    <3>1. \A i \in revoked : Dead(i, now[q]) => (Open(i)' => exp'[i] <= now[q])
      BY <1>0, <1>1, <1>7 DEF Dead
    <3>2. /\ kind'[q] = kind[q] /\ resp'[q] = resp[q] /\ now'[q] = now[q] /\ arg'[q] = arg[q]
          /\ stale'[q] = stale[q] /\ pc'[q] = pc[q] /\ revoked' = revoked /\ StaleOf(q)
      BY <1>0, <1>1, <1>2, <2>2 DEF StaleInv
    <3> QED  BY <1>0, <3>1, <3>2, StaleKept
  <2> QED  BY <2>1, <2>2 DEF StaleInv
<1>11. LiveInv'
  <2>1. \A i \in Requests : Live(i)' => Live(i)
    BY <1>1, <1>7 DEF Live
  <2>2. \A p, i \in Requests : ~Returns(p, i)'
    <3>1. ~(0 > clock)
      BY TableFacts
    <3> QED  BY <1>1, <1>5, <3>1 DEF Returns
  <2> QED  BY <1>0, <1>1, <2>1, <2>2 DEF LiveInv
<1> QED  BY <1>8, <1>9, <1>10, <1>11 DEF ResendInv

(* The resend's transaction: every other open row belongs to the account   *)
(* that holds the address, and is expired as of the resend's now.          *)
LEMMA ResendIssues ==
    ASSUME VerificationInv, TableInv, ResendInv, OneCurrent', NEW r \in Requests, ResendTx(r)
    PROVE  ResendInv'
<1>0. /\ Types /\ StageInv /\ RowInv /\ FlightInv /\ RevokedInv /\ StaleInv /\ LiveInv /\ OneCurrent
      /\ clock \in Nat /\ revoked \subseteq Requests /\ exp \in [Requests -> Nat] /\ now \in [Requests -> Nat]
      /\ saved \in [Requests -> [Requests -> Nat]] /\ now[r] <= clock /\ ~(0 > clock)
  BY TableFacts DEF VerificationInv, ResendInv
<1>1. PICK u \in Requests :
         /\ account[u] = "pending"
         /\ saved' = [saved EXCEPT ![r] =
                         [i \in Requests |-> IF i \in seen[r] \cap Revocable(u, now[r]) THEN exp[i] ELSE 0]]
         /\ exp' = [i \in Requests |-> IF i = r THEN now[r] + TTL
                                      ELSE IF i \in Revocable(u, now[r]) THEN now[r] ELSE exp[i]]
         /\ Issue(r, u)
  BY DEF ResendTx
<1>2. /\ pc[r] = "selected" /\ kind' = kind /\ resp' = resp /\ arg' = arg /\ now' = now
      /\ pc'[r] = "created" /\ \A q \in Requests \ {r} : pc'[q] = pc[q]
      /\ clock' = clock /\ coolUntil' = coolUntil /\ revoked' = revoked /\ stale' = stale /\ owners' = owners
      /\ seen' = [seen EXCEPT ![r] = {i \in Requests : holder[i] # None}]
  BY <1>0, GotoFacts DEF ResendTx, Goto, locals, Flight, history, counts
<1>3. /\ kind[r] = "resend" /\ Resending(r) /\ pc[r] \in Unissued /\ holder[r] = None
      /\ \A q \in Requests : Resending(q) => q = r
  <2>1. kind[r] = "resend"
    BY <1>0, <1>2 DEF FlightInv, SeenInv
  <2>2. Resending(r) /\ pc[r] \in Unissued
    BY <1>2, <2>1 DEF Resending, Flight, Unissued
  <2>3. holder[r] = None
    BY <1>0, <2>2 DEF StageInv
  <2> QED  BY <1>0, <2>1, <2>2, <2>3 DEF FlightInv
<1>4. /\ "created" \notin Unissued /\ "created" \in Flight
      /\ \A i \in Requests : pc'[i] \in Unissued => pc[i] \in Unissued
      /\ \A i \in Requests : pc[i] \notin Unissued => i # r
  BY <1>2, <1>3 DEF Unissued, Flight
<1>5. \A q \in Requests : Resending(q)' <=> q = r
  <2>1. Resending(r)'
    BY <1>2, <1>3, <1>4 DEF Resending
  <2>2. ASSUME NEW q \in Requests, q # r, kind'[q] = "resend", pc'[q] \in Flight PROVE FALSE
    BY <1>2, <1>3, <2>2 DEF Resending
  <2> QED  BY <2>1, <2>2 DEF Resending
<1>6. \A i \in Requests \ {r} : Open(i)' => Open(i)
  BY <1>0, <1>1 DEF Issue, Types, Open
<1>7. \A i \in Requests \ {r} : Open(i) => i \in Revocable(u, now[r]) \/ exp[i] <= now[r]
  <2> SUFFICES ASSUME NEW i \in Requests \ {r}, Open(i), ~(exp[i] <= now[r]) PROVE i \in Revocable(u, now[r])
    OBVIOUS
  <2>1. holder[i] = u
    <3>1. u \in Current /\ holder[i] \in Current
      BY <1>0, <1>1 DEF RowInv, Current
    <3> QED  BY <1>0, <3>1 DEF OneCurrent
  <2>2. exp[i] > now[r]
    <3>1. exp[i] \in Nat /\ now[r] \in Nat
      BY <1>0
    <3> QED  BY SMT, <3>1
  <2> QED  BY <2>1, <2>2 DEF Revocable
<1>8. \A i \in Requests \ {r} : Open(i) => exp'[i] <= now[r] /\ exp'[i] <= exp[i] /\ exp'[i] \in Nat
  <2> SUFFICES ASSUME NEW i \in Requests \ {r}, Open(i)
               PROVE  exp'[i] <= now[r] /\ exp'[i] <= exp[i] /\ exp'[i] \in Nat
    OBVIOUS
  <2>1. exp[i] \in Nat /\ now[r] \in Nat
    BY <1>0
  <2>2. CASE i \in Revocable(u, now[r])
    <3>1. exp'[i] = now[r] /\ exp[i] > now[r]
      BY <1>1, <2>2 DEF Revocable
    <3> QED  BY SMT, <2>1, <3>1
  <2>3. CASE i \notin Revocable(u, now[r])
    <3>1. exp'[i] = exp[i] /\ exp[i] <= now[r]
      BY <1>1, <1>7, <2>3
    <3> QED  BY SMT, <2>1, <3>1
  <2> QED  BY <2>2, <2>3
<1>9. /\ \A q \in Requests \ {r} : saved'[q] = saved[q] /\ seen'[q] = seen[q]
      /\ seen'[r] = {i \in Requests : holder[i] # None}
      /\ \A i \in Requests : saved'[r][i] # 0 => Open(i) /\ exp[i] > now[r] /\ saved'[r][i] = exp[i]
  <2>1. /\ \A q \in Requests \ {r} : saved'[q] = saved[q] /\ seen'[q] = seen[q]
        /\ seen'[r] = {i \in Requests : holder[i] # None}
    BY <1>0, <1>1, <1>2 DEF Types
  <2>2. \A i \in Requests : saved'[r][i] = IF i \in seen[r] \cap Revocable(u, now[r]) THEN exp[i] ELSE 0
    BY <1>0, <1>1
  <2> QED  BY <2>1, <2>2 DEF Revocable
<1>10. \A q, i \in Requests : q # r => saved'[q][i] = 0
  <2> SUFFICES ASSUME NEW q \in Requests, NEW i \in Requests, q # r PROVE saved'[q][i] = 0
    OBVIOUS
  <2>1. ~Resending(q) /\ saved'[q] = saved[q]
    BY <1>3, <1>9
  <2> QED  BY <1>0, <2>1 DEF FlightInv
<1>11. \A i \in Requests : Open(i) => pc[i] \notin Unissued
  BY <1>0 DEF StageInv, Open
<1>12. FlightInv'
  <2>1. \A p \in Requests : Resending(p)' => now'[p] + Window <= coolUntil' /\ clock' < now'[p] + Window
    BY <1>0, <1>2, <1>3, <1>5 DEF FlightInv
  <2>2. \A p \in Requests : SeenInv(p)'
    <3>1. SeenInv(r)'
      BY <1>2, <1>3 DEF SeenInv
    <3>2. ASSUME NEW p \in Requests, p # r PROVE SeenInv(p)'
      BY <1>0, <1>2, <1>9, <3>2, SeenKept DEF FlightInv
    <3> QED  BY <3>1, <3>2
  <2>3. \A p, i \in Requests : saved'[p][i] # 0 => Resending(p)' /\ pc'[i] \notin Unissued
    <3> SUFFICES ASSUME NEW p \in Requests, NEW i \in Requests, saved'[p][i] # 0
                 PROVE  Resending(p)' /\ pc'[i] \notin Unissued
      OBVIOUS
    <3>1. p = r
      BY <1>10
    <3>2. Open(i)
      BY <1>9, <3>1
    <3> QED  BY <1>4, <1>5, <1>11, <3>1, <3>2
  <2> QED  BY <1>5, <2>1, <2>2, <2>3 DEF FlightInv
<1>13. ASSUME NEW i \in Requests \ {r}, NEW t \in Nat, Dead(i, t) PROVE Open(i)' => exp'[i] <= t
  <2> SUFFICES ASSUME Open(i)' PROVE exp'[i] <= t
    OBVIOUS
  <2>1. Open(i) /\ exp[i] <= t /\ exp'[i] <= exp[i] /\ exp'[i] \in Nat /\ exp[i] \in Nat
    BY <1>0, <1>6, <1>8, <1>13 DEF Dead
  <2> QED  BY SMT, <2>1
<1>14. \A i \in revoked : i \in Requests \ {r}
  BY <1>0, <1>4 DEF RevokedInv
<1>15. RevokedInv'
  <2>1. \A i \in revoked' : pc'[i] \notin Unissued /\ (Open(i)' => exp'[i] <= clock')
    BY <1>0, <1>2, <1>4, <1>13, <1>14 DEF RevokedInv
  <2>2. \A p \in Requests, i \in revoked' : Resending(p)' => (Open(i)' => exp'[i] <= now'[p]) /\ saved'[p][i] = 0
    <3> SUFFICES ASSUME NEW i \in revoked PROVE (Open(i)' => exp'[i] <= now[r]) /\ saved'[r][i] = 0
      BY <1>2, <1>5
    <3>1. i \in Requests \ {r} /\ Dead(i, now[r]) /\ now[r] \in Nat /\ exp[i] \in Nat
      BY <1>0, <1>3, <1>14 DEF RevokedInv
    <3>2. exp[i] <= now[r] => ~(exp[i] > now[r])
      BY SMT, <3>1
    <3> QED  BY <1>9, <1>13, <3>1, <3>2 DEF Dead
  <2>3. \A p \in Requests : kind'[p] = "resend" /\ pc'[p] = "created" =>
          \A i \in seen'[p] : pc'[i] \notin Unissued /\ (Open(i)' => exp'[i] <= now'[p])
    <3>1. \A p \in Requests : kind'[p] = "resend" /\ pc'[p] = "created" => p = r
      BY <1>4, <1>5 DEF Resending
    <3>2. ASSUME NEW i \in seen'[r] PROVE pc'[i] \notin Unissued /\ (Open(i)' => exp'[i] <= now[r])
      <4>1. i \in Requests \ {r} /\ holder[i] # None
        BY <1>3, <1>9, <3>2
      <4>2. pc[i] \notin Unissued
        BY <1>0, <4>1 DEF StageInv
      <4> QED  BY <1>4, <1>6, <1>8, <4>1, <4>2
    <3> QED  BY <1>2, <3>1, <3>2
  <2> QED  BY <2>1, <2>2, <2>3 DEF RevokedInv, Dead
<1>16. StaleInv'
  <2>1. StaleOf(r)'
    BY <1>2, <1>3 DEF StaleOf
  <2>2. ASSUME NEW q \in Requests, q # r PROVE StaleOf(q)'
    <3>1. \A i \in revoked : Dead(i, now[q]) => (Open(i)' => exp'[i] <= now[q])
      BY <1>0, <1>13, <1>14
    <3>2. StaleOf(q) /\ pc'[q] = pc[q]
      BY <1>0, <1>2, <2>2 DEF StaleInv
    <3> QED  BY <1>0, <1>2, <3>1, <3>2, StaleKept
  <2> QED  BY <2>1, <2>2 DEF StaleInv
<1>17. LiveInv'
  <2>1. \A i \in Requests : Live(i)' => i = r
    <3> SUFFICES ASSUME NEW i \in Requests \ {r}, Open(i)', exp'[i] > clock PROVE FALSE
      BY <1>2 DEF Live
    <3>1. exp'[i] <= now[r] /\ exp'[i] \in Nat /\ now[r] \in Nat /\ now[r] <= clock /\ clock \in Nat
      BY <1>0, <1>6, <1>8
    <3> QED  BY SMT, <3>1
  <2>2. \A p, i \in Requests : Returns(p, i)' => Live(i)
    <3> SUFFICES ASSUME NEW p \in Requests, NEW i \in Requests, saved'[p][i] > clock PROVE Live(i)
      BY <1>2 DEF Returns
    <3>1. saved'[p][i] # 0
      BY <1>0
    <3>2. p = r
      BY <1>10, <3>1
    <3> QED  BY <1>9, <3>1, <3>2 DEF Live
  <2>3. \A p, i \in Requests : Returns(p, i)' => p = r
    <3> SUFFICES ASSUME NEW p \in Requests, NEW i \in Requests, saved'[p][i] > clock PROVE p = r
      BY <1>2 DEF Returns
    <3>1. saved'[p][i] # 0
      BY <1>0
    <3> QED  BY <1>10, <3>1
  <2> QED  BY <1>0, <1>2, <2>1, <2>2, <2>3 DEF LiveInv
<1> QED  BY <1>12, <1>15, <1>16, <1>17 DEF ResendInv

(* The rollback of the resend in flight: its own rows go, and the one it   *)
(* had expired returns; none of the revoked ones does.                     *)
LEMMA ResendUndone ==
    ASSUME VerificationInv, TableInv, ResendInv, OneCurrent', NEW r \in Requests, RollbackResend(r)
    PROVE  ResendInv'
<1>0. Types /\ FlightInv /\ RevokedInv /\ StaleInv /\ LiveInv /\ ~(0 > clock) /\ revoked \subseteq Requests
  BY TableFacts DEF VerificationInv, ResendInv
<1>1. /\ pc[r] = "undo" /\ kind[r] = "resend" /\ Answer(r, "error") /\ "error" \in Answers
      /\ code' = [code EXCEPT ![r] = Discard(code[r])] /\ link' = [link EXCEPT ![r] = Discard(link[r])]
      /\ exp' = [i \in Requests |-> IF saved[r][i] # 0 /\ Open(i) /\ exp[i] <= now[r] THEN saved[r][i] ELSE exp[i]]
      /\ clock' = clock /\ coolUntil' = coolUntil /\ revoked' = revoked /\ stale' = stale /\ owners' = owners
  BY DEF RollbackResend, history, counts, Answers
<1>2. /\ OnlyOf(r) /\ pc'[r] = "done" /\ resp'[r] = "error" /\ kind'[r] = "none"
      /\ \A i \in Requests : saved'[r][i] = 0
  BY <1>0, <1>1, AnswerOnly
<1>3. Resending(r) /\ \A q \in Requests : Resending(q) => q = r
  <2>1. Resending(r)
    BY <1>1 DEF Resending, Flight
  <2> QED  BY <1>0, <2>1 DEF FlightInv
<1>4. \A q \in Requests : ~Resending(q)'
  <2> SUFFICES ASSUME NEW q \in Requests, kind'[q] = "resend", pc'[q] \in Flight PROVE FALSE
    BY DEF Resending
  <2>1. q # r
    BY <1>2
  <2> QED  BY <1>2, <1>3, <2>1 DEF Resending, OnlyOf
<1>5. \A q, i \in Requests : saved'[q][i] = 0
  <2> SUFFICES ASSUME NEW q \in Requests, NEW i \in Requests, q # r PROVE saved'[q][i] = 0
    BY <1>2
  <2>1. ~Resending(q) /\ saved'[q] = saved[q]
    BY <1>2, <1>3 DEF OnlyOf
  <2> QED  BY <1>0, <2>1 DEF FlightInv
<1>6. "done" \notin Unissued /\ \A i \in Requests : pc'[i] \in Unissued => pc[i] \in Unissued
  BY <1>2 DEF Unissued, OnlyOf
<1>7. ~Open(r)' /\ \A i \in Requests : Open(i)' => Open(i)
  BY <1>0, <1>1 DEF Open, Discard, Types
<1>8. \A i \in Requests : exp'[i] = exp[i] \/ exp'[i] = saved[r][i]
  BY <1>1
<1>9. \A i \in revoked : exp'[i] = exp[i]
  BY <1>0, <1>1, <1>3 DEF RevokedInv
<1>10. FlightInv'
  <2>1. \A p \in Requests : SeenInv(p)'
    <3>1. SeenInv(r)'
      BY <1>2 DEF SeenInv
    <3>2. ASSUME NEW p \in Requests, p # r PROVE SeenInv(p)'
      BY <1>0, <1>1, <1>2, <3>2, SeenKept DEF FlightInv, OnlyOf
    <3> QED  BY <3>1, <3>2
  <2> QED  BY <1>4, <1>5, <2>1 DEF FlightInv
<1>11. RevokedInv'
  <2>1. \A i \in revoked' : pc'[i] \notin Unissued /\ (Open(i)' => exp'[i] <= clock')
    BY <1>0, <1>1, <1>6, <1>7, <1>9 DEF RevokedInv, Dead
  <2>2. \A p \in Requests : ~(kind'[p] = "resend" /\ pc'[p] = "created")
    BY <1>4 DEF Resending, Flight
  <2> QED  BY <1>4, <2>1, <2>2 DEF RevokedInv, Dead
<1>12. StaleInv'
  <2>1. StaleOf(r)'
    BY <1>2 DEF StaleOf
  <2>2. ASSUME NEW q \in Requests, q # r PROVE StaleOf(q)'
    <3>1. \A i \in revoked : Dead(i, now[q]) => (Open(i)' => exp'[i] <= now[q])
      BY <1>0, <1>7, <1>9 DEF Dead
    <3>2. /\ kind'[q] = kind[q] /\ resp'[q] = resp[q] /\ now'[q] = now[q] /\ arg'[q] = arg[q]
          /\ stale'[q] = stale[q] /\ pc'[q] = pc[q] /\ StaleOf(q)
      BY <1>0, <1>2, <2>2 DEF OnlyOf, StaleInv
    <3> QED  BY <1>0, <1>1, <3>1, <3>2, StaleKept
  <2> QED  BY <2>1, <2>2 DEF StaleInv
<1>13. LiveInv'
  <2>1. \A p, i \in Requests : ~Returns(p, i)'
    BY <1>0, <1>1, <1>5 DEF Returns
  <2>2. \A i \in Requests : Live(i)' => i # r /\ (Live(i) \/ Returns(r, i))
    BY <1>1, <1>7, <1>8 DEF Live, Returns
  <2> QED  BY <1>0, <1>1, <2>1, <2>2 DEF LiveInv
<1> QED  BY <1>10, <1>11, <1>12, <1>13 DEF ResendInv

(* The job is queued: what a resend has seen is revoked.                   *)
LEMMA EnqueueResend ==
    ASSUME VerificationInv, TableInv, ResendInv, OneCurrent', NEW r \in Requests, Enqueue(r)
    PROVE  ResendInv'
<1>0. /\ Types /\ StageInv /\ FlightInv /\ RevokedInv /\ StaleInv /\ LiveInv
      /\ clock \in Nat /\ revoked \subseteq Requests /\ exp \in [Requests -> Nat]
      /\ now[r] <= clock /\ now[r] \in Nat /\ ~(0 > clock)
  BY TableFacts DEF VerificationInv, ResendInv
<1>1. /\ pc[r] = "created" /\ Answer(r, "ok") /\ "ok" \in Answers /\ revoked' = revoked \cup seen[r]
      /\ clock' = clock /\ coolUntil' = coolUntil /\ stale' = stale /\ owners' = owners
      /\ code' = code /\ link' = link /\ exp' = exp
  BY DEF Enqueue, table, Answers
<1>2. \A i \in Requests : Open(i)' <=> Open(i)
  BY <1>1 DEF Open
<1>3. CASE kind[r] # "resend"
  <2>1. seen[r] = {}
    BY <1>0, <1>1, <1>3 DEF FlightInv, SeenInv
  <2>2. revoked' = revoked
    BY <1>1, <2>1
  <2>3. kind[r] \notin {"otp", "magic"} \/ ~stale[r]
    <3>1. arg[r] = None /\ None \notin revoked /\ pc[r] \in Flight
      BY <1>0, <1>1, VerificationAssumption DEF VerificationAssumption, StageInv, Issuing, Flight
    <3> QED  BY <1>0, <3>1 DEF StaleInv, StaleOf
  <2> QED  BY <1>0, <1>1, <1>2, <2>2, <2>3, AnswerGentle
<1>4. CASE kind[r] = "resend"
  <2>1. /\ OnlyOf(r) /\ pc'[r] = "done" /\ kind'[r] = "resend"
        /\ \A i \in Requests : saved'[r][i] = 0
    BY <1>0, <1>1, <1>4, AnswerOnly
  <2>2. Resending(r) /\ \A q \in Requests : Resending(q) => q = r
    <3>1. Resending(r)
      BY <1>1, <1>4 DEF Resending, Flight
    <3> QED  BY <1>0, <3>1 DEF FlightInv
  <2>3. \A q \in Requests : ~Resending(q)'
    <3> SUFFICES ASSUME NEW q \in Requests, kind'[q] = "resend", pc'[q] \in Flight PROVE FALSE
      BY DEF Resending
    <3>1. q # r
      BY <2>1 DEF Flight
    <3> QED  BY <2>1, <2>2, <3>1 DEF Resending, OnlyOf
  <2>4. \A q, i \in Requests : saved'[q][i] = 0
    <3> SUFFICES ASSUME NEW q \in Requests, NEW i \in Requests, q # r PROVE saved'[q][i] = 0
      BY <2>1
    <3>1. ~Resending(q) /\ saved'[q] = saved[q]
      BY <2>1, <2>2 DEF OnlyOf
    <3> QED  BY <1>0, <3>1 DEF FlightInv
  <2>5. "done" \notin Unissued /\ \A i \in Requests : pc'[i] \in Unissued => pc[i] \in Unissued
    BY <2>1 DEF Unissued, OnlyOf
  <2>6. FlightInv'
    <3>1. \A p \in Requests : SeenInv(p)'
      <4>1. SeenInv(r)'
        BY <2>1 DEF SeenInv
      <4>2. ASSUME NEW p \in Requests, p # r PROVE SeenInv(p)'
        BY <1>0, <1>1, <2>1, <4>2, SeenKept DEF FlightInv, OnlyOf
      <4> QED  BY <4>1, <4>2
    <3> QED  BY <2>3, <2>4, <3>1 DEF FlightInv
  <2>7. RevokedInv'
    <3>1. ASSUME NEW i \in revoked' PROVE pc'[i] \notin Unissued /\ (Open(i)' => exp'[i] <= clock')
      <4>1. i \in Requests
        BY <1>0, <1>1, <3>1 DEF Types
      <4>2. CASE i \in revoked
        BY <1>0, <1>1, <1>2, <2>5, <4>1, <4>2 DEF RevokedInv, Dead
      <4>3. CASE i \in seen[r]
        <5>1. pc[i] \notin Unissued /\ Dead(i, now[r])
          BY <1>0, <1>1, <1>4, <4>3 DEF RevokedInv
        <5>2. exp[i] <= now[r] => exp[i] <= clock
          <6>1. exp[i] \in Nat /\ now[r] \in Nat /\ clock \in Nat /\ now[r] <= clock
            BY <1>0, <4>1
          <6> QED  BY SMT, <6>1
        <5> QED  BY <1>1, <1>2, <2>5, <4>1, <5>1, <5>2 DEF Dead
      <4> QED  BY <1>1, <4>2, <4>3
    <3>2. \A p \in Requests : ~(kind'[p] = "resend" /\ pc'[p] = "created")
      BY <2>3 DEF Resending, Flight
    <3> QED  BY <2>3, <3>1, <3>2 DEF RevokedInv, Dead
  <2>8. StaleInv'
    <3>1. StaleOf(r)'
      BY <2>1 DEF StaleOf
    <3>2. ASSUME NEW q \in Requests, q # r PROVE StaleOf(q)'
      <4>1. \A i \in revoked : Dead(i, now[q]) => (Open(i)' => exp'[i] <= now[q])
        BY <1>0, <1>1, <1>2 DEF Dead
      <4>2. /\ kind'[q] = kind[q] /\ resp'[q] = resp[q] /\ now'[q] = now[q] /\ arg'[q] = arg[q]
            /\ stale'[q] = stale[q] /\ pc'[q] = pc[q] /\ StaleOf(q) /\ revoked \subseteq revoked'
        BY <1>0, <1>1, <2>1, <3>2 DEF OnlyOf, StaleInv
      <4> QED  BY <1>0, <4>1, <4>2, StaleKept
    <3> QED  BY <3>1, <3>2 DEF StaleInv
  <2>9. LiveInv'
    <3>1. \A p, i \in Requests : ~Returns(p, i)'
      BY <1>0, <1>1, <2>4 DEF Returns
    <3>2. \A i \in Requests : Live(i)' => Live(i)
      BY <1>1, <1>2 DEF Live
    <3> QED  BY <1>0, <1>1, <3>1, <3>2 DEF LiveInv
  <2> QED  BY <2>6, <2>7, <2>8, <2>9 DEF ResendInv
<1> QED  BY <1>3, <1>4

(* Time passes, but no resend outlives its cooldown.                       *)
LEMMA TickResend ==
    ASSUME Types, TableInv, ResendInv, OneCurrent', Prompt, Tick \/ UNCHANGED vars
    PROVE  ResendInv'
<1>0. /\ FlightInv /\ RevokedInv /\ StaleInv /\ LiveInv /\ clock \in Nat
      /\ revoked \subseteq Requests /\ exp \in [Requests -> Nat] /\ saved \in [Requests -> [Requests -> Nat]]
  BY TableFacts DEF ResendInv
<1>1. /\ pc' = pc /\ kind' = kind /\ resp' = resp /\ now' = now /\ arg' = arg /\ seen' = seen /\ saved' = saved
      /\ code' = code /\ link' = link /\ exp' = exp /\ coolUntil' = coolUntil
      /\ revoked' = revoked /\ stale' = stale /\ owners' = owners
  BY DEF Tick, vars, table, locals, history, counts
<1>2. \/ clock' = clock
      \/ clock' = clock + 1 /\ \A p \in Requests : Resending(p) => clock + 1 < now[p] + Window
  BY DEF Tick, vars, Resending
<1>3. \A i \in Requests : (Open(i)' <=> Open(i)) /\ (Resending(i)' <=> Resending(i))
  BY <1>1 DEF Open, Resending
<1>4. \A n \in Nat : (n > clock' => n > clock) /\ (n <= clock => n <= clock')
  <2>1. clock \in Nat /\ (clock' = clock \/ clock' = clock + 1)
    BY <1>0, <1>2
  <2> QED  BY SMT, <2>1
<1>5. FlightInv'
  <2>1. \A p \in Requests : Resending(p) => clock' < now[p] + Window
    <3>1. CASE clock' = clock
      BY <1>0, <3>1 DEF FlightInv
    <3>2. CASE clock' = clock + 1 /\ \A p \in Requests : Resending(p) => clock + 1 < now[p] + Window
      BY <3>2
    <3> QED  BY <1>2, <3>1, <3>2
  <2>2. \A p \in Requests : Resending(p)' => now'[p] + Window <= coolUntil' /\ clock' < now'[p] + Window
    BY <1>0, <1>1, <1>3, <2>1 DEF FlightInv
  <2>3. \A p \in Requests : SeenInv(p)'
    BY <1>0, <1>1, SeenKept DEF FlightInv
  <2> QED  BY <1>0, <1>1, <1>3, <2>2, <2>3 DEF FlightInv
<1>6. RevokedInv'
  <2>1. \A i \in revoked' : pc'[i] \notin Unissued /\ (Open(i)' => exp'[i] <= clock')
    BY <1>0, <1>1, <1>3, <1>4 DEF RevokedInv, Dead
  <2>2. \A p \in Requests, i \in revoked' : Resending(p)' => (Open(i)' => exp'[i] <= now'[p]) /\ saved'[p][i] = 0
    BY <1>0, <1>1, <1>3 DEF RevokedInv, Dead
  <2>3. \A p \in Requests : kind'[p] = "resend" /\ pc'[p] = "created" =>
          \A i \in seen'[p] : pc'[i] \notin Unissued /\ (Open(i)' => exp'[i] <= now'[p])
    <3>1. \A p \in Requests : \A i \in seen[p] : i \in Requests
      BY DEF Types
    <3> QED  BY <1>0, <1>1, <1>3, <3>1 DEF RevokedInv, Dead
  <2> QED  BY <2>1, <2>2, <2>3 DEF RevokedInv, Dead
<1>7. StaleInv'
  BY <1>0, <1>1 DEF StaleInv, StaleOf, Dead, Open
<1>8. LiveInv'
  <2>1. \A i \in Requests : Live(i)' => Live(i)
    BY <1>0, <1>1, <1>3, <1>4 DEF Live
  <2>2. \A p, i \in Requests : Returns(p, i)' => Returns(p, i)
    BY <1>0, <1>1, <1>3, <1>4 DEF Returns
  <2> QED  BY <1>0, <1>1, <2>1, <2>2 DEF LiveInv
<1> QED  BY <1>5, <1>6, <1>7, <1>8 DEF ResendInv

(* Every step keeps the invariant while resends are prompt.                *)
LEMMA StepResend ==
    ASSUME Prompt, VerificationInv, TableInv, ResendInv, [Next]_vars
    PROVE  ResendInv'
<1>1. Types /\ OneCurrent /\ Effect
  BY StepSafe DEF VerificationInv, ResendInv
<1>2. OneCurrent'
  BY <1>1, CurrentKept
<1>3. ASSUME NEW r \in Requests,
             \/ RegisterBegin(r) \/ BootstrapBegin(r)
             \/ \E a \in Known : VerifyEmailBegin(r, a) \/ VerifyMagicLinkBegin(r, a)
      PROVE  ResendInv'
  BY <1>2, <1>3, BeginGentle DEF RegisterBegin, BootstrapBegin, VerifyEmailBegin, VerifyMagicLinkBegin
<1> QED  BY <1>1, <1>2, <1>3, RefusedResend, ReadResend, DecideResend, CleanupResend, EnqueueFailsResend,
            BootstrapResend, FirstResend, ResendBegins, ResendIssues, ResendUndone, EnqueueResend, TickResend
         DEF Next

(* While resends are answered before their cooldown is over, one at a time *)
(* is in flight, and what a successful one revoked stays dead.             *)
THEOREM ResendsInvariant ==
    ASSUME Prompt
    PROVE  Spec => []ResendInv
<1>1. Init => ResendInv
  <2> SUFFICES ASSUME Init PROVE ResendInv
    OBVIOUS
  <2>1. /\ \A r \in Requests : pc[r] = "idle" /\ kind[r] = "none" /\ seen[r] = {}
        /\ \A r, i \in Requests : saved[r][i] = 0
        /\ \A r \in Requests : ~Open(r) /\ ~Resending(r)
        /\ revoked = {} /\ clock = 0 /\ Current = {}
    BY DEF Init, Open, Resending, Current
  <2>2. OneCurrent /\ FlightInv
    BY <2>1 DEF OneCurrent, FlightInv, SeenInv
  <2>3. RevokedInv /\ StaleInv
    BY <2>1 DEF RevokedInv, StaleInv, StaleOf
  <2>4. LiveInv
    BY <2>1 DEF LiveInv, Live, Returns
  <2> QED  BY <2>2, <2>3, <2>4 DEF ResendInv
<1>2. VerificationInv /\ TableInv /\ ResendInv /\ [Next]_vars => ResendInv'
  BY StepResend
<1> QED  BY <1>1, <1>2, Invariance, TablesInvariant, PTL DEF Spec

(* A resend revokes the old codes and links: no request that began after   *)
(* its answer succeeds with one of them.                                   *)
THEOREM ResendVoids ==
    ASSUME Prompt
    PROVE  Spec => []ResendVoidsOlder
<1>1. ResendInv => ResendVoidsOlder
  BY DEF ResendInv, StaleInv, StaleOf, ResendVoidsOlder
<1> QED  BY <1>1, ResendsInvariant, PTL

(* At most one verification of the address is alive, whatever resends are  *)
(* undone, apart from the one Bootstrap adds to its own owner.             *)
THEOREM OneLive ==
    ASSUME Prompt
    PROVE  Spec => []OneLiveVerification
<1>1. ResendInv => OneLiveVerification
  BY DEF ResendInv, LiveInv, Live, OneLiveVerification
<1> QED  BY <1>1, ResendsInvariant, PTL
=============================================================================
