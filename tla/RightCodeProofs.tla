-------------------------- MODULE RightCodeProofs --------------------------
(***************************************************************************)
(* For any requests and bounds, while resends are answered before their    *)
(* cooldown is over: the OTP of the only verification that is alive is     *)
(* accepted.  VerifyEmailOTP compares a code with the newest open row, by  *)
(* created_at, which is when the row's transaction began and not when it   *)
(* committed; so the proof keeps track of every row that stands before     *)
(* another, through the commits and rollbacks that change their expiry.    *)
(***************************************************************************)
EXTENDS EmailVerificationProofs

(* Leaves are for Zenon, but for those that cite SMT.                      *)
USE Zenon

(* Every transaction that creates rows has a time of its own.              *)
Times(i) == {stamp[i], created[i]} \ {0}
DistinctInv == \A i, j \in Requests : i # j => Times(i) \cap Times(j) = {}
DatedInv == \A i \in Requests : code[i] = "open" => created[i] # 0

(* A resend that has locked the user's row is no user itself; an owner is. *)
StartInv ==
    /\ \A p \in Requests : pc[p] = "selected" => account[p] = "none" /\ Current # {}
    /\ \A a \in owners : account[a] # "none"

(* A resend in flight began after the other resends, and, where its time   *)
(* is later than that of a Bootstrap about to issue, with no earlier now.  *)
LaterInv ==
    \A p \in Requests : Resending(p) =>
        /\ \A i \in Requests \ {p} : holder[i] \notin {None, i} => created[i] < stamp[p]
        /\ \A a \in Requests : pc[a] = "issuing" /\ stamp[a] < stamp[p] => now[a] <= now[p]

(* What a resend saved, it has expired; while it holds the user's row, it  *)
(* has seen what is alive.                                                 *)
SavedInv ==
    /\ \A p, i \in Requests : saved[p][i] # 0 => exp[i] <= now[p]
    /\ \A p, i \in Requests : pc[p] = "selected" /\ Open(i) /\ exp[i] > now[p] => i \in seen[p]

(* The code of a is compared after that of i.                              *)
Behind(a, i) ==
    /\ code[a] = "open" /\ code[i] = "open"
    /\ created[holder[a]] <= created[a] /\ created[a] < created[i]

(* Such a code is dead, and returns only when i is undone.                 *)
OrderInv ==
    \A a \in Requests \ owners, i \in Requests : Behind(a, i) =>
        /\ exp[a] <= clock
        /\ \A p \in Requests \ {i} : saved[p][a] <= clock

(* The row that Bootstrap has issued for its owner a, or is about to: its  *)
(* created_at, its expiry, also if p is undone, and the rows before it.    *)
Since(a) == IF pc[a] = "issuing" THEN stamp[a] ELSE created[a]
Due(a) == IF pc[a] = "issuing" THEN now[a] + TTL ELSE exp[a]
Undone(p, i) == IF saved[p][i] # 0 THEN saved[p][i] ELSE exp[i]
DueUndone(p, a) == IF pc[a] = "issuing" THEN now[a] + TTL ELSE Undone(p, a)
Ahead(a) == {i \in Requests \ {a} : code[i] = "open" /\ holder[i] = a /\ Since(a) < created[i]}

Mails(a) == a \in owners /\ account[a] = "pending" /\ (pc[a] = "issuing" \/ code[a] = "open")
Undoable(p) == Resending(p) /\ pc[p] \in {"created", "undo"}

(* One of the rows before it outlives it.                                  *)
Ranked(a) == \A i \in Ahead(a) : \E t \in Ahead(a) : Due(a) <= exp[t]
RankedUndone(p, a) == \A i \in Ahead(a) \ {p} : \E t \in Ahead(a) \ {p} : DueUndone(p, a) <= Undone(p, t)

OwnerInv ==
    \A a \in Requests : Mails(a) => Ranked(a) /\ \A p \in Requests : Undoable(p) => RankedUndone(p, a)

CodeInv == DistinctInv /\ DatedInv /\ StartInv /\ LaterInv /\ SavedInv /\ OrderInv /\ OwnerInv

(* Types of what the argument reads besides.                               *)
LEMMA TimeFacts ==
    ASSUME TableInv
    PROVE  /\ created \in [Requests -> Nat] /\ stamp \in [Requests -> Nat] /\ owners \subseteq Requests
           /\ \A r \in Requests : /\ stamp[r] \in Nat /\ created[r] \in Nat /\ exp[r] \in Nat /\ now[r] \in Nat
                                  /\ now[r] + TTL \in Nat
           /\ \A p, i \in Requests : saved[p][i] \in Nat
<1>1. /\ created \in [Requests -> Nat] /\ stamp \in [Requests -> Nat] /\ owners \subseteq Requests
      /\ exp \in [Requests -> Nat] /\ now \in [Requests -> Nat] /\ saved \in [Requests -> [Requests -> Nat]]
  BY TableFacts DEF TableInv, TableTypes
<1>2. \A n \in Nat : n + TTL \in Nat
  BY SMT, VerificationAssumption DEF VerificationAssumption
<1>3. \A p, i \in Requests : saved[p][i] \in Nat
  BY <1>1
<1> QED  BY <1>1, <1>2, <1>3

(* A step of request r leaves also the transaction times of the others.    *)
Alone(r) == OnlyOf(r) /\ \A q \in Requests \ {r} : stamp'[q] = stamp[q]

(* The times stay distinct when one request gets the next time, uses its   *)
(* time or forgets it.                                                     *)
LEMMA DistinctKept ==
    ASSUME TableInv, DistinctInv, NEW r \in Requests,
           \A q \in Requests \ {r} : stamp'[q] = stamp[q] /\ created'[q] = created[q],
           stamp'[r] \in {stamp[r], 0, Latest + 1}, created'[r] \in {created[r], stamp[r]}
    PROVE  DistinctInv'
<1>1. \A q \in Requests \ {r} : Times(q)' = Times(q)
  BY DEF Times
<1>2. Times(r)' \subseteq Times(r) \cup {Latest + 1}
  BY DEF Times
<1>3. \A q \in Requests : Latest + 1 \notin Times(q)
  <2>1. Latest \in Nat /\ \A q \in Requests : stamp[q] <= Latest /\ created[q] <= Latest
    BY LatestFacts
  <2>2. \A q \in Requests : stamp[q] \in Nat /\ created[q] \in Nat
    BY TimeFacts
  <2>3. \A q \in Requests : stamp[q] # Latest + 1 /\ created[q] # Latest + 1
    BY SMT, <2>1, <2>2
  <2> QED  BY <2>3 DEF Times
<1>4. ASSUME NEW i \in Requests, NEW j \in Requests, i # j PROVE Times(i)' \cap Times(j)' = {}
  <2>1. Times(i) \cap Times(j) = {}
    BY <1>4 DEF DistinctInv
  <2>2. CASE i = r
    <3>1. Times(j)' = Times(j)
      BY <1>1, <1>4, <2>2
    <3> QED  BY <1>2, <1>3, <2>1, <2>2, <3>1
  <2>3. CASE j = r
    <3>1. Times(i)' = Times(i)
      BY <1>1, <1>4, <2>3
    <3> QED  BY <1>2, <1>3, <2>1, <2>3, <3>1
  <2>4. CASE i # r /\ j # r
    <3>1. Times(i)' = Times(i) /\ Times(j)' = Times(j)
      BY <1>1, <2>4
    <3> QED  BY <2>1, <3>1
  <2> QED  BY <2>2, <2>3, <2>4
<1> QED  BY <1>4 DEF DistinctInv

(* A request keeps its time, or gets the next one with the present clock.  *)
LEMMA LaterKept ==
    ASSUME TableInv, FlightInv, LaterInv, NEW r \in Requests, Alone(r),
           \A i \in Requests \ {r} : created'[i] = created[i] /\ holder'[i] \in {holder[i], None},
           \/ holder'[r] \in {None, r}
           \/ holder'[r] = holder[r] /\ created'[r] = created[r]
           \/ Resending(r),
           Resending(r)' => \/ Resending(r) /\ now'[r] = now[r] /\ stamp'[r] = stamp[r]
                            \/ now'[r] = clock /\ stamp'[r] = Latest + 1,
           pc'[r] = "issuing" => \/ pc[r] = "issuing" /\ now'[r] = now[r] /\ stamp'[r] = stamp[r]
                                 \/ stamp'[r] = Latest + 1
    PROVE  LaterInv'
<1>1. /\ \A q \in Requests : /\ ~(Latest + 1 < stamp[q]) /\ created[q] < Latest + 1
                             /\ ~(stamp[q] < stamp[q]) /\ now[q] <= clock
      /\ ~(Latest + 1 < Latest + 1)
  <2>1. Latest \in Nat /\ \A q \in Requests : stamp[q] <= Latest /\ created[q] <= Latest
    BY LatestFacts
  <2>2. \A q \in Requests : stamp[q] \in Nat /\ created[q] \in Nat /\ now[q] <= clock
    BY TimeFacts, TableFacts
  <2> QED  BY SMT, <2>1, <2>2
<1>2. \A q \in Requests \ {r} :
         /\ pc'[q] = pc[q] /\ now'[q] = now[q] /\ stamp'[q] = stamp[q]
         /\ Resending(q)' => Resending(q)
  BY DEF Alone, OnlyOf, Resending
<1>3. \A p, q \in Requests : Resending(p) /\ Resending(q) => p = q
  BY DEF FlightInv
<1> SUFFICES ASSUME NEW p \in Requests, Resending(p)'
             PROVE  /\ \A i \in Requests \ {p} : holder'[i] \notin {None, i} => created'[i] < stamp'[p]
                    /\ \A a \in Requests : pc'[a] = "issuing" /\ stamp'[a] < stamp'[p] => now'[a] <= now'[p]
  BY DEF LaterInv
<1>4. CASE p = r /\ now'[r] = clock /\ stamp'[r] = Latest + 1
  BY <1>1, <1>2, <1>4
<1>5. CASE Resending(p) /\ now'[p] = now[p] /\ stamp'[p] = stamp[p]
  <2>1. /\ \A i \in Requests \ {p} : holder[i] \notin {None, i} => created[i] < stamp[p]
        /\ \A a \in Requests : pc[a] = "issuing" /\ stamp[a] < stamp[p] => now[a] <= now[p]
    BY <1>5 DEF LaterInv
  <2>2. ASSUME NEW i \in Requests \ {p}, holder'[i] \notin {None, i} PROVE created'[i] < stamp'[p]
    <3>1. CASE i # r
      BY <1>5, <2>1, <2>2, <3>1
    <3>2. CASE i = r
      <4>1. ~Resending(r)
        BY <1>3, <1>5, <2>2, <3>2
      <4> QED  BY <1>5, <2>1, <2>2, <3>2, <4>1
    <3> QED  BY <3>1, <3>2
  <2>3. ASSUME NEW a \in Requests, pc'[a] = "issuing", stamp'[a] < stamp'[p] PROVE now'[a] <= now'[p]
    <3>1. CASE a # r
      BY <1>2, <1>5, <2>1, <2>3, <3>1
    <3>2. CASE a = r
      BY <1>1, <1>5, <2>1, <2>3, <3>2
    <3> QED  BY <3>1, <3>2
  <2> QED  BY <2>2, <2>3
<1> QED  BY <1>2, <1>4, <1>5

(* A step that opens no row and moves no expiry keeps what was saved.      *)
LEMMA SavedKept ==
    ASSUME SavedInv, NEW r \in Requests, Alone(r), UNCHANGED exp,
           \A i \in Requests : Open(i)' => Open(i),
           \A i \in Requests : saved'[r][i] # 0 => saved[r][i] # 0 /\ now'[r] = now[r],
           pc'[r] = "selected" => \A i \in Requests : Open(i) /\ exp[i] > now'[r] => i \in seen'[r]
    PROVE  SavedInv'
<1>1. ASSUME NEW p \in Requests, NEW i \in Requests, saved'[p][i] # 0 PROVE exp'[i] <= now'[p]
  <2>1. saved[p][i] # 0 /\ now'[p] = now[p]
    BY <1>1 DEF Alone, OnlyOf
  <2> QED  BY <2>1 DEF SavedInv
<1>2. ASSUME NEW p \in Requests, NEW i \in Requests, pc'[p] = "selected", Open(i)', exp'[i] > now'[p]
      PROVE  i \in seen'[p]
  <2>1. Open(i) /\ exp[i] > now'[p]
    BY <1>2
  <2>2. CASE p = r
    BY <1>2, <2>1, <2>2
  <2>3. CASE p # r
    <3>1. pc[p] = "selected" /\ now'[p] = now[p] /\ seen'[p] = seen[p]
      BY <1>2, <2>3 DEF Alone, OnlyOf
    <3> QED  BY <2>1, <3>1 DEF SavedInv
  <2> QED  BY <2>2, <2>3
<1> QED  BY <1>1, <1>2 DEF SavedInv

(* Neither does it put a live code behind another.                         *)
LEMMA OrderKept ==
    ASSUME TableInv, OrderInv, UNCHANGED <<exp, created>>, owners \subseteq owners',
           \A n \in Nat : n <= clock => n <= clock',
           \A i \in Requests : code'[i] = "open" => code[i] = "open" /\ holder'[i] = holder[i],
           \A p, i \in Requests : saved'[p][i] \in {saved[p][i], 0}
    PROVE  OrderInv'
<1> SUFFICES ASSUME NEW a \in Requests \ owners', NEW i \in Requests, Behind(a, i)'
             PROVE  exp'[a] <= clock' /\ \A p \in Requests \ {i} : saved'[p][a] <= clock'
  BY DEF OrderInv
<1>1. a \in Requests \ owners /\ Behind(a, i)
  BY DEF Behind
<1>2. exp[a] <= clock /\ \A p \in Requests \ {i} : saved[p][a] <= clock
  BY <1>1 DEF OrderInv
<1>3. exp[a] \in Nat /\ (\A p \in Requests : saved[p][a] \in Nat) /\ 0 \in Nat /\ 0 <= clock
  <2>1. clock \in Nat
    BY TableFacts
  <2>2. 0 \in Nat /\ 0 <= clock
    BY SMT, <2>1
  <2> QED  BY <1>1, <2>2, TimeFacts
<1>4. ASSUME NEW p \in Requests \ {i} PROVE saved'[p][a] <= clock'
  <2>1. saved'[p][a] = saved[p][a] \/ saved'[p][a] = 0
    OBVIOUS
  <2> QED  BY <1>2, <1>3, <2>1
<1> QED  BY <1>2, <1>3, <1>4

(* A row that Bootstrap issues keeps its rank among rows that stay.        *)
LEMMA RankKept ==
    ASSUME NEW a \in Requests, Ranked(a), Ahead(a)' = Ahead(a), Due(a)' = Due(a), UNCHANGED exp
    PROVE  Ranked(a)'
BY DEF Ranked

LEMMA RankUndoneKept ==
    ASSUME NEW a \in Requests, NEW p \in Requests, RankedUndone(p, a), Ahead(a)' = Ahead(a),
           DueUndone(p, a)' = DueUndone(p, a), UNCHANGED exp, saved'[p] = saved[p]
    PROVE  RankedUndone(p, a)'
<1>1. \A t \in Requests : Undone(p, t)' = Undone(p, t)
  BY DEF Undone
<1>2. Ahead(a) \subseteq Requests
  BY DEF Ahead
<1> QED  BY <1>1, <1>2 DEF RankedUndone

(* Bootstrap's rows in a step that opens no row.                           *)
LEMMA OwnerKept ==
    ASSUME VerificationInv, TableInv, StartInv, OwnerInv, NEW r \in Requests, Alone(r), UNCHANGED <<exp, created>>,
           \A i \in Requests : code'[i] = "open" => code[i] = "open" /\ holder'[i] = holder[i],
           \A a \in Requests : account'[a] = "pending" =>
              /\ account[a] \in {"pending", "none"}
              /\ \A i \in Requests : code[i] = "open" /\ holder[i] = a => code'[i] = "open",
           owners' \subseteq owners \cup {r}, r \in owners' \ owners => pc'[r] = "owner" /\ code'[r] # "open",
           pc'[r] = "issuing" => \/ pc[r] = "issuing" /\ now'[r] = now[r] /\ stamp'[r] = stamp[r]
                                 \/ stamp'[r] = Latest + 1,
           Undoable(r)' => Undoable(r) /\ saved'[r] = saved[r]
    PROVE  OwnerInv'
<1> SUFFICES ASSUME NEW a \in Requests, Mails(a)'
             PROVE  Ranked(a)' /\ \A p \in Requests : Undoable(p)' => RankedUndone(p, a)'
  BY DEF OwnerInv
<1>1. a \in owners /\ account[a] = "pending"
  <2>1. a \in owners
    BY DEF Mails
  <2> QED  BY <2>1 DEF Mails, StartInv
<1>2. \A p \in Requests : Undoable(p)' => Undoable(p) /\ saved'[p] = saved[p]
  <2>1. ASSUME NEW p \in Requests, p # r, Undoable(p)' PROVE Undoable(p) /\ saved'[p] = saved[p]
    BY <2>1 DEF Undoable, Resending, Alone, OnlyOf
  <2> QED  BY <2>1
<1>3. CASE pc'[a] = "issuing" /\ stamp'[a] = Latest + 1
  <2>1. \A i \in Requests : ~(Latest + 1 < created[i])
    <3>1. Latest \in Nat /\ \A i \in Requests : created[i] <= Latest /\ created[i] \in Nat
      BY LatestFacts, TimeFacts
    <3> QED  BY SMT, <3>1
  <2>2. Ahead(a)' = {}
    BY <1>3, <2>1 DEF Ahead, Since
  <2> QED  BY <2>2 DEF Ranked, RankedUndone
<1>4. CASE /\ pc'[a] = "issuing" <=> pc[a] = "issuing"
           /\ pc[a] = "issuing" => now'[a] = now[a] /\ stamp'[a] = stamp[a]
  <2>1. Mails(a)
    BY <1>1, <1>4 DEF Mails
  <2>2. Since(a)' = Since(a) /\ Due(a)' = Due(a)
    BY <1>4 DEF Since, Due
  <2>3. Ahead(a)' = Ahead(a)
    <3>1. \A i \in Requests : code'[i] = "open" /\ holder'[i] = a <=> code[i] = "open" /\ holder[i] = a
      BY DEF Mails
    <3> QED  BY <2>2, <3>1 DEF Ahead
  <2>4. Ranked(a)'
    BY <2>1, <2>2, <2>3, RankKept DEF OwnerInv
  <2>5. ASSUME NEW p \in Requests, Undoable(p)' PROVE RankedUndone(p, a)'
    <3>1. RankedUndone(p, a) /\ saved'[p] = saved[p]
      BY <1>2, <2>1, <2>5 DEF OwnerInv
    <3>2. DueUndone(p, a)' = DueUndone(p, a)
      BY <1>4, <3>1 DEF DueUndone, Undone
    <3> QED  BY <2>3, <3>1, <3>2, RankUndoneKept
  <2> QED  BY <2>4, <2>5
<1>5. CASE pc'[a] # "issuing" /\ pc[a] = "issuing"
  <2>1. code[a] = "none"
    BY <1>5 DEF VerificationInv, StageInv, Unissued
  <2> QED  BY <1>5, <2>1 DEF Mails
<1>6. a # r => pc'[a] = pc[a] /\ now'[a] = now[a] /\ stamp'[a] = stamp[a]
  BY DEF Alone, OnlyOf
<1> QED  BY <1>3, <1>4, <1>5, <1>6

(* Who is an account and who holds the row of one, step by step.           *)
LEMMA StartKept ==
    ASSUME StartInv, NEW r \in Requests, \A q \in Requests \ {r} : pc'[q] = pc[q],
           pc'[r] = "selected" => account'[r] = "none" /\ Current' # {},
           \A q \in Requests : account[q] # "none" => account'[q] # "none",
           owners' \subseteq owners \cup {r}, r \in owners' \ owners => account'[r] # "none", owners \subseteq Requests,
           \/ UserFree
           \/ /\ \A q \in Requests \ {r} : account[q] = "none" => account'[q] = "none"
              /\ Current # {} => Current' # {}
    PROVE  StartInv'
<1>1. ASSUME NEW p \in Requests, pc'[p] = "selected" PROVE account'[p] = "none" /\ Current' # {}
  <2>1. CASE p = r
    BY <1>1, <2>1
  <2>2. CASE p # r
    <3>1. pc[p] = "selected" /\ account[p] = "none" /\ Current # {} /\ ~UserFree
      BY <1>1, <2>2 DEF StartInv, UserFree
    <3> QED  BY <2>2, <3>1
  <2> QED  BY <2>1, <2>2
<1>2. ASSUME NEW a \in owners' PROVE account'[a] # "none"
  BY <1>2 DEF StartInv
<1> QED  BY <1>1, <1>2 DEF StartInv

(* What a step without a new row does to the tables: rows of an account    *)
(* that stays pending stay, and no account becomes pending but a new one.  *)
Closing ==
    /\ UNCHANGED <<exp, created>>
    /\ \A i \in Requests :
          /\ code'[i] = "open" => code[i] = "open" /\ holder'[i] = holder[i]
          /\ Open(i)' => Open(i)
          /\ holder'[i] \in {holder[i], None}
    /\ \A a \in Requests : account'[a] = "pending" =>
          /\ account[a] \in {"pending", "none"}
          /\ \A i \in Requests : code[i] = "open" /\ holder[i] = a => code'[i] = "open"

(* What it does to its request.                                            *)
Quiet(r) ==
    /\ Alone(r) /\ clock' = clock /\ Closing
    /\ owners \subseteq owners' /\ owners' \subseteq owners \cup {r}
    /\ r \in owners' \ owners => pc'[r] = "owner" /\ code'[r] # "open"
    /\ \A i \in Requests : saved'[r][i] = 0 \/ (saved'[r][i] = saved[r][i] /\ now'[r] = now[r])
    /\ stamp'[r] \in {stamp[r], 0, Latest + 1}
    /\ Resending(r)' => \/ Resending(r) /\ now'[r] = now[r] /\ stamp'[r] = stamp[r]
                        \/ now'[r] = clock /\ stamp'[r] = Latest + 1
    /\ pc'[r] = "issuing" => \/ pc[r] = "issuing" /\ now'[r] = now[r] /\ stamp'[r] = stamp[r]
                             \/ stamp'[r] = Latest + 1
    /\ pc'[r] = "selected" => \A i \in Requests : Open(i) /\ exp[i] > now'[r] => i \in seen'[r]
    /\ Undoable(r)' => Undoable(r) /\ saved'[r] = saved[r]

(* Such a step keeps the invariant.                                        *)
LEMMA QuietCode ==
    ASSUME VerificationInv, TableInv, ResendInv, CodeInv, StartInv', NEW r \in Requests, Quiet(r)
    PROVE  CodeInv'
<1>0. /\ DistinctInv /\ DatedInv /\ StartInv /\ LaterInv /\ SavedInv /\ OrderInv /\ OwnerInv /\ FlightInv
      /\ Alone(r) /\ Closing /\ exp' = exp /\ created' = created
  BY DEF CodeInv, ResendInv, Quiet, Closing
<1>1. DistinctInv'
  BY <1>0, DistinctKept DEF Alone, Quiet
<1>2. LaterInv'
  BY <1>0, LaterKept DEF Closing, Quiet
<1>3. SavedInv'
  <2>1. \A i \in Requests : saved'[r][i] # 0 => saved[r][i] # 0 /\ now'[r] = now[r]
    BY DEF Quiet
  <2> QED  BY <1>0, <2>1, SavedKept DEF Closing, Quiet
<1>4. OrderInv'
  <2>1. \A p, i \in Requests : saved'[p][i] \in {saved[p][i], 0}
    BY <1>0 DEF Quiet, Alone, OnlyOf
  <2>2. clock' = clock /\ owners \subseteq owners'
    BY DEF Quiet
  <2> QED  BY <1>0, <2>1, <2>2, OrderKept DEF Closing
<1>5. OwnerInv'
  BY <1>0, OwnerKept DEF Closing, Quiet
<1>6. DatedInv'
  BY <1>0 DEF DatedInv, Closing
<1> QED  BY <1>1, <1>2, <1>3, <1>4, <1>5, <1>6 DEF CodeInv

(* The tables stay.                                                        *)
LEMMA SameClosing == UNCHANGED <<account, holder, code, link, exp, created>> => Closing
BY DEF Closing, Open

(* A request is answered.                                                  *)
LEMMA AnswerCode ==
    ASSUME VerificationInv, TableInv, ResendInv, CodeInv, NEW r \in Requests, NEW a \in Answers, Answer(r, a),
           UNCHANGED <<clock, stale, owners>>, Closing,
           UserFree \/ UNCHANGED account, \A q \in Requests : account[q] # "none" => account'[q] # "none"
    PROVE  CodeInv'
<1>0. Types /\ StartInv /\ owners \subseteq Requests
  BY TimeFacts DEF VerificationInv, CodeInv
<1>1. /\ OnlyOf(r) /\ pc'[r] = "done" /\ \A i \in Requests : saved'[r][i] = 0
  BY <1>0, AnswerOnly
<1>2. stamp'[r] = 0 /\ \A q \in Requests \ {r} : stamp'[q] = stamp[q]
  BY <1>0, AnswerTimes
<1>3. ~Resending(r)' /\ ~Undoable(r)'
  BY <1>1 DEF Resending, Undoable, Flight
<1>4. StartInv'
  BY <1>0, <1>1, StartKept DEF OnlyOf, Current
<1>5. Quiet(r)
  BY <1>1, <1>2, <1>3 DEF Quiet, Alone
<1> QED  BY <1>4, <1>5, QuietCode

(* A request goes on.                                                      *)
LEMMA GotoCode ==
    ASSUME VerificationInv, TableInv, ResendInv, CodeInv, NEW r \in Requests, NEW l \in Flight, Goto(r, l),
           UNCHANGED <<clock, account, holder, code, link, exp, created, saved, stale, owners>>,
           \A q \in Requests \ {r} : seen'[q] = seen[q],
           pc[r] \in Flight, l \notin {"issuing", "created"},
           l = "undo" => pc[r] = "created",
           l = "selected" => /\ account[r] = "none" /\ Current # {}
                             /\ \A i \in Requests : Open(i) /\ exp[i] > now[r] => i \in seen'[r]
    PROVE  CodeInv'
<1>0. Types /\ StartInv /\ owners \subseteq Requests
  BY TimeFacts DEF VerificationInv, CodeInv
<1>1. /\ kind' = kind /\ resp' = resp /\ arg' = arg /\ now' = now /\ stamp' = stamp
      /\ pc'[r] = l /\ \A q \in Requests \ {r} : pc'[q] = pc[q]
  BY <1>0, GotoFacts DEF Goto, locals
<1>2. Alone(r)
  BY <1>1 DEF Alone, OnlyOf
<1>3. /\ Resending(r)' => Resending(r)
      /\ Undoable(r)' => Undoable(r)
  BY <1>1 DEF Resending, Undoable
<1>4. StartInv'
  BY <1>0, <1>1, StartKept DEF Current
<1>5. Quiet(r)
  BY <1>1, <1>2, <1>3, SameClosing DEF Quiet
<1> QED  BY <1>4, <1>5, QuietCode

(* A request begins.                                                       *)
LEMMA BeginCode ==
    ASSUME VerificationInv, TableInv, ResendInv, CodeInv, NEW r \in Requests, NEW k, NEW a, Begin(r, k, a),
           Stamp(r) \/ (UNCHANGED stamp /\ k # "resend")
    PROVE  CodeInv'
<1>0. /\ Types /\ StageInv /\ StartInv /\ FlightInv /\ now \in [Requests -> Nat] /\ stale \in [Requests -> BOOLEAN]
      /\ stamp \in [Requests -> Nat] /\ owners \subseteq Requests
  BY TableFacts, TimeFacts DEF VerificationInv, CodeInv, ResendInv
<1>1. /\ UNCHANGED <<clock, account, holder, code, link, exp, created, resp, seen, saved, owners>>
      /\ pc[r] = "idle" /\ pc' = [pc EXCEPT ![r] = "begun"] /\ kind' = [kind EXCEPT ![r] = k]
      /\ now' = [now EXCEPT ![r] = clock] /\ arg' = [arg EXCEPT ![r] = a]
      /\ stale' = [stale EXCEPT ![r] = a \in revoked]
  BY DEF Begin, table
<1>2. pc'[r] = "begun" /\ kind'[r] = k /\ now'[r] = clock /\ \A i \in Requests : saved'[r][i] = 0
  <2>1. \A i \in Requests : saved[r][i] = 0
    BY <1>0, <1>1 DEF FlightInv, Resending, Flight
  <2> QED  BY <1>0, <1>1, <2>1 DEF Types
<1>3. Alone(r)
  <2>1. /\ \A q \in Requests \ {r} : pc'[q] = pc[q] /\ kind'[q] = kind[q] /\ now'[q] = now[q]
        /\ \A q \in Requests \ {r} : arg'[q] = arg[q] /\ stale'[q] = stale[q]
    BY <1>0, <1>1 DEF Types
  <2>3. OnlyOf(r)
    BY <1>1, <2>1 DEF OnlyOf
  <2>2. \A q \in Requests \ {r} : stamp'[q] = stamp[q]
    BY <1>0 DEF Stamp
  <2> QED  BY <2>2, <2>3 DEF Alone
<1>4. stamp'[r] = Latest + 1 \/ (stamp'[r] = stamp[r] /\ k # "resend")
  BY <1>0 DEF Stamp
<1>5. Resending(r)' => kind'[r] = "resend"
  BY DEF Resending
<1>6. ~Undoable(r)'
  BY <1>2 DEF Undoable
<1>7. StartInv'
  <2>1. account' = account /\ Current' = Current /\ owners' = owners
    BY <1>1 DEF Current
  <2> QED  BY <1>0, <1>2, <1>3, <2>1, StartKept DEF Alone, OnlyOf
<1>8. Quiet(r)
  <2>1. Closing /\ clock' = clock /\ owners' = owners
    BY <1>1, SameClosing
  <2>2. Resending(r)' => now'[r] = clock /\ stamp'[r] = Latest + 1
    BY <1>2, <1>4, <1>5
  <2> QED  BY <1>2, <1>3, <1>4, <1>6, <2>1, <2>2 DEF Quiet
<1> QED  BY <1>7, <1>8, QuietCode

(* Requests begin.                                                         *)
LEMMA BeginningCode ==
    ASSUME VerificationInv, TableInv, ResendInv, CodeInv, NEW r \in Requests,
           \/ RegisterBegin(r) \/ BootstrapBegin(r) \/ ResendBegin(r)
           \/ \E a \in Known : VerifyEmailBegin(r, a) \/ VerifyMagicLinkBegin(r, a)
    PROVE  CodeInv'
<1>1. CASE RegisterBegin(r) \/ ResendBegin(r)
  BY <1>1, BeginCode DEF RegisterBegin, ResendBegin
<1>2. CASE BootstrapBegin(r) \/ \E a \in Known : VerifyEmailBegin(r, a) \/ VerifyMagicLinkBegin(r, a)
  BY <1>2, BeginCode DEF BootstrapBegin, VerifyEmailBegin, VerifyMagicLinkBegin
<1> QED  BY <1>1, <1>2

(* Steps that answer and touch no table.                                   *)
LEMMA RefusedCode ==
    ASSUME VerificationInv, TableInv, ResendInv, CodeInv, NEW r \in Requests, ResendLimited(r) \/ Fail(r) \/ Enqueue(r)
    PROVE  CodeInv'
<1>1. PICK a \in {"refused", "error", "ok"} : Answer(r, a)
  BY DEF ResendLimited, Fail, Enqueue
<1>2. UNCHANGED <<clock, account, holder, code, link, exp, created, stale, owners>>
  BY DEF ResendLimited, Fail, Enqueue, table, history, counts
<1> QED  BY <1>1, <1>2, SameClosing, AnswerCode DEF Answers

(* The unlocked reads; a resend reads every row that is alive.             *)
LEMMA ReadCode ==
    ASSUME VerificationInv, TableInv, ResendInv, CodeInv, NEW r \in Requests,
           ResendSelect(r) \/ CleanupRecords(r) \/ OtpSnapshot(r) \/ MagicValidate(r)
    PROVE  CodeInv'
<1>0. Types /\ StageInv /\ RowInv /\ OneCurrent
  BY DEF VerificationInv, ResendInv
<1>1. UNCHANGED <<clock, account, holder, code, link, exp, created, stale, owners>>
  BY DEF ResendSelect, CleanupRecords, OtpSnapshot, MagicValidate, table, history, counts
<1>2. CASE \E a \in {"refused", "invalid", "expired", "otp_page"} : Answer(r, a)
  BY <1>1, <1>2, SameClosing, AnswerCode DEF Answers
<1>3. CASE /\ \E l \in {"undo_user", "snapshot", "validated"} : Goto(r, l)
           /\ seen' = seen \/ \E S : seen' = [seen EXCEPT ![r] = S]
           /\ UNCHANGED saved
  <2>1. pc[r] \in Flight
    BY DEF ResendSelect, CleanupRecords, OtpSnapshot, MagicValidate, Flight
  <2>2. \A q \in Requests \ {r} : seen'[q] = seen[q]
    BY <1>0, <1>3 DEF Types
  <2> QED  BY <1>1, <1>3, <2>1, <2>2, GotoCode DEF Flight
<1>4. CASE ResendSelect(r) /\ Goto(r, "selected") /\ ~Answer(r, "refused")
  <2>1. PICK u \in Requests : account[u] = "pending" /\ seen' = [seen EXCEPT ![r] = Revocable(u, now[r])]
    BY <1>4 DEF ResendSelect
  <2>2. pc[r] = "begun" /\ saved' = saved
    BY <1>4 DEF ResendSelect
  <2>3. account[r] = "none" /\ Current # {}
    BY <1>0, <2>1, <2>2 DEF StageInv, Current
  <2>4. seen'[r] = Revocable(u, now[r]) /\ \A q \in Requests \ {r} : seen'[q] = seen[q]
    BY <1>0, <2>1 DEF Types
  <2>5. ASSUME NEW i \in Requests, Open(i), exp[i] > now[r] PROVE i \in Revocable(u, now[r])
    <3>1. u \in Current /\ holder[i] \in Current
      BY <1>0, <2>1, <2>5 DEF RowInv, Current
    <3> QED  BY <1>0, <2>5, <3>1 DEF OneCurrent, Revocable
  <2> QED  BY <1>1, <1>4, <2>2, <2>3, <2>4, <2>5, GotoCode DEF Flight
<1> QED  BY <1>2, <1>3, <1>4 DEF ResendSelect, CleanupRecords, OtpSnapshot, MagicValidate

(* The transactions of a code and a link.                                  *)
LEMMA DecideCode ==
    ASSUME VerificationInv, TableInv, ResendInv, CodeInv, NEW r \in Requests, OtpDecide(r) \/ MagicDecide(r)
    PROVE  CodeInv'
<1>0. Types /\ RowInv
  BY DEF VerificationInv
<1>1. UNCHANGED <<clock, exp, created, holder, stale, owners>> /\ UserFree
  BY DEF OtpDecide, OtpRefused, OtpWrong, OtpRight, MagicDecide, table
<1>2. ASSUME NEW a \in {"invalid", "too_many", "expired"}, Answer(r, a), UNCHANGED <<account, code, link>>
      PROVE  CodeInv'
  BY <1>1, <1>2, SameClosing, AnswerCode DEF Answers
<1>3. ASSUME NEW i \in Requests, Open(i), Answer(r, "ok"), account' = [account EXCEPT ![holder[i]] = "active"],
             \/ code' = [code EXCEPT ![i] = "used"] /\ link' = link
             \/ link' = [link EXCEPT ![i] = "used"] /\ code' = code
      PROVE  CodeInv'
  <2>1. \A q \in Requests : account'[q] = "pending" => account[q] = "pending" /\ q # holder[i]
    BY <1>0, <1>3 DEF Types
  <2>2. \A q \in Requests : account[q] # "none" => account'[q] # "none"
    BY <1>0, <1>3 DEF Types
  <2>3. \A j \in Requests : /\ code'[j] = "open" => code[j] = "open"
                            /\ link'[j] = "open" => link[j] = "open"
                            /\ j # i => code'[j] = code[j]
    <3>1. CASE code' = [code EXCEPT ![i] = "used"] /\ link' = link
      BY <1>0, <3>1 DEF Types
    <3>2. CASE link' = [link EXCEPT ![i] = "used"] /\ code' = code
      BY <1>0, <3>2 DEF Types
    <3> QED  BY <1>3, <3>1, <3>2
  <2>4. Closing
    BY <1>1, <2>1, <2>3 DEF Closing, Open
  <2> QED  BY <1>1, <1>3, <2>2, <2>4, AnswerCode DEF Answers
<1>4. CASE OtpDecide(r)
  <2>1. \A i \in Newest({j \in seen[r] : code[j] = "open"}) : i \in Requests /\ Open(i)
    BY <1>0 DEF Newest, Types, Open
  <2>2. \/ \E a \in {"invalid", "too_many", "expired"} : Answer(r, a) /\ UNCHANGED <<account, code, link>>
        \/ \E i \in Requests : Open(i) /\ OtpRight(r, i)
    BY <1>4, <2>1 DEF OtpDecide, OtpRefused, OtpWrong, table
  <2> QED  BY <1>2, <1>3, <2>2 DEF OtpRight, Activate
<1>5. CASE MagicDecide(r)
  <2>1. \/ \E a \in {"invalid", "expired"} : Answer(r, a) /\ UNCHANGED <<account, code, link>>
        \/ /\ LinkOpen(arg[r]) /\ Answer(r, "ok") /\ Activate(holder[arg[r]])
           /\ link' = [link EXCEPT ![arg[r]] = "used"] /\ code' = code
    BY <1>5 DEF MagicDecide, table
  <2>2. LinkOpen(arg[r]) => arg[r] \in Requests /\ Open(arg[r])
    BY <1>0 DEF LinkOpen, Types, Open
  <2> QED  BY <1>2, <1>3, <2>1, <2>2 DEF Activate
<1> QED  BY <1>4, <1>5

(* A cleanup takes an account with all its rows.                           *)
LEMMA CleanupCode ==
    ASSUME VerificationInv, TableInv, ResendInv, CodeInv, NEW r \in Requests, CleanupUser(r)
    PROVE  CodeInv'
<1>0. Types
  BY DEF VerificationInv
<1>1. UNCHANGED <<clock, exp, created, stale, owners>> /\ Answer(r, "error") /\ UserFree
  BY DEF CleanupUser, table, history, counts
<1>2. CASE UNCHANGED table
  BY <1>1, <1>2, SameClosing, AnswerCode DEF Answers, table
<1>3. CASE /\ account' = [account EXCEPT ![r] = "deleted"]
           /\ Delete({i \in Requests : holder[i] = r})
           /\ holder' = [i \in Requests |-> IF holder[i] = r THEN None ELSE holder[i]]
  <2>1. \A q \in Requests : account'[q] = "pending" => account[q] = "pending" /\ q # r
    BY <1>0, <1>3 DEF Types
  <2>2. \A q \in Requests : account[q] # "none" => account'[q] # "none"
    BY <1>0, <1>3 DEF Types
  <2>3. \A i \in Requests : IF holder[i] = r THEN code'[i] = "none" /\ link'[i] = "none" /\ holder'[i] = None
                            ELSE code'[i] = code[i] /\ link'[i] = link[i] /\ holder'[i] = holder[i]
    BY <1>3 DEF Delete
  <2>4. Closing
    BY <1>1, <2>1, <2>3 DEF Closing, Open
  <2> QED  BY <1>1, <2>2, <2>4, AnswerCode DEF Answers
<1> QED  BY <1>2, <1>3 DEF CleanupUser

(* A push fails.                                                           *)
LEMMA EnqueueFailsCode ==
    ASSUME VerificationInv, TableInv, ResendInv, CodeInv, NEW r \in Requests, NEW landed \in BOOLEAN, EnqueueFails(r, landed)
    PROVE  CodeInv'
<1>1. /\ UNCHANGED <<clock, account, holder, code, link, exp, created, stale, owners>> /\ pc[r] = "created"
      /\ Answer(r, "error") \/ (Goto(r, "undo") /\ UNCHANGED <<seen, saved>>)
  BY DEF EnqueueFails, table, history, counts
<1>2. CASE Answer(r, "error")
  BY <1>1, <1>2, SameClosing, AnswerCode DEF Answers
<1>3. CASE Goto(r, "undo") /\ UNCHANGED <<seen, saved>>
  BY <1>1, <1>3, GotoCode DEF Flight
<1> QED  BY <1>1, <1>2, <1>3

(* Bootstrap's transaction, and its turn to the mail.                      *)
LEMMA BootstrapCode ==
    ASSUME VerificationInv, TableInv, ResendInv, CodeInv, NEW r \in Requests,
           BootstrapTx(r) \/ EnqueueVerificationEmail(r)
    PROVE  CodeInv'
<1>0. /\ Types /\ StageInv /\ RowInv /\ FlightInv /\ StartInv /\ owners \subseteq Requests
      /\ now \in [Requests -> Nat] /\ stamp \in [Requests -> Nat]
  BY TableFacts, TimeFacts DEF VerificationInv, ResendInv, CodeInv
<1>1. UNCHANGED <<clock, holder, code, link, exp, created, stale>>
  BY DEF BootstrapTx, EnqueueVerificationEmail, table, history, counts
<1>2. CASE /\ \E a \in {"refused", "ok"} : Answer(r, a)
           /\ UNCHANGED <<account, owners>>
  BY <1>1, <1>2, SameClosing, AnswerCode DEF Answers
<1>3. CASE /\ pc[r] = "begun" /\ kind[r] = "bootstrap" /\ Current = {}
           /\ account' = [account EXCEPT ![r] = "pending"] /\ owners' = owners \cup {r}
           /\ Goto(r, "owner") /\ UNCHANGED <<seen, saved>>
  <2>1. /\ kind' = kind /\ resp' = resp /\ arg' = arg /\ now' = now /\ stamp' = stamp
        /\ pc'[r] = "owner" /\ \A q \in Requests \ {r} : pc'[q] = pc[q]
    BY <1>0, <1>3, GotoFacts DEF Goto, locals, Flight
  <2>2. Alone(r)
    BY <1>1, <1>3, <2>1 DEF Alone, OnlyOf
  <2>3. /\ account[r] = "none" /\ account'[r] = "pending" /\ \A q \in Requests \ {r} : account'[q] = account[q]
        /\ code[r] = "none"
    <3>1. account[r] = "none" /\ code[r] = "none"
      BY <1>0, <1>3 DEF StageInv, Unissued
    <3>2. account'[r] = "pending" /\ \A q \in Requests \ {r} : account'[q] = account[q]
      BY <1>0, <1>3 DEF Types
    <3> QED  BY <3>1, <3>2
  <2>4. \A i \in Requests : ~Open(i)
    BY <1>0, <1>3 DEF RowInv, Current
  <2>5. Closing
    <3>1. \A i \in Requests : code[i] # "open"
      BY <2>4 DEF Open
    <3>2. \A a \in Requests : account'[a] = "pending" => account[a] \in {"pending", "none"}
      BY <2>3
    <3> QED  BY <1>1, <3>1, <3>2 DEF Closing, Open
  <2>6. ~Resending(r)' /\ ~Undoable(r)'
    BY <1>3, <2>1 DEF Resending, Undoable
  <2>7. StartInv'
    BY <1>0, <1>3, <2>1, <2>3, StartKept
  <2>8. Quiet(r)
    <3>1. code'[r] # "open"
      BY <1>1, <2>3
    <3> QED  BY <1>1, <1>3, <2>1, <2>2, <2>5, <2>6, <3>1 DEF Quiet
  <2> QED  BY <2>7, <2>8, QuietCode
<1>4. CASE EnqueueVerificationEmail(r)
  <2>1. /\ UNCHANGED <<account, resp, kind, arg, seen, saved, owners>> /\ pc[r] = "owner" /\ Stamp(r)
        /\ pc' = [pc EXCEPT ![r] = "issuing"] /\ now' = [now EXCEPT ![r] = clock]
    BY <1>4 DEF EnqueueVerificationEmail, history, counts, table
  <2>2. /\ pc'[r] = "issuing" /\ stamp'[r] = Latest + 1
        /\ \A q \in Requests \ {r} : pc'[q] = pc[q] /\ now'[q] = now[q] /\ stamp'[q] = stamp[q]
    BY <1>0, <2>1 DEF Types, Stamp
  <2>3. Alone(r)
    BY <1>1, <2>1, <2>2 DEF Alone, OnlyOf
  <2>4. kind[r] = "bootstrap"
    BY <1>0, <2>1 DEF FlightInv, SeenInv
  <2>5. \A i \in Requests : saved[r][i] = 0
    BY <1>0, <2>4 DEF FlightInv, Resending
  <2>6. ~Resending(r)' /\ ~Undoable(r)'
    BY <2>1, <2>4 DEF Resending, Undoable
  <2>7. StartInv'
    BY <1>0, <2>1, <2>2, StartKept DEF Current
  <2>8. Quiet(r)
    BY <1>1, <2>1, <2>2, <2>3, <2>5, <2>6, SameClosing DEF Quiet
  <2> QED  BY <2>7, <2>8, QuietCode
<1> QED  BY <1>2, <1>3, <1>4 DEF BootstrapTx

(* Time passes.                                                            *)
LEMMA TickCode ==
    ASSUME TableInv, CodeInv, Tick \/ UNCHANGED vars
    PROVE  CodeInv'
<1>0. DistinctInv /\ DatedInv /\ StartInv /\ LaterInv /\ SavedInv /\ OrderInv /\ OwnerInv
  BY DEF CodeInv
<1>1. /\ pc' = pc /\ kind' = kind /\ now' = now /\ stamp' = stamp /\ seen' = seen /\ saved' = saved
      /\ account' = account /\ holder' = holder /\ code' = code /\ link' = link /\ exp' = exp
      /\ created' = created /\ owners' = owners
  BY DEF Tick, vars, table, locals, history
<1>2. \A n \in Nat : n <= clock => n <= clock'
  <2>1. clock \in Nat /\ (clock' = clock \/ clock' = clock + 1)
    BY TableFacts DEF Tick, vars
  <2> QED  BY SMT, <2>1
<1>3. DistinctInv' /\ DatedInv' /\ StartInv'
  BY <1>0, <1>1 DEF DistinctInv, DatedInv, Times, StartInv, Current
<1>4. LaterInv' /\ SavedInv'
  BY <1>0, <1>1 DEF LaterInv, Resending, SavedInv, Open
<1>5. OrderInv'
  BY <1>0, <1>1, <1>2, OrderKept
<1>6. OwnerInv'
  <2>1. \A a \in Requests : /\ Mails(a)' = Mails(a) /\ Ahead(a)' = Ahead(a) /\ Due(a)' = Due(a)
                            /\ Undoable(a)' = Undoable(a)
    BY <1>1 DEF Mails, Ahead, Since, Due, Undoable, Resending
  <2>2. \A p, a \in Requests : DueUndone(p, a)' = DueUndone(p, a)
    BY <1>1 DEF DueUndone, Undone
  <2> QED  BY <1>0, <1>1, <2>1, <2>2, RankKept, RankUndoneKept DEF OwnerInv
<1> QED  BY <1>3, <1>4, <1>5, <1>6 DEF CodeInv

(* What a transaction that issues the verification of r writes.            *)
LEMMA IssuedFacts ==
    ASSUME Types, TableInv, NEW r \in Requests, NEW u \in Requests, Issue(r, u), Goto(r, "created")
    PROVE  /\ kind' = kind /\ arg' = arg /\ resp' = resp /\ now' = now /\ stamp' = stamp
           /\ pc'[r] = "created" /\ \A q \in Requests \ {r} : pc'[q] = pc[q]
           /\ code'[r] = "open" /\ holder'[r] = u /\ created'[r] = stamp[r]
           /\ \A i \in Requests \ {r} : /\ code'[i] = code[i] /\ link'[i] = link[i]
                                        /\ holder'[i] = holder[i] /\ created'[i] = created[i]
<1>1. created \in [Requests -> Nat]
  BY TimeFacts
<1>2. /\ kind' = kind /\ arg' = arg /\ resp' = resp /\ now' = now /\ stamp' = stamp
      /\ pc'[r] = "created" /\ \A q \in Requests \ {r} : pc'[q] = pc[q]
  BY GotoFacts DEF Goto, locals, Flight
<1>3. code'[r] = "open" /\ \A i \in Requests \ {r} : code'[i] = code[i] /\ link'[i] = link[i]
  BY DEF Issue, Types
<1>4. /\ holder'[r] = u /\ created'[r] = stamp[r]
      /\ \A i \in Requests \ {r} : holder'[i] = holder[i] /\ created'[i] = created[i]
  BY <1>1 DEF Issue, Types
<1> QED  BY <1>2, <1>3, <1>4

(* A registration, or the owner of a Bootstrap, gets its verification      *)
(* while no resend holds the user's row.                                   *)
LEMMA IssueFirstCode ==
    ASSUME VerificationInv, TableInv, ResendInv, CodeInv, NEW r \in Requests, Issue(r, r), Goto(r, "created"),
           pc[r] \in Unissued, kind[r] # "resend", \A q \in Requests : pc[q] # "selected",
           exp' = [exp EXCEPT ![r] = now[r] + TTL], UNCHANGED <<seen, saved, stale>>
    PROVE  /\ DistinctInv' /\ LaterInv' /\ SavedInv'
           /\ \A i \in Requests \ {r} : exp'[i] = exp[i]
           /\ exp'[r] = now[r] + TTL
           /\ \A p \in Requests : saved[p][r] = 0
<1>0. /\ Types /\ FlightInv /\ DistinctInv /\ LaterInv /\ SavedInv /\ exp \in [Requests -> Nat]
  BY TableFacts DEF VerificationInv, ResendInv, CodeInv
<1>1. /\ kind' = kind /\ arg' = arg /\ resp' = resp /\ now' = now /\ stamp' = stamp
      /\ pc'[r] = "created" /\ \A q \in Requests \ {r} : pc'[q] = pc[q]
      /\ holder'[r] = r /\ created'[r] = stamp[r]
      /\ \A i \in Requests \ {r} : holder'[i] = holder[i] /\ created'[i] = created[i]
  BY <1>0, IssuedFacts
<1>2. Alone(r)
  BY <1>1 DEF Alone, OnlyOf
<1>3. ~Resending(r)'
  BY <1>1 DEF Resending
<1>4. DistinctInv'
  BY <1>0, <1>1, DistinctKept
<1>5. LaterInv'
  BY <1>0, <1>1, <1>2, <1>3, LaterKept
<1>6. exp'[r] = now[r] + TTL /\ \A i \in Requests \ {r} : exp'[i] = exp[i]
  BY <1>0
<1>7. \A p \in Requests : saved[p][r] = 0
  BY <1>0 DEF FlightInv
<1>8. SavedInv'
  <2>1. \A q \in Requests : pc'[q] # "selected"
    BY <1>1
  <2>2. \A p, i \in Requests : saved[p][i] # 0 => exp'[i] <= now[p]
    BY <1>0, <1>6, <1>7 DEF SavedInv
  <2> QED  BY <1>1, <2>1, <2>2 DEF SavedInv
<1> QED  BY <1>4, <1>5, <1>6, <1>7, <1>8

(* Register's transaction: nothing else is open.                           *)
LEMMA RegisterCode ==
    ASSUME VerificationInv, TableInv, ResendInv, CodeInv, NEW r \in Requests, RegisterTx(r)
    PROVE  CodeInv'
<1>0. Types /\ StageInv /\ RowInv /\ StartInv /\ owners \subseteq Requests
  BY TimeFacts DEF VerificationInv, CodeInv
<1>1. UNCHANGED <<clock, stale, owners>> /\ pc[r] = "begun" /\ kind[r] = "register"
  BY DEF RegisterTx, history, counts
<1>2. CASE Answer(r, "error") /\ UNCHANGED table
  BY <1>1, <1>2, SameClosing, AnswerCode DEF Answers, table
<1>3. CASE /\ Current = {} /\ account' = [account EXCEPT ![r] = "pending"]
           /\ exp' = [exp EXCEPT ![r] = now[r] + TTL]
           /\ Issue(r, r) /\ Goto(r, "created") /\ UNCHANGED <<seen, saved>>
  <2>1. \A i \in Requests : ~Open(i)
    BY <1>0, <1>3 DEF RowInv, Current
  <2>2. \A q \in Requests : pc[q] # "selected"
    BY <1>0, <1>3 DEF StartInv
  <2>3. /\ pc'[r] = "created" /\ created'[r] = stamp[r] /\ \A q \in Requests \ {r} : pc'[q] = pc[q]
        /\ \A i \in Requests \ {r} : code'[i] = code[i]
    BY <1>0, <1>3, IssuedFacts
  <2>4. DistinctInv' /\ LaterInv' /\ SavedInv'
    <3>1. pc[r] \in Unissued /\ kind[r] # "resend"
      BY <1>1 DEF Unissued
    <3> QED  BY <1>1, <1>3, <2>2, <3>1, IssueFirstCode
  <2>5. account[r] = "none"
    BY <1>0, <1>1 DEF StageInv
  <2>6. account'[r] = "pending" /\ \A q \in Requests \ {r} : account'[q] = account[q]
    BY <1>0, <1>3 DEF Types
  <2>7. StartInv'
    BY <1>0, <1>1, <1>3, <2>3, <2>6, StartKept
  <2>8. \A i \in Requests : code'[i] = "open" => i = r
    BY <2>1, <2>3 DEF Open
  <2>9. OrderInv'
    <3>1. ASSUME NEW a \in Requests, NEW i \in Requests, Behind(a, i)' PROVE FALSE
      <4>1. a = r /\ i = r /\ created'[r] < created'[r]
        BY <2>8, <3>1 DEF Behind
      <4>2. created'[r] \in Nat
        BY <2>3, TimeFacts
      <4> QED  BY SMT, <4>1, <4>2
    <3> QED  BY <3>1 DEF OrderInv
  <2>10. OwnerInv'
    <3>1. ASSUME NEW a \in Requests, Mails(a)' PROVE FALSE
      <4>1. a \in owners /\ account'[a] = "pending"
        BY <1>1, <3>1 DEF Mails
      <4>2. a # r
        BY <1>0, <2>5, <4>1 DEF StartInv
      <4>3. a \in Current
        BY <2>6, <4>1, <4>2 DEF Current
      <4> QED  BY <1>3, <4>3
    <3> QED  BY <3>1 DEF OwnerInv
  <2>11. DatedInv'
    <3>1. stamp[r] # 0
      BY <1>1 DEF TableInv, RecordInv
    <3> QED  BY <2>3, <2>8, <3>1 DEF DatedInv
  <2> QED  BY <2>4, <2>7, <2>9, <2>10, <2>11 DEF CodeInv
<1> QED  BY <1>2, <1>3 DEF RegisterTx

(* Bootstrap's own verification: its place was kept from the begin of its  *)
(* transaction on.                                                         *)
LEMMA CreateCode ==
    ASSUME VerificationInv, TableInv, ResendInv, CodeInv, NEW r \in Requests, CreateVerification(r)
    PROVE  CodeInv'
<1>0. /\ Types /\ StageInv /\ RowInv /\ OneCurrent /\ FlightInv /\ StartInv /\ OrderInv /\ OwnerInv
      /\ DatedInv /\ owners \subseteq Requests
  BY TimeFacts DEF VerificationInv, ResendInv, CodeInv
<1>1. /\ UNCHANGED <<clock, account, seen, saved, stale, owners>> /\ UserFree /\ pc[r] = "issuing"
      /\ exp' = [exp EXCEPT ![r] = now[r] + TTL] /\ Issue(r, r) /\ Goto(r, "created")
  BY DEF CreateVerification, history, counts
<1>2. /\ kind' = kind /\ now' = now /\ stamp' = stamp
      /\ pc'[r] = "created" /\ \A q \in Requests \ {r} : pc'[q] = pc[q]
      /\ code'[r] = "open" /\ holder'[r] = r /\ created'[r] = stamp[r]
      /\ \A i \in Requests \ {r} : code'[i] = code[i] /\ holder'[i] = holder[i] /\ created'[i] = created[i]
  BY <1>0, <1>1, IssuedFacts
<1>3. kind[r] = "bootstrap" /\ r \in owners /\ pc[r] \in Unissued /\ created[r] = 0
  BY <1>0, <1>1 DEF FlightInv, SeenInv, Unissued, TableInv, RecordInv
<1>4. /\ DistinctInv' /\ LaterInv' /\ SavedInv' /\ exp'[r] = now[r] + TTL
      /\ \A i \in Requests \ {r} : exp'[i] = exp[i]
      /\ \A p \in Requests : saved[p][r] = 0
  BY <1>1, <1>3, IssueFirstCode DEF UserFree
<1>5. r \in Current /\ \A u \in Requests : u \in Current => u = r
  BY <1>0, <1>1 DEF StageInv, Current, OneCurrent
<1>6. StartInv'
  BY <1>0, <1>1, <1>2, StartKept
<1>7. OrderInv'
  <2> SUFFICES ASSUME NEW a \in Requests \ owners', NEW i \in Requests, Behind(a, i)'
               PROVE  exp'[a] <= clock' /\ \A p \in Requests \ {i} : saved'[p][a] <= clock'
    BY DEF OrderInv
  <2>1. a \in Requests \ owners /\ a # r /\ code[a] = "open"
    BY <1>1, <1>2, <1>3 DEF Behind
  <2>2. holder[a] = r
    BY <1>0, <1>5, <2>1 DEF RowInv, Open, Current
  <2>3. stamp[r] <= created[a] /\ created[a] < created'[i]
    BY <1>2, <2>1, <2>2 DEF Behind
  <2>4. i # r
    <3> SUFFICES ASSUME i = r PROVE FALSE
      OBVIOUS
    <3>1. stamp[r] <= created[a] /\ created[a] < stamp[r] /\ stamp[r] \in Nat /\ created[a] \in Nat
      BY <1>2, <2>3, TimeFacts
    <3> QED  BY SMT, <3>1
  <2>5. created[holder[a]] <= created[a]
    <3>1. created[r] = 0 /\ created[a] \in Nat
      BY <1>3, TimeFacts
    <3>2. created[r] <= created[a]
      BY SMT, <3>1
    <3> QED  BY <2>2, <3>2
  <2>6. Behind(a, i)
    BY <1>2, <2>1, <2>3, <2>4, <2>5 DEF Behind
  <2> QED  BY <1>0, <1>1, <1>4, <2>1, <2>6 DEF OrderInv
<1>8. OwnerInv'
  <2> SUFFICES ASSUME NEW a \in Requests, Mails(a)'
               PROVE  Ranked(a)' /\ \A p \in Requests : Undoable(p)' => RankedUndone(p, a)'
    BY DEF OwnerInv
  <2>1. a = r /\ Mails(r)
    BY <1>1, <1>3, <1>5 DEF Mails, Current
  <2>2. Ahead(r)' = Ahead(r)
    BY <1>1, <1>2 DEF Ahead, Since
  <2>3. Ahead(r) \subseteq Requests \ {r}
    BY DEF Ahead
  <2>4. Due(r)' = Due(r)
    BY <1>1, <1>2, <1>4 DEF Due
  <2>5. Ranked(r)'
    BY <1>0, <1>4, <2>1, <2>2, <2>3, <2>4 DEF OwnerInv, Ranked
  <2>6. ASSUME NEW p \in Requests, Undoable(p)' PROVE RankedUndone(p, r)'
    <3>1. p # r /\ Undoable(p)
      BY <1>2, <1>3, <2>6 DEF Undoable, Resending
    <3>2. RankedUndone(p, r)
      BY <1>0, <2>1, <3>1 DEF OwnerInv
    <3>3. \A t \in Requests \ {r} : Undone(p, t)' = Undone(p, t)
      BY <1>1, <1>4 DEF Undone
    <3>4. DueUndone(p, r)' = DueUndone(p, r)
      BY <1>1, <1>2, <1>4 DEF DueUndone, Undone
    <3> QED  BY <2>2, <2>3, <3>2, <3>3, <3>4 DEF RankedUndone
  <2> QED  BY <2>1, <2>5, <2>6
<1>9. DatedInv'
  <2>1. stamp[r] # 0
    BY <1>1 DEF TableInv, RecordInv
  <2> QED  BY <1>0, <1>2, <2>1 DEF DatedInv
<1> QED  BY <1>4, <1>6, <1>7, <1>8, <1>9 DEF CodeInv

(* The resend's transaction: the older rows die, its own is the newest,    *)
(* and undoing it would give each of them the expiry it had.               *)
LEMMA ResendIssuesCode ==
    ASSUME VerificationInv, TableInv, ResendInv, CodeInv, NEW r \in Requests, ResendTx(r)
    PROVE  CodeInv'
<1>0. /\ Types /\ StageInv /\ RowInv /\ OneCurrent /\ FlightInv /\ DistinctInv /\ StartInv /\ LaterInv
      /\ DatedInv /\ SavedInv /\ OrderInv /\ OwnerInv /\ owners \subseteq Requests
      /\ exp \in [Requests -> Nat] /\ saved \in [Requests -> [Requests -> Nat]]
  BY TableFacts, TimeFacts DEF VerificationInv, ResendInv, CodeInv
<1>1. PICK u \in Requests :
         /\ account[u] = "pending"
         /\ saved' = [saved EXCEPT ![r] =
                         [i \in Requests |-> IF i \in seen[r] \cap Revocable(u, now[r]) THEN exp[i] ELSE 0]]
         /\ exp' = [i \in Requests |-> IF i = r THEN now[r] + TTL
                                      ELSE IF i \in Revocable(u, now[r]) THEN now[r] ELSE exp[i]]
         /\ Issue(r, u)
  BY DEF ResendTx
<1>2. /\ pc[r] = "selected" /\ Goto(r, "created") /\ UNCHANGED <<clock, account, stale, owners>>
      /\ seen' = [seen EXCEPT ![r] = {i \in Requests : holder[i] # None}]
  BY DEF ResendTx, history, counts
<1>3. /\ kind' = kind /\ arg' = arg /\ resp' = resp /\ now' = now /\ stamp' = stamp
      /\ pc'[r] = "created" /\ \A q \in Requests \ {r} : pc'[q] = pc[q]
      /\ code'[r] = "open" /\ holder'[r] = u /\ created'[r] = stamp[r]
      /\ \A i \in Requests \ {r} : code'[i] = code[i] /\ holder'[i] = holder[i] /\ created'[i] = created[i]
  BY <1>0, <1>1, <1>2, IssuedFacts
<1>4. Resending(r) /\ ~Open(r) /\ \A q \in Requests : Resending(q) => q = r
  <2>1. kind[r] = "resend"
    BY <1>0, <1>2 DEF FlightInv, SeenInv
  <2>2. Resending(r)
    BY <1>2, <2>1 DEF Resending, Flight
  <2>3. ~Open(r)
    BY <1>0, <1>2 DEF StageInv, Unissued, Open
  <2> QED  BY <1>0, <2>2, <2>3 DEF FlightInv
<1>5. Resending(r)' /\ \A q \in Requests : Resending(q)' => q = r
  <2>1. Resending(r)'
    BY <1>3, <1>4 DEF Resending, Flight
  <2>2. ASSUME NEW q \in Requests, q # r, Resending(q)' PROVE FALSE
    BY <1>3, <1>4, <2>2 DEF Resending
  <2> QED  BY <2>1, <2>2
<1>6. account[r] = "none" /\ u # r /\ r \notin owners
  BY <1>0, <1>1, <1>2 DEF StartInv
<1>7. \A i \in Requests : Open(i) => i # r /\ holder[i] = u
  <2>1. \A i \in Requests : Open(i) => holder[i] \in Current /\ u \in Current
    BY <1>0, <1>1 DEF RowInv, Current
  <2> QED  BY <1>0, <1>4, <2>1 DEF OneCurrent
<1>8. \A q \in Requests \ {r} : saved'[q] = saved[q] /\ seen'[q] = seen[q] /\ \A i \in Requests : saved'[q][i] = 0
  <2>1. \A q \in Requests \ {r} : saved'[q] = saved[q] /\ seen'[q] = seen[q]
    BY <1>0, <1>1, <1>2 DEF Types
  <2>2. \A q \in Requests \ {r} : ~Resending(q)
    BY <1>4
  <2>3. \A q \in Requests \ {r} : \A i \in Requests : saved[q][i] = 0
    BY <1>0, <2>2 DEF FlightInv
  <2> QED  BY <2>1, <2>3
<1>9. \A i \in Requests : saved'[r][i] = IF i \in seen[r] \cap Revocable(u, now[r]) THEN exp[i] ELSE 0
  BY <1>0, <1>1
<1>10. /\ exp'[r] = now[r] + TTL /\ now[r] \in Nat /\ clock \in Nat /\ now[r] <= clock /\ TTL \in Nat /\ 0 <= clock
       /\ \A i \in Requests \ {r} : exp'[i] = IF i \in Revocable(u, now[r]) THEN now[r] ELSE exp[i]
  <2>1. now[r] \in Nat /\ clock \in Nat /\ now[r] <= clock /\ TTL \in Nat
    BY TableFacts, VerificationAssumption DEF VerificationAssumption
  <2>2. 0 <= clock
    BY SMT, <2>1
  <2> QED  BY <1>1, <2>1, <2>2
<1>11. \A i \in Requests : Open(i) /\ i \notin Revocable(u, now[r]) => exp[i] <= now[r]
  <2> SUFFICES ASSUME NEW i \in Requests, Open(i), ~(exp[i] > now[r]) PROVE exp[i] <= now[r]
    BY <1>7 DEF Revocable
  <2>1. exp[i] \in Nat /\ now[r] \in Nat
    BY <1>10, TimeFacts
  <2> QED  BY SMT, <2>1
<1>12. \A i \in Requests : Open(i) => exp'[i] <= now[r]
  <2>1. now[r] <= now[r]
    BY SMT, <1>10
  <2> QED  BY <1>7, <1>10, <1>11, <2>1
<1>13. \A i \in Requests : Open(i) => Undone(r, i)' = exp[i]
  <2> SUFFICES ASSUME NEW i \in Requests, Open(i) PROVE Undone(r, i)' = exp[i]
    OBVIOUS
  <2>1. CASE i \in Revocable(u, now[r])
    <3>1. exp[i] > now[r] /\ exp[i] \in Nat /\ now[r] \in Nat
      BY <1>10, <2>1, TimeFacts DEF Revocable
    <3>2. exp[i] # 0
      BY SMT, <3>1
    <3>3. i \in seen[r]
      BY <1>0, <1>2, <3>1 DEF SavedInv
    <3> QED  BY <1>9, <2>1, <3>2, <3>3 DEF Undone
  <2>2. CASE i \notin Revocable(u, now[r])
    BY <1>7, <1>9, <1>10, <2>2 DEF Undone
  <2> QED  BY <2>1, <2>2
<1>14. Alone(r)
  BY <1>2, <1>3, <1>8 DEF Alone, OnlyOf
<1>15. DistinctInv'
  BY <1>0, <1>3, DistinctKept
<1>16. StartInv'
  BY <1>0, <1>2, <1>3, StartKept DEF Current
<1>17. LaterInv'
  BY <1>0, <1>3, <1>4, <1>14, LaterKept
<1>18. SavedInv'
  <2>1. ASSUME NEW p \in Requests, NEW i \in Requests, saved'[p][i] # 0 PROVE exp'[i] <= now'[p]
    <3>1. p = r
      BY <1>8, <2>1
    <3>2. Open(i)
      BY <1>9, <2>1, <3>1 DEF Revocable
    <3> QED  BY <1>3, <1>12, <3>1, <3>2
  <2>2. ASSUME NEW p \in Requests, pc'[p] = "selected" PROVE FALSE
    <3>1. p # r /\ pc[p] = "selected"
      BY <1>3, <2>2
    <3>2. Resending(p)
      BY <1>0, <3>1 DEF FlightInv, SeenInv, Resending, Flight
    <3> QED  BY <1>4, <3>1, <3>2
  <2> QED  BY <2>1, <2>2 DEF SavedInv
<1>19. \A i \in Requests \ {r} : holder[i] \notin {None, i} => created[i] < stamp[r]
  BY <1>0, <1>4 DEF LaterInv
<1>20. None # u /\ None \notin Requests
  BY VerificationAssumption DEF VerificationAssumption
<1>21. OrderInv'
  <2> SUFFICES ASSUME NEW a \in Requests \ owners', NEW i \in Requests, Behind(a, i)'
               PROVE  exp'[a] <= clock' /\ \A p \in Requests \ {i} : saved'[p][a] <= clock'
    BY DEF OrderInv
  <2>1. CASE a = r
    <3>1. created[u] <= stamp[r] /\ stamp[r] < created'[i]
      BY <1>3, <1>6, <2>1 DEF Behind
    <3>2. stamp[r] \in Nat /\ created[u] \in Nat /\ \A j \in Requests : created[j] \in Nat
      BY TimeFacts
    <3>3. i # r
      <4>1. ~(stamp[r] < stamp[r])
        BY SMT, <3>2
      <4> QED  BY <1>3, <3>1, <4>1
    <3>4. created'[i] = created[i] /\ Open(i)
      BY <1>3, <3>3 DEF Behind, Open
    <3>5. i # u
      <4>1. ~(created[u] <= stamp[r] /\ stamp[r] < created[u])
        BY SMT, <3>2
      <4> QED  BY <3>1, <3>4, <4>1
    <3>6. created[i] < stamp[r] /\ stamp[r] < created[i] /\ created[i] \in Nat
      BY <1>7, <1>19, <1>20, <3>1, <3>2, <3>3, <3>4, <3>5
    <3> QED  BY SMT, <3>2, <3>6
  <2>2. CASE a # r
    <3>1. Open(a) /\ code[a] = "open" /\ holder[a] = u /\ a \in Requests \ owners
      BY <1>2, <1>3, <1>7, <2>2 DEF Behind, Open
    <3>2. exp'[a] <= clock
      <4>1. exp'[a] <= now[r] /\ exp'[a] \in Nat
        BY <1>10, <1>12, <2>2, <3>1, TimeFacts
      <4> QED  BY SMT, <1>10, <4>1
    <3>3. ASSUME NEW p \in Requests \ {i} PROVE saved'[p][a] <= clock
      <4>1. CASE p # r
        BY <1>8, <1>10, <4>1
      <4>2. CASE p = r
        <5>1. i # r
          BY <4>2
        <5>2. Behind(a, i)
          BY <1>3, <1>6, <2>2, <3>1, <5>1 DEF Behind
        <5>3. exp[a] <= clock
          BY <1>0, <3>1, <5>2 DEF OrderInv
        <5> QED  BY <1>9, <1>10, <4>2, <5>3
      <4> QED  BY <4>1, <4>2
    <3> QED  BY <1>2, <3>2, <3>3
  <2> QED  BY <2>1, <2>2
<1>22. OwnerInv'
  <2> SUFFICES ASSUME NEW a \in Requests, Mails(a)'
               PROVE  Ranked(a)' /\ \A p \in Requests : Undoable(p)' => RankedUndone(p, a)'
    BY DEF OwnerInv
  <2>1. a = u /\ a # r
    <3>1. a \in Current /\ u \in Current
      BY <1>1, <1>2 DEF Mails, Current
    <3> QED  BY <1>0, <1>6, <3>1 DEF OneCurrent
  <2>2. Mails(a) /\ pc'[a] = pc[a] /\ Since(a)' = Since(a)
    BY <1>2, <1>3, <2>1 DEF Mails, Since
  <2>3. Ranked(a)
    BY <1>0, <2>2 DEF OwnerInv
  <2>4. Ahead(a)' \ {r} = Ahead(a) /\ (r \in Ahead(a)' <=> Since(a) < stamp[r])
    <3>1. r \notin Ahead(a)
      BY <1>4 DEF Ahead, Open
    <3> QED  BY <1>3, <2>1, <2>2, <3>1 DEF Ahead
  <2>5. Since(a) \in Nat /\ stamp[r] \in Nat /\ \A i \in Requests : created[i] \in Nat
    BY TimeFacts DEF Since
  <2>6. ASSUME Since(a) < stamp[r] PROVE Ranked(a)'
    <3>1. Due(a)' <= exp'[r]
      <4>1. CASE pc[a] = "issuing"
        <5>1. now[a] <= now[r] /\ now[a] \in Nat /\ now[r] \in Nat /\ TTL \in Nat
          BY <1>0, <1>4, <1>10, <2>6, <4>1, TableFacts DEF LaterInv, Since
        <5>2. now[a] + TTL <= now[r] + TTL
          BY SMT, <5>1
        <5> QED  BY <1>3, <1>10, <2>2, <4>1, <5>2 DEF Due
      <4>2. CASE pc[a] # "issuing"
        <5>1. Open(a)
          BY <2>2, <4>2 DEF Mails, Open
        <5>2. exp'[a] <= now[r] /\ exp'[a] \in Nat
          BY <1>10, <1>12, <2>1, <5>1, TimeFacts
        <5>3. exp'[a] <= now[r] + TTL
          BY SMT, <1>10, <5>2
        <5> QED  BY <1>10, <2>2, <4>2, <5>3 DEF Due
      <4> QED  BY <4>1, <4>2
    <3> QED  BY <2>4, <2>6, <3>1 DEF Ranked
  <2>7. ASSUME ~(Since(a) < stamp[r]) PROVE Ranked(a)'
    <3>1. ASSUME NEW i \in Ahead(a) PROVE FALSE
      <4>1. i \in Requests \ {r} /\ i # a /\ holder[i] = a /\ Since(a) < created[i]
        BY <1>4, <3>1 DEF Ahead, Open
      <4>2. created[i] < stamp[r]
        BY <1>19, <1>20, <4>1
      <4> QED  BY SMT, <2>5, <2>7, <4>1, <4>2
    <3>2. Ahead(a)' = {}
      BY <2>4, <2>7, <3>1
    <3> QED  BY <3>2 DEF Ranked
  <2>8. ASSUME NEW p \in Requests, Undoable(p)' PROVE RankedUndone(p, a)'
    <3>1. p = r
      BY <1>5, <2>8 DEF Undoable
    <3>2. \A t \in Ahead(a) : t \in Requests /\ Undone(r, t)' = exp[t]
      BY <1>13 DEF Ahead, Open
    <3>3. DueUndone(r, a)' = Due(a)
      <4>1. pc[a] # "issuing" => Open(a)
        BY <2>2 DEF Mails, Open
      <4>2. Open(a) => Undone(r, a)' = exp[a]
        BY <1>13
      <4> QED  BY <1>3, <2>2, <4>1, <4>2 DEF DueUndone, Due
    <3>4. RankedUndone(r, a)'
      BY <2>3, <2>4, <3>2, <3>3 DEF RankedUndone, Ranked
    <3> QED  BY <3>1, <3>4
  <2> QED  BY <2>6, <2>7, <2>8
<1>23. DatedInv'
  <2>1. stamp[r] # 0
    BY <1>2 DEF TableInv, RecordInv
  <2> QED  BY <1>0, <1>3, <2>1 DEF DatedInv
<1> QED  BY <1>15, <1>16, <1>17, <1>18, <1>21, <1>22, <1>23 DEF CodeInv

(* The rollback of the resend: each row is back at the expiry it would     *)
(* have, and the row of the resend is gone.                                *)
LEMMA ResendUndoneCode ==
    ASSUME VerificationInv, TableInv, ResendInv, CodeInv, NEW r \in Requests, RollbackResend(r)
    PROVE  CodeInv'
<1>0. /\ Types /\ FlightInv /\ DistinctInv /\ DatedInv /\ StartInv /\ LaterInv /\ SavedInv /\ OrderInv /\ OwnerInv
      /\ owners \subseteq Requests /\ clock \in Nat
  BY TableFacts, TimeFacts DEF VerificationInv, ResendInv, CodeInv
<1>1. /\ pc[r] = "undo" /\ kind[r] = "resend" /\ Answer(r, "error") /\ "error" \in Answers
      /\ code' = [code EXCEPT ![r] = Discard(code[r])] /\ link' = [link EXCEPT ![r] = Discard(link[r])]
      /\ exp' = [i \in Requests |-> IF saved[r][i] # 0 /\ Open(i) /\ exp[i] <= now[r] THEN saved[r][i] ELSE exp[i]]
      /\ UNCHANGED <<clock, account, holder, created, stale, owners>>
  BY DEF RollbackResend, history, counts, Answers
<1>2. OnlyOf(r) /\ pc'[r] = "done" /\ \A i \in Requests : saved'[r][i] = 0
  BY <1>0, <1>1, AnswerOnly
<1>3. stamp'[r] = 0 /\ \A q \in Requests \ {r} : stamp'[q] = stamp[q]
  BY <1>0, <1>1, AnswerTimes
<1>4. Undoable(r) /\ \A q \in Requests : Resending(q) => q = r
  <2>1. Resending(r) /\ Undoable(r)
    BY <1>1 DEF Resending, Undoable, Flight
  <2> QED  BY <1>0, <2>1 DEF FlightInv
<1>5. \A q \in Requests : ~Resending(q)'
  <2> SUFFICES ASSUME NEW q \in Requests, kind'[q] = "resend", pc'[q] \in Flight PROVE FALSE
    BY DEF Resending
  <2>1. q # r
    BY <1>2 DEF Flight
  <2> QED  BY <1>2, <1>4, <2>1 DEF Resending, OnlyOf
<1>6. \A q, i \in Requests : saved'[q][i] = 0
  <2> SUFFICES ASSUME NEW q \in Requests, NEW i \in Requests, q # r PROVE saved'[q][i] = 0
    BY <1>2
  <2>1. ~Resending(q) /\ saved'[q] = saved[q]
    BY <1>2, <1>4 DEF OnlyOf
  <2> QED  BY <1>0, <2>1 DEF FlightInv
<1>7. code'[r] # "open" /\ \A i \in Requests \ {r} : code'[i] = code[i]
  BY <1>0, <1>1 DEF Discard, Types
<1>8. \A i \in Requests : Open(i) => exp'[i] = Undone(r, i)
  BY <1>0, <1>1 DEF SavedInv, Undone
<1>9. DistinctInv'
  BY <1>0, <1>1, <1>3, DistinctKept
<1>10. StartInv'
  BY <1>0, <1>1, <1>2, StartKept DEF OnlyOf, Current
<1>11. LaterInv'
  BY <1>5 DEF LaterInv
<1>12. SavedInv'
  <2>1. ASSUME NEW p \in Requests, pc'[p] = "selected" PROVE FALSE
    <3>1. p # r /\ pc[p] = "selected"
      BY <1>2, <2>1 DEF OnlyOf
    <3>2. Resending(p)
      BY <1>0, <3>1 DEF FlightInv, SeenInv, Resending, Flight
    <3> QED  BY <1>4, <3>1, <3>2
  <2> QED  BY <1>6, <2>1 DEF SavedInv
<1>13. OrderInv'
  <2> SUFFICES ASSUME NEW a \in Requests \ owners', NEW i \in Requests, Behind(a, i)'
               PROVE  exp'[a] <= clock' /\ \A p \in Requests \ {i} : saved'[p][a] <= clock'
    BY DEF OrderInv
  <2>1. i # r /\ a \in Requests \ owners /\ Behind(a, i)
    BY <1>1, <1>7 DEF Behind
  <2>2. exp[a] <= clock /\ saved[r][a] <= clock
    BY <1>0, <2>1 DEF OrderInv
  <2>3. 0 <= clock
    BY SMT, <1>0
  <2> QED  BY <1>1, <1>6, <2>1, <2>2, <2>3
<1>14. OwnerInv'
  <2> SUFFICES ASSUME NEW a \in Requests, Mails(a)' PROVE Ranked(a)'
    BY <1>5 DEF OwnerInv, Undoable
  <2>1. a # r
    BY <1>2, <1>7 DEF Mails
  <2>2. pc'[a] = pc[a] /\ stamp'[a] = stamp[a] /\ now'[a] = now[a]
    BY <1>2, <1>3, <2>1 DEF OnlyOf
  <2>3. Mails(a)
    BY <1>1, <1>7, <2>1, <2>2 DEF Mails
  <2>4. RankedUndone(r, a)
    BY <1>0, <1>4, <2>3 DEF OwnerInv
  <2>5. Ahead(a)' = Ahead(a) \ {r}
    <3>1. Since(a)' = Since(a)
      BY <1>1, <2>2 DEF Since
    <3> QED  BY <1>1, <1>7, <3>1 DEF Ahead
  <2>6. \A t \in Ahead(a) : exp'[t] = Undone(r, t)
    BY <1>8 DEF Ahead, Open
  <2>7. Due(a)' = DueUndone(r, a)
    <3>1. pc[a] # "issuing" => Open(a)
      BY <2>3 DEF Mails, Open
    <3> QED  BY <1>8, <2>2, <3>1 DEF Due, DueUndone
  <2> QED  BY <2>4, <2>5, <2>6, <2>7 DEF Ranked, RankedUndone
<1>15. DatedInv'
  BY <1>0, <1>1, <1>7 DEF DatedInv
<1> QED  BY <1>9, <1>10, <1>11, <1>12, <1>13, <1>14, <1>15 DEF CodeInv

(* Every step keeps the order of the rows.                                 *)
LEMMA StepCode ==
    ASSUME VerificationInv, TableInv, ResendInv, CodeInv, [Next]_vars
    PROVE  CodeInv'
BY BeginningCode, RefusedCode, ReadCode, DecideCode, CleanupCode, EnqueueFailsCode, BootstrapCode,
   RegisterCode, CreateCode, ResendIssuesCode, ResendUndoneCode, TickCode DEF Next

(* While resends are answered before their cooldown is over, a code that   *)
(* is compared after another one is dead, whatever resends are undone;     *)
(* Bootstrap's own has one before it that outlives it.                     *)
THEOREM CodesInvariant ==
    ASSUME Prompt
    PROVE  Spec => []CodeInv
<1>1. Init => CodeInv
  <2> SUFFICES ASSUME Init PROVE CodeInv
    OBVIOUS
  <2>1. /\ \A r \in Requests : pc[r] = "idle" /\ kind[r] = "none" /\ ~Open(r) /\ code[r] = "none"
        /\ \A r \in Requests : stamp[r] = 0 /\ created[r] = 0
        /\ \A r, i \in Requests : saved[r][i] = 0
        /\ owners = {}
    BY DEF Init, Open
  <2>2. DistinctInv /\ DatedInv /\ StartInv
    BY <2>1 DEF DistinctInv, DatedInv, Times, StartInv
  <2>3. LaterInv /\ SavedInv
    BY <2>1 DEF LaterInv, Resending, SavedInv
  <2>4. OrderInv /\ OwnerInv
    BY <2>1 DEF OrderInv, Behind, OwnerInv, Mails
  <2> QED  BY <2>2, <2>3, <2>4 DEF CodeInv
<1>2. VerificationInv /\ TableInv /\ ResendInv /\ CodeInv /\ [Next]_vars => CodeInv'
  BY StepCode
<1> QED  BY <1>1, <1>2, Invariance, TablesInvariant, ResendsInvariant, PTL DEF Spec

(* The steps of a request.                                                 *)
StepOf(q) ==
    \/ RegisterBegin(q) \/ RegisterTx(q) \/ CleanupRecords(q) \/ CleanupUser(q)
    \/ BootstrapBegin(q) \/ BootstrapTx(q)
    \/ EnqueueVerificationEmail(q) \/ CreateVerification(q)
    \/ ResendBegin(q) \/ ResendLimited(q) \/ ResendSelect(q) \/ ResendTx(q)
    \/ RollbackResend(q)
    \/ Enqueue(q) \/ \E landed \in BOOLEAN : EnqueueFails(q, landed)
    \/ \E a \in Known : VerifyEmailBegin(q, a) \/ VerifyMagicLinkBegin(q, a)
    \/ OtpSnapshot(q) \/ OtpDecide(q)
    \/ MagicValidate(q) \/ MagicDecide(q)
    \/ Fail(q)

(* A step of a request moves only its own stage.                           *)
LEMMA OwnStage ==
    ASSUME NEW q \in Requests, StepOf(q)
    PROVE  \E l : pc' = [pc EXCEPT ![q] = l]
<1>1. CASE \/ RegisterBegin(q) \/ BootstrapBegin(q) \/ ResendBegin(q)
           \/ \E a \in Known : VerifyEmailBegin(q, a) \/ VerifyMagicLinkBegin(q, a)
  BY <1>1 DEF RegisterBegin, BootstrapBegin, ResendBegin, VerifyEmailBegin, VerifyMagicLinkBegin, Begin
<1>2. CASE RegisterTx(q) \/ BootstrapTx(q) \/ EnqueueVerificationEmail(q) \/ CreateVerification(q)
  BY <1>2 DEF RegisterTx, BootstrapTx, EnqueueVerificationEmail, CreateVerification, Answer, Goto
<1>3. CASE ResendLimited(q) \/ ResendSelect(q) \/ ResendTx(q) \/ RollbackResend(q)
  BY <1>3 DEF ResendLimited, ResendSelect, ResendTx, RollbackResend, Answer, Goto
<1>4. CASE CleanupRecords(q) \/ CleanupUser(q) \/ Enqueue(q) \/ Fail(q) \/ \E landed \in BOOLEAN : EnqueueFails(q, landed)
  BY <1>4 DEF CleanupRecords, CleanupUser, Enqueue, EnqueueFails, Fail, Answer, Goto
<1>5. CASE OtpSnapshot(q) \/ OtpDecide(q)
  BY <1>5 DEF OtpSnapshot, OtpDecide, OtpRefused, OtpWrong, OtpRight, Answer, Goto
<1>6. CASE MagicValidate(q) \/ MagicDecide(q)
  BY <1>6 DEF MagicValidate, MagicDecide, Answer, Goto
<1> QED  BY <1>1, <1>2, <1>3, <1>4, <1>5, <1>6 DEF StepOf

(* A request that has read the candidates is answered by its decision, or  *)
(* with an error.                                                          *)
LEMMA SnapshotStep ==
    ASSUME Types, [Next]_vars, NEW r \in Requests, pc[r] = "snapshot", pc'[r] = "done", resp'[r] # "error"
    PROVE  OtpDecide(r)
<1>1. pc' # pc
  OBVIOUS
<1>2. PICK q \in Requests : StepOf(q)
  <2>1. Next /\ ~Tick
    BY <1>1 DEF vars, Tick
  <2> QED  BY <2>1 DEF Next, StepOf
<1>3. \E l : pc' = [pc EXCEPT ![q] = l]
  BY <1>2, OwnStage
<1>4. q = r
  BY <1>3 DEF Types
<1>5. ~Fail(r)
  <2> SUFFICES ASSUME Fail(r) PROVE FALSE
    OBVIOUS
  <2>1. resp' = [resp EXCEPT ![r] = "error"]
    BY DEF Fail, Answer
  <2> QED  BY <2>1 DEF Types
<1>6. /\ ~RegisterBegin(r) /\ ~BootstrapBegin(r) /\ ~ResendBegin(r)
      /\ \A a \in Known : ~VerifyEmailBegin(r, a) /\ ~VerifyMagicLinkBegin(r, a)
  BY DEF RegisterBegin, BootstrapBegin, ResendBegin, VerifyEmailBegin, VerifyMagicLinkBegin, Begin
<1>7. /\ ~RegisterTx(r) /\ ~BootstrapTx(r) /\ ~EnqueueVerificationEmail(r) /\ ~CreateVerification(r)
      /\ ~ResendLimited(r) /\ ~ResendSelect(r) /\ ~ResendTx(r) /\ ~RollbackResend(r)
  BY DEF RegisterTx, BootstrapTx, EnqueueVerificationEmail, CreateVerification,
         ResendLimited, ResendSelect, ResendTx, RollbackResend
<1>8. /\ ~CleanupRecords(r) /\ ~CleanupUser(r) /\ ~Enqueue(r) /\ \A landed \in BOOLEAN : ~EnqueueFails(r, landed)
      /\ ~OtpSnapshot(r) /\ ~MagicValidate(r) /\ ~MagicDecide(r)
  BY DEF CleanupRecords, CleanupUser, Enqueue, EnqueueFails, OtpSnapshot, MagicValidate, MagicDecide
<1> QED  BY <1>2, <1>4, <1>5, <1>6, <1>7, <1>8 DEF StepOf

(* The only code that is alive is the newest one the request has read.     *)
LEMMA AliveIsNewest ==
    ASSUME VerificationInv, TableInv, ResendInv, CodeInv, NEW r \in Requests, OnlyCodeAlive(r),
           NEW i \in Newest({j \in seen[r] : code[j] = "open"})
    PROVE  i = arg[r]
<1>0. Types /\ StageInv /\ RowInv /\ OneCurrent /\ DistinctInv /\ DatedInv /\ OrderInv /\ OwnerInv /\ clock \in Nat
  BY TableFacts DEF VerificationInv, ResendInv, CodeInv
<1> SUFFICES ASSUME i # arg[r] PROVE FALSE
  OBVIOUS
<1>1. PICK a \in Requests : a = arg[r]
  BY <1>0 DEF OnlyCodeAlive, Types
<1>2. /\ a \in seen[r] /\ code[a] = "open" /\ created[holder[a]] <= created[a]
      /\ a \in owners => account[a] = "pending"
      /\ \A t \in Requests : code[t] = "open" => (exp[t] > clock <=> t = a)
  BY <1>1 DEF OnlyCodeAlive
<1>3. i \in Requests /\ code[i] = "open" /\ created[a] <= created[i] /\ i # a
  BY <1>0, <1>1, <1>2 DEF Newest, Types
<1>4. created[a] # created[i]
  <2>1. created[a] # 0 /\ created[i] # 0
    BY <1>0, <1>2, <1>3 DEF DatedInv
  <2>2. Times(a) \cap Times(i) = {}
    BY <1>0, <1>3 DEF DistinctInv
  <2> QED  BY <2>1, <2>2 DEF Times
<1>5. created[a] < created[i]
  <2>1. created[a] \in Nat /\ created[i] \in Nat
    BY <1>3, TimeFacts
  <2> QED  BY SMT, <1>3, <1>4, <2>1
<1>6. exp[a] \in Nat /\ exp[a] > clock /\ ~(exp[a] <= clock)
  <2>1. exp[a] \in Nat /\ exp[a] > clock
    BY <1>2, TimeFacts
  <2> QED  BY SMT, <1>0, <2>1
<1>7. CASE a \notin owners
  <2>1. Behind(a, i)
    BY <1>2, <1>3, <1>5 DEF Behind
  <2> QED  BY <1>0, <1>3, <1>6, <1>7, <2>1 DEF OrderInv
<1>8. CASE a \in owners
  <2>1. Ranked(a)
    BY <1>0, <1>2, <1>8 DEF OwnerInv, Mails
  <2>2. pc[a] # "issuing"
    BY <1>0, <1>2 DEF StageInv, Unissued
  <2>3. holder[i] = a
    <3>1. a \in Current /\ holder[i] \in Current
      BY <1>0, <1>2, <1>3, <1>8 DEF RowInv, Open, Current
    <3> QED  BY <1>0, <3>1 DEF OneCurrent
  <2>4. i \in Ahead(a)
    BY <1>3, <1>5, <2>2, <2>3 DEF Ahead, Since
  <2>5. PICK t \in Ahead(a) : exp[a] <= exp[t]
    BY <2>1, <2>2, <2>4 DEF Ranked, Due
  <2>6. t \in Requests /\ t # a /\ code[t] = "open"
    BY DEF Ahead
  <2>7. exp[t] > clock
    <3>1. exp[t] \in Nat
      BY <2>6, TimeFacts
    <3> QED  BY SMT, <1>0, <1>6, <2>5, <3>1
  <2> QED  BY <1>2, <2>6, <2>7
<1> QED  BY <1>7, <1>8

(* So its decision is on that code, and accepts it.                        *)
LEMMA RightCodeStep ==
    ASSUME VerificationInv, TableInv, ResendInv, CodeInv, [Next]_vars, NEW r \in Requests,
           pc[r] = "snapshot", pc'[r] = "done", resp'[r] # "error", OnlyCodeAlive(r)
    PROVE  resp'[r] = "ok"
<1>0. Types
  BY DEF VerificationInv
<1> DEFINE rows == {j \in seen[r] : code[j] = "open"}
<1>1. OtpDecide(r) /\ arg[r] \in rows /\ arg[r] \in Requests
  BY <1>0, SnapshotStep DEF OnlyCodeAlive, Types
<1>2. \A i \in Newest(rows) : i = arg[r]
  BY AliveIsNewest
<1>3. ~LockedOut(arg[r]) /\ ~(exp[arg[r]] <= now[r])
  <2>1. /\ attempts[arg[r]] \in Nat /\ MaxAttempts \in Nat /\ attempts[arg[r]] <= MaxAttempts
        /\ exp[arg[r]] \in Nat /\ exp[arg[r]] > clock /\ clock \in Nat /\ now[r] \in Nat /\ now[r] <= clock
    BY <1>0, <1>1, TableFacts, VerificationAssumption DEF OnlyCodeAlive, Types, VerificationAssumption
  <2>2. ~(attempts[arg[r]] > MaxAttempts) /\ ~(exp[arg[r]] <= now[r])
    BY SMT, <2>1
  <2> QED  BY <2>2 DEF LockedOut
<1>4. OtpRight(r, arg[r])
  <2>1. rows # {}
    BY <1>1
  <2> HIDE DEF rows
  <2>2. PICK i \in Newest(rows) : ~LockedOut(i) /\ ~(exp[i] <= now[r]) /\ arg[r] = i => OtpRight(r, i)
    BY <1>1, <2>1 DEF OtpDecide, rows
  <2> QED  BY <1>2, <1>3, <2>2
<1>5. resp' = [resp EXCEPT ![r] = "ok"]
  BY <1>4 DEF OtpRight, Answer
<1> QED  BY <1>0, <1>5 DEF Types

(* While resends are answered before their cooldown is over, the OTP of    *)
(* the only verification that is alive is accepted.                        *)
THEOREM RightCode ==
    ASSUME Prompt
    PROVE  Spec => RightCodeAccepted
<1>1. VerificationInv /\ TableInv /\ ResendInv /\ CodeInv /\ [Next]_vars =>
        [\A r \in Requests :
            pc[r] = "snapshot" /\ pc'[r] = "done" /\ resp'[r] # "error" /\ OnlyCodeAlive(r)
              => resp'[r] = "ok"]_vars
  BY RightCodeStep
<1> QED  BY <1>1, Invariance, TablesInvariant, ResendsInvariant, CodesInvariant, PTL
         DEF Spec, RightCodeAccepted
=============================================================================
