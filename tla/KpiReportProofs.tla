-------------------------- MODULE KpiReportProofs --------------------------
(***************************************************************************)
(* For any users, statuses and export, and any number of writes while the  *)
(* report runs: its figures agree, nobody who waited all along is missed,  *)
(* and every row of a well-formed export counts once.                      *)
(***************************************************************************)
EXTENDS KpiReport, FiniteSetTheorems, SequenceTheorems, TLAPS

(* The orders in which the verifications of a user can have been used.     *)
Orders == {<<>>, <<"otp">>, <<"magic_link">>, <<"otp", "magic_link">>, <<"magic_link", "otp">>}

Accounts == {"none", "bare", "pending", "issued", "active", "removed"}

Active == {u \in Users : account[u] = "active"}

(* The tables: a verification is used exactly when its user is active, and *)
(* only users with a verification have attempts and mails.                 *)
TableInv ==
    /\ account \in [Users -> Accounts]
    /\ wrong \subseteq Users
    /\ statuses \in [Users -> SUBSET Reports]
    /\ used \in [Users -> Orders]
    /\ \A u \in Users : used[u] # <<>> <=> account[u] = "active"
    /\ \A u \in Users : u \in wrong \/ statuses[u] # {} => u \in Cohort
    /\ writes \in 0..MaxWrites

(* Who is stuck was in that situation when the report began and still is.  *)
Situations == {"latency", "unsent", "unclicked", "otp_errors", "bounced", "failed"}

StuckInv ==
    /\ stuck \in [Situations -> SUBSET Users]
    /\ step # 0 => \A f \in Situations : stuck[f] \subseteq Situation[f]

(* The report's statement, and what it was asked to read.                  *)
SourceInv ==
    /\ step \in 0..Failed
    /\ source.db \in BOOLEAN
    /\ source.export \in Exports \cup {NoExport}
    /\ source.db => source.export = NoExport
    /\ step \in DOMAIN Statements => source.db
    /\ advice \subseteq Advices

(* What the statements so far have put into the summary.  Each figure was  *)
(* right when it was read; users are verified once and for all, so the     *)
(* bounds stay.                                                            *)
FigureInv ==
    /\ summary \in [Names -> 0..Cardinality(Users)]
    /\ source.db /\ step \in 2..Finished =>
           summary["verified"] <= summary["registered"] /\ summary["verified"] <= Cardinality(Active)
    /\ source.db /\ step \in 3..Finished =>
           summary["verified"] <= summary["ttv"] /\ summary["ttv"] <= Cardinality(Active)
    /\ source.db /\ step \in 10..Finished =>
           /\ summary["ttv"] <= summary["otp"] + summary["magic_link"]
           /\ summary["otp"] + summary["magic_link"] <= Cardinality(Active)
    /\ step = Finished => advice = DeriveRecommendations

(* A figure that was read has counted everyone who is still stuck.         *)
SeenInv ==
    source.db /\ step # Failed =>
        \A f \in Situations :
            (\E i \in DOMAIN Statements : i < step /\ f \in Statements[i]) =>
                Cardinality(stuck[f]) <= summary[f]

(* An export with rows was refused when it could not be read, and counted  *)
(* otherwise.                                                              *)
EventInv ==
    /\ events.total \in -1..MaxRows /\ events.kpi \in 0..MaxRows
    /\ source.export.rows # <<>> /\ step > Exporting =>
           IF Unreadable(source.export) THEN step = Failed
           ELSE step # Failed /\ events = Recorded(source.export)

KpiInv == TableInv /\ StuckInv /\ SourceInv /\ FigureInv /\ SeenInv /\ EventInv

--------------------------------------------------------------------------

(* The statements by number, and the figures by name.                      *)
LEMMA StatementFacts ==
    /\ DOMAIN Statements = 1..9
    /\ Exporting = 10 /\ Advising = 11 /\ Finished = 12 /\ Failed = 13
    /\ Names = {"registered", "verified", "ttv", "latency", "unsent", "unclicked",
                "otp_errors", "bounced", "failed", "otp", "magic_link"}
    /\ Statements[1] = {"registered", "verified"} /\ Statements[2] = {"ttv"}
    /\ Statements[3] = {"latency"} /\ Statements[4] = {"unsent"} /\ Statements[5] = {"unclicked"}
    /\ Statements[6] = {"otp_errors"} /\ Statements[7] = {"bounced"} /\ Statements[8] = {"failed"}
    /\ Statements[9] = {"otp", "magic_link"}
<1>1. /\ DOMAIN Statements = 1..9 /\ Len(Statements) = 9
      /\ Statements[1] = {"registered", "verified"} /\ Statements[2] = {"ttv"}
      /\ Statements[3] = {"latency"} /\ Statements[4] = {"unsent"} /\ Statements[5] = {"unclicked"}
      /\ Statements[6] = {"otp_errors"} /\ Statements[7] = {"bounced"} /\ Statements[8] = {"failed"}
      /\ Statements[9] = {"otp", "magic_link"}
  BY DEF Statements
<1>2. Exporting = 10 /\ Advising = 11 /\ Finished = 12 /\ Failed = 13
  BY <1>1 DEF Exporting, Advising, Finished, Failed
<1>3. Range(Statements) = {Statements[1], Statements[2], Statements[3], Statements[4], Statements[5],
                           Statements[6], Statements[7], Statements[8], Statements[9]}
  <2>1. 1..9 = {1, 2, 3, 4, 5, 6, 7, 8, 9}
    OBVIOUS
  <2>2. Range(Statements) = {Statements[i] : i \in {1, 2, 3, 4, 5, 6, 7, 8, 9}}
    BY Zenon, <1>1, <2>1 DEF Range
  <2> QED
    BY <2>2
<1>4. Names = Statements[1] \cup Statements[2] \cup Statements[3] \cup Statements[4] \cup Statements[5]
              \cup Statements[6] \cup Statements[7] \cup Statements[8] \cup Statements[9]
  BY Zenon, <1>3 DEF Names
<1>5. Names = {"registered", "verified", "ttv", "latency", "unsent", "unclicked",
               "otp_errors", "bounced", "failed", "otp", "magic_link"}
  BY <1>1, <1>4
<1> QED
  BY <1>1, <1>2, <1>5

(* A set of users is finite and no larger than the users table, and a      *)
(* larger set counts no less.                                              *)
LEMMA UserSets ==
    ASSUME NEW S \in SUBSET Users
    PROVE  /\ IsFiniteSet(S) /\ Cardinality(S) \in 0..Cardinality(Users)
           /\ \A T \in SUBSET S : Cardinality(T) <= Cardinality(S)
           /\ S # {} => Cardinality(S) > 0
<1>1. IsFiniteSet(Users)
  BY KpiAssumption DEF KpiAssumption
<1>2. IsFiniteSet(S) /\ Cardinality(S) <= Cardinality(Users)
  BY <1>1, FS_Subset
<1>3. Cardinality(S) \in Nat /\ Cardinality(Users) \in Nat
  BY <1>1, <1>2, FS_CardinalityType
<1>4. \A T \in SUBSET S : Cardinality(T) <= Cardinality(S)
  BY <1>2, FS_Subset
<1>5. S # {} => Cardinality(S) # 0
  BY <1>2, FS_EmptySet
<1> QED  BY <1>2, <1>3, <1>4, <1>5

(* What the figures count.                                                 *)
LEMMA FigureFacts ==
    ASSUME TableInv
    PROVE  /\ \A f \in Names : Figures[f] \in SUBSET Users
           /\ Figures["verified"] = Active /\ Figures["ttv"] = Active
           /\ Active \in SUBSET Figures["registered"]
           /\ \A f \in Situations : f \in Names /\ Figures[f] = Situation[f]
           /\ Active = Figures["otp"] \cup Figures["magic_link"]
           /\ Figures["otp"] \cap Figures["magic_link"] = {}
<1>1. Cohort \in SUBSET Users /\ Unverified \in SUBSET Users /\ Cohort \ Unverified = Active
  BY DEF Cohort, Unverified, Active
<1>2. \A m \in Methods : Credited(m) \in SUBSET Users
  BY DEF Credited
<1>3. \A t : With(t) \in SUBSET Users
  BY DEF With
<1>4. Unsent \in SUBSET Users /\ wrong \in SUBSET Users
  BY <1>1 DEF Unsent, TableInv
<1>5. LET waiting == {u \in Users : account[u] \in {"pending", "issued"}}
      IN  /\ Unsent = waiting \ With("sent")
          /\ (Unverified \cap With("sent")) \ With("clicked") = (waiting \cap With("sent")) \ With("clicked")
  BY DEF Unsent, Unverified, Cohort, With
<1>6. Credited("otp") \cap Credited("magic_link") = {}
  BY DEF Credited
<1>7. Active = Credited("otp") \cup Credited("magic_link")
  BY DEF Active, Credited, TableInv, Orders
<1>8. /\ Figures["registered"] = Cohort /\ Figures["verified"] = Cohort \ Unverified
      /\ Figures["ttv"] = Cohort \ Unverified /\ Figures["latency"] = With("sent")
      /\ Figures["unsent"] = Unsent
      /\ Figures["unclicked"] = (Unverified \cap With("sent")) \ With("clicked")
      /\ Figures["otp_errors"] = wrong /\ Figures["bounced"] = With("bounced")
      /\ Figures["failed"] = With("failed")
      /\ Figures["otp"] = Credited("otp") /\ Figures["magic_link"] = Credited("magic_link")
  BY DEF Figures
<1>9. ASSUME NEW f \in Names PROVE Figures[f] \in SUBSET Users
  BY <1>1, <1>2, <1>3, <1>4, <1>8, <1>9, StatementFacts DEF Methods
<1>10. ASSUME NEW f \in Situations PROVE f \in Names /\ Figures[f] = Situation[f]
  <2>1. /\ Situation["latency"] = With("sent") /\ Situation["unsent"] = Unsent
        /\ Situation["unclicked"] = (Unverified \cap With("sent")) \ With("clicked")
        /\ Situation["otp_errors"] = wrong
        /\ Situation["bounced"] = With("bounced") /\ Situation["failed"] = With("failed")
    BY <1>5 DEF Situation, With
  <2> QED
    BY <1>8, <2>1, StatementFacts DEF Situations
<1> QED
  BY <1>1, <1>6, <1>7, <1>8, <1>9, <1>10 DEF Cohort, Unverified

(* The situations are sets of users.                                       *)
LEMMA SituationFacts ==
    ASSUME TableInv
    PROVE  Situation \in [Situations -> SUBSET Users]
<1>1. DOMAIN Situation = Situations
  BY DEF Situation, Situations
<1>2. \A f \in Situations : Situation[f] \in SUBSET Users
  BY FigureFacts
<1>3. Situation = [f \in Situations |-> Situation[f]]
  BY <1>1 DEF Situation
<1> QED
  BY Zenon, <1>2, <1>3

--------------------------------------------------------------------------
(* The writers.                                                            *)

(* A write while the report runs leaves its figures behind the tables in   *)
(* one direction only: more users are verified, fewer are stuck.           *)
LEMMA WriteKeeps ==
    ASSUME KpiInv, Write, TableInv', Active \subseteq Active'
    PROVE  StuckInv' /\ SourceInv' /\ FigureInv' /\ SeenInv' /\ EventInv'
<1>1. /\ step \in 0..9
      /\ UNCHANGED <<step, source, summary, events, advice>>
      /\ stuck' = [f \in DOMAIN stuck |-> stuck[f] \cap Situation'[f]]
  BY StatementFacts DEF Write, report
<1>2. /\ stuck' \in [Situations -> SUBSET Users]
      /\ \A f \in Situations : stuck'[f] \subseteq stuck[f] /\ stuck'[f] \subseteq Situation'[f]
  <2>1. stuck \in [Situations -> SUBSET Users] /\ DOMAIN stuck = Situations
    BY Zenon DEF KpiInv, StuckInv
  <2>2. \A f \in Situations : stuck'[f] = stuck[f] \cap Situation'[f]
    BY Zenon, <1>1, <2>1
  <2>3. \A f \in Situations : stuck[f] \cap Situation'[f] \in SUBSET Users
    BY Zenon, <2>1
  <2>4. stuck' \in [Situations -> SUBSET Users]
    BY Zenon, <1>1, <2>1, <2>3
  <2> QED
    BY Zenon, <2>2, <2>4
<1>3. StuckInv'
  BY Zenon, <1>2 DEF StuckInv
<1>4. SourceInv'
  BY <1>1 DEF KpiInv, SourceInv
<1>5. EventInv'
  BY <1>1, StatementFacts DEF KpiInv, EventInv
<1>6. /\ Cardinality(Active) <= Cardinality(Active') /\ Cardinality(Active) \in Nat
      /\ Cardinality(Active') \in Nat
  BY UserSets DEF Active
<1>7. \A f \in Names : summary[f] \in Nat
  <2>1. Cardinality(Users) \in Nat
    BY UserSets
  <2> QED
    BY <2>1 DEF KpiInv, FigureInv
<1>8. step # Finished
  BY <1>1, StatementFacts
<1>9. FigureInv'
  BY <1>1, <1>6, <1>7, <1>8, StatementFacts DEF KpiInv, FigureInv
<1>10. SeenInv'
  <2> SUFFICES ASSUME source.db, step # Failed, NEW f \in Situations,
                      \E i \in DOMAIN Statements : i < step /\ f \in Statements[i]
               PROVE  Cardinality(stuck'[f]) <= summary[f]
    BY <1>1 DEF SeenInv
  <2>1. Cardinality(stuck[f]) <= summary[f]
    BY DEF KpiInv, SeenInv
  <2>2. stuck[f] \in SUBSET Users /\ stuck'[f] \in SUBSET stuck[f] /\ stuck'[f] \in SUBSET Users
    BY Zenon, <1>2 DEF KpiInv, StuckInv
  <2>3. /\ Cardinality(stuck'[f]) <= Cardinality(stuck[f])
        /\ Cardinality(stuck[f]) \in 0..Cardinality(Users) /\ Cardinality(stuck'[f]) \in 0..Cardinality(Users)
    BY Zenon, <2>2, UserSets
  <2>4. summary[f] \in Nat
    BY <1>7, FigureFacts DEF KpiInv
  <2> QED
    BY <2>1, <2>3, <2>4
<1> QED
  BY <1>3, <1>4, <1>5, <1>9, <1>10

(* Write counts within its bound.                                          *)
LEMMA WriteBound ==
    ASSUME TableInv, Write
    PROVE  writes' \in 0..MaxWrites
BY KpiAssumption DEF KpiAssumption, TableInv, Write

(* A registration, with or without a verification.                         *)
LEMMA RegisterAction ==
    ASSUME TableInv, NEW u \in Users, NEW a \in {"bare", "pending"}, Register(u, a)
    PROVE  TableInv' /\ Active \subseteq Active'
<1>1. writes' \in 0..MaxWrites
  BY WriteBound DEF Register
<1> QED
  BY <1>1 DEF TableInv, Register, Accounts, Active, Cohort

(* A verification for an account without one.                              *)
LEMMA IssueAction ==
    ASSUME TableInv, NEW u \in Users, IssueVerification(u)
    PROVE  TableInv' /\ Active \subseteq Active'
<1>1. writes' \in 0..MaxWrites
  BY WriteBound DEF IssueVerification
<1> QED
  BY <1>1 DEF TableInv, IssueVerification, Accounts, Active, Cohort

(* A registration that is cleaned up: nobody who is verified is undone.    *)
LEMMA CleanupAction ==
    ASSUME TableInv, NEW u \in Users, Cleanup(u)
    PROVE  TableInv' /\ Active \subseteq Active'
<1>1. writes' \in 0..MaxWrites
  BY WriteBound DEF Cleanup
<1> QED
  BY <1>1 DEF TableInv, Cleanup, Accounts, Active, Cohort

(* A resend that is rolled back takes attempts and mails of a user, and    *)
(* all of them when it takes the last verification.                        *)
LEMMA RollbackAction ==
    ASSUME TableInv, NEW u \in Users, RollbackResend(u)
    PROVE  TableInv' /\ Active \subseteq Active'
<1>1. writes' \in 0..MaxWrites
  BY WriteBound DEF RollbackResend
<1>2. CASE /\ account[u] = "issued" /\ account' = [account EXCEPT ![u] = "bare"]
           /\ wrong' = wrong \ {u} /\ statuses' = [statuses EXCEPT ![u] = {}] /\ UNCHANGED used
  BY <1>1, <1>2 DEF TableInv, Accounts, Active, Cohort
<1>3. CASE /\ u \in Cohort /\ UNCHANGED <<account, used>> /\ wrong' \in {wrong, wrong \ {u}}
           /\ \E S \in SUBSET statuses[u] : statuses' = [statuses EXCEPT ![u] = S]
  <2>1. PICK S \in SUBSET statuses[u] : statuses' = [statuses EXCEPT ![u] = S]
    BY <1>3
  <2>2. Cohort' = Cohort /\ Active' = Active /\ wrong' \subseteq wrong
    BY <1>3 DEF Cohort, Active
  <2>3. statuses' \in [Users -> SUBSET Reports] /\ \A v \in Users : statuses'[v] \subseteq statuses[v]
    BY <2>1 DEF TableInv
  <2> QED
    BY <1>1, <1>3, <2>2, <2>3 DEF TableInv
<1> QED
  BY <1>2, <1>3 DEF RollbackResend

(* A wrong code, and a status of a mail.                                   *)
LEMMA WrongAction ==
    ASSUME TableInv, NEW u \in Users, WrongCode(u) \/ \E t \in Reports : RecordStatus(u, t)
    PROVE  TableInv' /\ Active \subseteq Active'
<1>1. writes' \in 0..MaxWrites
  BY WriteBound DEF WrongCode, RecordStatus
<1>2. CASE WrongCode(u)
  BY <1>1, <1>2 DEF TableInv, WrongCode, Active, Cohort
<1>3. ASSUME NEW t \in Reports, RecordStatus(u, t) PROVE TableInv' /\ Active \subseteq Active'
  BY <1>1, <1>3 DEF TableInv, RecordStatus, Active, Cohort
<1> QED
  BY <1>2, <1>3

(* A method before or after another one.                                   *)
LEMMA PairFacts ==
    ASSUME NEW a \in Methods, NEW b \in Methods
    PROVE  Append(<<a>>, b) = <<a, b>> /\ <<a>> \o <<b>> = <<a, b>>
<1>1. /\ Append(<<a>>, b) \in Seq(Methods) /\ Len(Append(<<a>>, b)) = 2
      /\ Append(<<a>>, b)[1] = a /\ Append(<<a>>, b)[2] = b
  OBVIOUS
<1>2. /\ <<a>> \o <<b>> \in Seq(Methods) /\ Len(<<a>> \o <<b>>) = 2
      /\ (<<a>> \o <<b>>)[1] = a /\ (<<a>> \o <<b>>)[2] = b
  OBVIOUS
<1>3. /\ <<a, b>> \in Seq(Methods) /\ Len(<<a, b>>) = 2
      /\ <<a, b>>[1] = a /\ <<a, b>>[2] = b
  OBVIOUS
<1>4. ASSUME NEW s \in Seq(Methods), Len(s) = 2, s[1] = a, s[2] = b PROVE s = <<a, b>>
  BY <1>3, <1>4, SeqEqual
<1> QED  BY <1>1, <1>2, <1>4

(* A code or a link that was not used joins the history in either place.   *)
LEMMA OrderFacts ==
    ASSUME NEW s \in Orders, NEW m \in Methods, m \notin Range(s)
    PROVE  /\ Append(s, m) \in Orders \ {<<>>}
           /\ <<m>> \o s \in Orders \ {<<>>}
<1>1. CASE s = <<>>
  BY <1>1 DEF Orders, Methods
<1>2. CASE s = <<"otp">>
  <2>1. m = "magic_link"
    BY <1>2 DEF Range, Methods
  <2> QED
    BY <1>2, <2>1, PairFacts DEF Orders, Methods
<1>3. CASE s = <<"magic_link">>
  <2>1. m = "otp"
    BY <1>3 DEF Range, Methods
  <2> QED
    BY <1>3, <2>1, PairFacts DEF Orders, Methods
<1>4. CASE s = <<"otp", "magic_link">> \/ s = <<"magic_link", "otp">>
  BY <1>4 DEF Range, Methods
<1> QED
  BY <1>1, <1>2, <1>3, <1>4 DEF Orders

(* A verification is used.                                                 *)
LEMMA VerifyAction ==
    ASSUME TableInv, NEW u \in Users, NEW m \in Methods, Verify(u, m)
    PROVE  TableInv' /\ Active \subseteq Active'
<1>1. writes' \in 0..MaxWrites
  BY WriteBound DEF Verify
<1>2. PICK s \in Orders \ {<<>>} : used' = [used EXCEPT ![u] = s]
  BY OrderFacts DEF Verify, TableInv
<1> QED
  BY <1>1, <1>2 DEF TableInv, Verify, Accounts, Active, Cohort

--------------------------------------------------------------------------
(* The report.                                                             *)

(* While the tables stand still, so does what is computed from them.       *)
LEMMA StillTables ==
    ASSUME KpiInv, UNCHANGED <<table, writes>>
    PROVE  TableInv' /\ Active' = Active /\ Situation' = Situation
<1>1. UNCHANGED <<account, wrong, statuses, used, writes>>
  BY DEF table
<1>2. TableInv'
  BY <1>1 DEF KpiInv, TableInv, Cohort
<1> QED
  BY Zenon, <1>1, <1>2 DEF Active, Situation

(* A report begins: who waits now may turn out to wait all along.          *)
LEMMA BeginAction ==
    ASSUME KpiInv, step = 0, NEW d \in BOOLEAN, NEW x \in Asked(d), Begin(d, x)
    PROVE  KpiInv'
<1>1. TableInv' /\ Situation' = Situation
  BY StillTables DEF Begin
<1>2. /\ source'.db = d /\ source'.export = x /\ stuck' = Situation
      /\ step' = IF d THEN 1 ELSE 10
      /\ UNCHANGED <<summary, events, advice>>
  BY StatementFacts DEF Begin
<1>3. x \in Exports \cup {NoExport} /\ (d => x = NoExport)
  BY Zenon DEF Asked
<1>4. StuckInv'
  <2>1. Situation \in [Situations -> SUBSET Users]
    BY SituationFacts DEF KpiInv
  <2> QED
    BY Zenon, <1>1, <1>2, <2>1 DEF StuckInv
<1>5. SourceInv'
  <2>1. source'.db \in BOOLEAN /\ (source'.db => source'.export = NoExport)
    BY Zenon, <1>2, <1>3
  <2>2. step' \in 0..Failed /\ (step' \in DOMAIN Statements => source'.db)
    BY <1>2, StatementFacts
  <2> QED
    BY Zenon, <1>2, <1>3, <2>1, <2>2 DEF KpiInv, SourceInv
<1>6. FigureInv' /\ EventInv'
  BY <1>2, StatementFacts DEF KpiInv, FigureInv, EventInv
<1>7. SeenInv'
  <2>1. \A i \in DOMAIN Statements : ~(i < 1)
    BY StatementFacts
  <2>2. source'.db => step' = 1
    BY Zenon, <1>2
  <2> QED
    BY Zenon, <2>1, <2>2 DEF SeenInv
<1> QED
  BY <1>1, <1>4, <1>5, <1>6, <1>7 DEF KpiInv

(* One statement of loadDatabaseSummary reads its figures.                 *)
LEMMA QueryAction ==
    ASSUME KpiInv, Query
    PROVE  KpiInv'
<1>1. TableInv' /\ Active' = Active /\ Situation' = Situation
  BY StillTables DEF Query
<1>2. /\ step \in 1..9 /\ step' = step + 1 /\ source.db
      /\ UNCHANGED <<source, events, advice, stuck>>
  BY StatementFacts DEF Query, KpiInv, SourceInv
<1>3. StuckInv' /\ SourceInv' /\ EventInv'
  <2>1. StuckInv'
    BY <1>1, <1>2 DEF KpiInv, StuckInv
  <2>2. EventInv'
    BY <1>2, StatementFacts DEF KpiInv, EventInv
  <2>3. SourceInv'
    <3>1. step' \in 0..Failed
      BY <1>2, StatementFacts
    <3> QED
      BY Zenon, <1>2, <3>1 DEF KpiInv, SourceInv
  <2> QED  BY <2>1, <2>2, <2>3
<1>4. \A f \in Names : Cardinality(Figures[f]) \in 0..Cardinality(Users)
  BY FigureFacts, UserSets DEF KpiInv
<1>5. /\ \A f \in Names : summary[f] \in 0..Cardinality(Users)
      /\ Cardinality(Users) \in Nat /\ Cardinality(Active) \in Nat
  BY UserSets DEF KpiInv, FigureInv, Active
<1>6. /\ summary' \in [Names -> 0..Cardinality(Users)]
      /\ \A f \in Names : summary'[f] = IF f \in Statements[step] THEN Cardinality(Figures[f]) ELSE summary[f]
  <2>1. summary' = [f \in Names |-> IF f \in Statements[step] THEN Cardinality(Figures[f]) ELSE summary[f]]
    BY DEF Query
  <2> QED
    BY <1>4, <1>5, <2>1
<1>7. /\ Cardinality(Figures["verified"]) = Cardinality(Active)
      /\ Cardinality(Figures["ttv"]) = Cardinality(Active)
      /\ Cardinality(Active) <= Cardinality(Figures["registered"])
      /\ Cardinality(Figures["otp"]) + Cardinality(Figures["magic_link"]) = Cardinality(Active)
  <2>1. \A f \in {"registered", "otp", "magic_link"} : Figures[f] \in SUBSET Users
    BY FigureFacts, StatementFacts DEF KpiInv
  <2>2. Figures["verified"] = Active /\ Figures["ttv"] = Active /\ Active \in SUBSET Figures["registered"]
    BY FigureFacts DEF KpiInv
  <2>4. Cardinality(Active) <= Cardinality(Figures["registered"])
    BY <2>1, <2>2, UserSets
  <2>5. /\ Active = Figures["otp"] \cup Figures["magic_link"]
        /\ Figures["otp"] \cap Figures["magic_link"] = {}
    BY FigureFacts DEF KpiInv
  <2>6. Cardinality(Active) = Cardinality(Figures["otp"]) + Cardinality(Figures["magic_link"]) - Cardinality({})
    <3>1. IsFiniteSet(Figures["otp"]) /\ IsFiniteSet(Figures["magic_link"])
      BY <2>1, UserSets
    <3>2. Cardinality(Figures["otp"] \cup Figures["magic_link"]) =
            Cardinality(Figures["otp"]) + Cardinality(Figures["magic_link"])
              - Cardinality(Figures["otp"] \cap Figures["magic_link"])
      BY <3>1, FS_Union
    <3> QED
      BY Zenon, <3>2, <2>5
  <2>7. /\ Cardinality({}) = 0 /\ Cardinality(Figures["otp"]) \in Nat
        /\ Cardinality(Figures["magic_link"]) \in Nat
    BY <1>4, <1>5, StatementFacts, FS_EmptySet
  <2> QED
    BY <2>2, <2>4, <2>6, <2>7
<1>8. FigureInv'
  <2> HIDE DEF Active, Figures
  <2>0. step # Finished /\ step' # Finished
    BY <1>2, StatementFacts
  <2>1. FigureInv!1'
    BY <1>1, <1>6
  <2>2. CASE step = 1
    BY <1>1, <1>2, <1>5, <1>6, <1>7, <2>0, <2>1, <2>2, StatementFacts DEF FigureInv
  <2>3. CASE step = 2
    BY <1>1, <1>2, <1>5, <1>6, <1>7, <2>0, <2>1, <2>3, StatementFacts DEF KpiInv, FigureInv
  <2>4. CASE step \in 3..8
    BY <1>1, <1>2, <1>5, <1>6, <2>0, <2>1, <2>4, StatementFacts DEF KpiInv, FigureInv
  <2>8. CASE step = 9
    BY <1>1, <1>2, <1>5, <1>6, <1>7, <2>0, <2>1, <2>8, StatementFacts DEF KpiInv, FigureInv
  <2> QED
    BY <1>2, <2>2, <2>3, <2>4, <2>8
<1>9. SeenInv'
  <2> SUFFICES ASSUME NEW f \in Situations, NEW i \in DOMAIN Statements, i < step + 1, f \in Statements[i]
               PROVE  Cardinality(stuck[f]) <= summary'[f]
    BY <1>2 DEF SeenInv
  <2>1. f \in Names /\ Figures[f] = Situation[f] /\ Figures[f] \in SUBSET Users
    BY FigureFacts DEF KpiInv
  <2>2. CASE f \in Statements[step]
    <3>1. stuck[f] \in SUBSET Figures[f]
      BY <1>2, <2>1 DEF KpiInv, StuckInv
    <3>2. Cardinality(stuck[f]) <= Cardinality(Figures[f])
      BY Zenon, <2>1, <3>1, UserSets
    <3> QED
      BY Zenon, <1>6, <2>1, <2>2, <3>2
  <2>3. CASE f \notin Statements[step]
    <3>1. i < step /\ step # Failed
      BY <1>2, <2>3, StatementFacts
    <3>2. Cardinality(stuck[f]) <= summary[f]
      BY Zenon, <1>2, <3>1 DEF KpiInv, SeenInv
    <3> QED
      BY Zenon, <1>6, <2>1, <2>3, <3>2
  <2> QED  BY <2>2, <2>3
<1> QED
  BY <1>1, <1>3, <1>8, <1>9 DEF KpiInv

(* The rows of an export are a sequence, and what is recorded of them is   *)
(* no more than they are.                                                  *)
LEMMA ExportFacts ==
    ASSUME NEW x \in Exports \cup {NoExport}
    PROVE  /\ x.rows \in Seq(Rows) /\ Len(x.rows) \in 0..MaxRows
           /\ DOMAIN x.rows = 1..Len(x.rows)
           /\ Recorded(x).total \in 0..MaxRows /\ Recorded(x).kpi \in 0..MaxRows
<1>0. MaxRows \in Nat
  BY KpiAssumption DEF KpiAssumption
<1>1. x.rows \in SeqUpTo(Rows, MaxRows)
  <2>1. CASE x \in Exports
    BY Zenon, <2>1 DEF Exports
  <2>2. CASE x = NoExport
    <3>1. <<>> \in [1..0 -> Rows]
      OBVIOUS
    <3> QED
      BY <1>0, <2>2, <3>1 DEF NoExport, SeqUpTo
  <2> QED  BY <2>1, <2>2
<1>2. PICK m \in 0..MaxRows : x.rows \in [1..m -> Rows]
  BY <1>1 DEF SeqUpTo
<1>3. /\ x.rows \in Seq(Rows) /\ Len(x.rows) = m /\ DOMAIN x.rows = 1..m
  BY <1>0, <1>2
<1> DEFINE named == {i \in DOMAIN x.rows : EventName(x.format, x.rows[i]) # "blank"}
           kpi == {i \in named : EventName(x.format, x.rows[i]) = "kpi"}
<1>4. Recorded(x) = [total |-> Cardinality(named), kpi |-> Cardinality(kpi)]
  BY DEF Recorded
<1>5. named \in SUBSET (1..m) /\ kpi \in SUBSET (1..m)
  BY Zenon, <1>3
<1> HIDE DEF named, kpi
<1>6. \A S \in SUBSET (1..m) : Cardinality(S) \in 0..MaxRows
  <2>1. IsFiniteSet(1..m) /\ Cardinality(1..m) = m
    BY <1>0, FS_Interval
  <2>2. ASSUME NEW S \in SUBSET (1..m) PROVE Cardinality(S) \in Nat /\ Cardinality(S) <= m
    BY <2>1, FS_Subset, FS_CardinalityType
  <2> QED
    BY <1>0, <2>2
<1> QED
  BY <1>2, <1>3, <1>4, <1>5, <1>6

(* The export, if there is one, is read or refused.                        *)
LEMMA ExportAction ==
    ASSUME KpiInv, LoadExport
    PROVE  KpiInv'
<1>0. MaxRows \in Nat
  BY KpiAssumption DEF KpiAssumption
<1>1. TableInv' /\ Active' = Active /\ Situation' = Situation
  BY StillTables DEF LoadExport
<1>2. /\ step = 10 /\ step' \in {11, 13}
      /\ UNCHANGED <<source, summary, advice, stuck>>
  BY StatementFacts DEF LoadExport
<1>3. StuckInv'
  BY <1>1, <1>2 DEF KpiInv, StuckInv
<1>4. SourceInv'
  <2>1. step' \in 0..Failed /\ step' \notin DOMAIN Statements
    BY <1>2, StatementFacts
  <2> QED
    BY Zenon, <1>2, <2>1 DEF KpiInv, SourceInv
<1>5. FigureInv'
  BY <1>1, <1>2, StatementFacts DEF KpiInv, FigureInv
<1>6. EventInv'
  <2>1. source.export \in Exports \cup {NoExport} /\ NoExport.rows = <<>>
    BY DEF KpiInv, SourceInv, NoExport
  <2>2. CASE source.export = NoExport
    BY <1>2, <2>1, <2>2 DEF LoadExport, KpiInv, EventInv
  <2>3. CASE source.export # NoExport /\ Unreadable(source.export)
    BY <1>2, <2>3 DEF LoadExport, KpiInv, EventInv
  <2>4. CASE source.export # NoExport /\ ~Unreadable(source.export)
    <3>1. events' = Recorded(source.export) /\ step' = Advising
      BY <2>4 DEF LoadExport
    <3>2. /\ Recorded(source.export).total \in 0..MaxRows
          /\ Recorded(source.export).kpi \in 0..MaxRows
      BY <2>1, ExportFacts
    <3> QED
      BY <1>0, <1>2, <2>4, <3>1, <3>2, StatementFacts DEF EventInv
  <2> QED
    BY <2>2, <2>3, <2>4
<1>7. SeenInv'
  <2>1. \A i \in DOMAIN Statements : i < step
    BY <1>2, StatementFacts
  <2>2. step # Failed
    BY <1>2, StatementFacts
  <2> QED
    BY Zenon, <1>2, <2>1, <2>2 DEF KpiInv, SeenInv
<1> QED
  BY <1>1, <1>3, <1>4, <1>5, <1>6, <1>7 DEF KpiInv

(* The recommendations; or a query fails, which can only be the database's.*)
LEMMA EndAction ==
    ASSUME KpiInv, Conclude \/ QueryFails
    PROVE  KpiInv'
<1>1. TableInv' /\ Active' = Active /\ Situation' = Situation
  BY StillTables DEF Conclude, QueryFails
<1>2. UNCHANGED <<source, events, stuck>>
  BY DEF Conclude, QueryFails
<1>3. \/ step = 11 /\ step' = 12 /\ advice' = DeriveRecommendations /\ summary' = summary
      \/ /\ step \in 1..9 /\ step' = 13 /\ advice' = advice /\ source.export = NoExport
         /\ summary' = [f \in Names |-> 0]
  BY StatementFacts DEF Conclude, QueryFails, KpiInv, SourceInv
<1>4. StuckInv'
  BY <1>1, <1>2, <1>3 DEF KpiInv, StuckInv
<1>5. SourceInv'
  <2>1. step' \in 0..Failed /\ step' \notin DOMAIN Statements
    BY <1>3, StatementFacts
  <2>2. DeriveRecommendations \subseteq Advices
    BY Zenon DEF DeriveRecommendations
  <2> QED
    BY Zenon, <1>2, <1>3, <2>1, <2>2 DEF KpiInv, SourceInv
<1>6. summary' = summary => DeriveRecommendations' = DeriveRecommendations
  BY Zenon, <1>2 DEF DeriveRecommendations
<1>7. FigureInv'
  <2>1. CASE step = 11
    BY <1>1, <1>2, <1>3, <1>6, <2>1, StatementFacts DEF KpiInv, FigureInv
  <2>2. CASE step \in 1..9
    <3>1. Cardinality(Users) \in Nat
      BY UserSets
    <3> QED
      BY <1>3, <2>2, <3>1, StatementFacts DEF FigureInv
  <2> QED  BY <1>3, <2>1, <2>2
<1>8. EventInv'
  <2>1. NoExport.rows = <<>>
    BY DEF NoExport
  <2> QED
    BY <1>2, <1>3, <2>1, StatementFacts DEF KpiInv, EventInv
<1>9. SeenInv'
  <2>1. CASE step = 11
    <3>1. \A i \in DOMAIN Statements : i < step
      BY <2>1, StatementFacts
    <3>2. step # Failed /\ summary' = summary
      BY <1>3, <2>1, StatementFacts
    <3> QED
      BY Zenon, <1>2, <3>1, <3>2 DEF KpiInv, SeenInv
  <2>2. CASE step \in 1..9
    BY <1>3, <2>2, StatementFacts DEF SeenInv
  <2> QED  BY <1>3, <2>1, <2>2
<1> QED
  BY <1>1, <1>4, <1>5, <1>7, <1>8, <1>9 DEF KpiInv

(* The invariant of the report holds in every state.                       *)
THEOREM Invariance == Spec => []KpiInv
<1>1. Init => KpiInv
  <2> SUFFICES ASSUME Init PROVE KpiInv
    OBVIOUS
  <2>0. MaxWrites \in Nat /\ MaxRows \in Nat /\ Cardinality(Users) \in Nat
    BY KpiAssumption, UserSets DEF KpiAssumption
  <2>1. TableInv
    BY <2>0 DEF Init, TableInv, Accounts, Orders
  <2>2. StuckInv
    <3>1. stuck = [f \in Situations |-> {}]
      BY DEF Init, Situation, Situations
    <3> QED
      BY <3>1 DEF Init, StuckInv
  <2>3. SourceInv
    <3>1. step \in 0..Failed /\ step \notin DOMAIN Statements
      BY StatementFacts DEF Init
    <3> QED
      BY Zenon, <3>1 DEF Init, SourceInv
  <2>4. FigureInv /\ EventInv
    BY <2>0, StatementFacts DEF Init, FigureInv, EventInv
  <2>5. SeenInv
    BY DEF Init, SeenInv
  <2> QED
    BY <2>1, <2>2, <2>3, <2>4, <2>5 DEF KpiInv
<1>2. KpiInv /\ [Next]_vars => KpiInv'
  <2> SUFFICES ASSUME KpiInv, [Next]_vars PROVE KpiInv'
    OBVIOUS
  <2>1. TableInv
    BY DEF KpiInv
  <2>2. ASSUME Write, TableInv', Active \subseteq Active' PROVE KpiInv'
    BY <2>2, WriteKeeps DEF KpiInv
  <2>3. ASSUME NEW u \in Users, NEW a \in {"bare", "pending"}, Register(u, a) PROVE KpiInv'
    BY <2>1, <2>2, <2>3, RegisterAction DEF Register
  <2>4. ASSUME NEW u \in Users, IssueVerification(u) PROVE KpiInv'
    BY <2>1, <2>2, <2>4, IssueAction DEF IssueVerification
  <2>5. ASSUME NEW u \in Users, Cleanup(u) \/ RollbackResend(u) PROVE KpiInv'
    BY <2>1, <2>2, <2>5, CleanupAction, RollbackAction DEF Cleanup, RollbackResend
  <2>6. ASSUME NEW u \in Users, WrongCode(u) \/ \E t \in Reports : RecordStatus(u, t) PROVE KpiInv'
    BY <2>1, <2>2, <2>6, WrongAction DEF WrongCode, RecordStatus
  <2>7. ASSUME NEW u \in Users, NEW m \in Methods, Verify(u, m) PROVE KpiInv'
    BY <2>1, <2>2, <2>7, VerifyAction DEF Verify
  <2>8. CASE step = 0 /\ \E d \in BOOLEAN : \E x \in Asked(d) : Begin(d, x)
    BY <2>8, BeginAction
  <2>9. CASE UNCHANGED vars
    <3>1. UNCHANGED <<table, report, stuck, writes>>
      BY <2>9 DEF vars
    <3>2. UNCHANGED <<step, source, summary, events, advice, stuck>>
      BY <3>1 DEF report
    <3>3. TableInv' /\ Active' = Active /\ Situation' = Situation
      BY <3>1, StillTables
    <3>4. StuckInv' /\ SourceInv' /\ SeenInv' /\ EventInv'
      BY Zenon, <3>2, <3>3 DEF KpiInv, StuckInv, SourceInv, SeenInv, EventInv
    <3>5. DeriveRecommendations' = DeriveRecommendations
      BY Zenon, <3>2 DEF DeriveRecommendations
    <3>6. FigureInv'
      BY <3>2, <3>3, <3>5 DEF KpiInv, FigureInv
    <3> QED
      BY <3>3, <3>4, <3>6 DEF KpiInv
  <2> QED
    BY <2>3, <2>4, <2>5, <2>6, <2>7, <2>8, <2>9, QueryAction, ExportAction, EndAction DEF Next
<1> QED
  BY <1>1, <1>2, PTL DEF Spec

(* TypeOK: tables, report and history keep their types, and the figures    *)
(* never exceed the users.                                                 *)
THEOREM TypeCorrect == Spec => []TypeOK
<1>1. KpiInv => TypeOK
  <2> SUFFICES ASSUME KpiInv PROVE TypeOK
    OBVIOUS
  <2>1. ASSUME NEW s \in Orders PROVE s \in SeqUpTo(Methods, 2)
    <3>1. <<>> \in [1..0 -> Methods] /\ \A a \in Methods : <<a>> \in [1..1 -> Methods]
      OBVIOUS
    <3>2. \A a, b \in Methods : <<a, b>> \in [1..2 -> Methods]
      OBVIOUS
    <3>3. \A n \in 0..2 : [1..n -> Methods] \subseteq SeqUpTo(Methods, 2)
      BY Zenon DEF SeqUpTo
    <3>4. /\ [1..0 -> Methods] \subseteq SeqUpTo(Methods, 2)
          /\ [1..1 -> Methods] \subseteq SeqUpTo(Methods, 2)
          /\ [1..2 -> Methods] \subseteq SeqUpTo(Methods, 2)
      BY <3>3
    <3>5. s = <<>> \/ (\E a \in Methods : s = <<a>>) \/ (\E a, b \in Methods : s = <<a, b>>)
      BY DEF Orders, Methods
    <3> QED
      BY Zenon, <3>1, <3>2, <3>4, <3>5
  <2>2. used \in [Users -> SeqUpTo(Methods, 2)]
    BY Zenon, <2>1 DEF KpiInv, TableInv
  <2>3. source.export.format \in Formats \cup {"none"}
    <3>1. source.export \in Exports \cup {NoExport}
      BY DEF KpiInv, SourceInv
    <3>2. CASE source.export \in Exports
      BY <3>2 DEF Exports
    <3>3. CASE source.export = NoExport
      BY <3>3 DEF NoExport
    <3> QED  BY <3>1, <3>2, <3>3
  <2>4. stuck \in [DOMAIN Situation -> SUBSET Users]
    <3>1. DOMAIN Situation = Situations
      BY DEF Situation, Situations
    <3> QED
      BY Zenon, <3>1 DEF KpiInv, StuckInv
  <2> QED
    BY Zenon, <2>2, <2>3, <2>4 DEF KpiInv, TableInv, SourceInv, FigureInv, EventInv, TypeOK, Accounts
<1> QED
  BY <1>1, Invariance, PTL

(* ActivationsAddUp: the figures of a finished report agree with each      *)
(* other, whatever was written between its queries.                        *)
THEOREM FiguresAgree == Spec => []ActivationsAddUp
<1>1. KpiInv => ActivationsAddUp
  <2> SUFFICES ASSUME KpiInv, Done PROVE ActivationsAddUp
    BY DEF ActivationsAddUp
  <2>1. Figures.verified = Active
    BY FigureFacts DEF KpiInv
  <2>2. source.db /\ step \in 2..Finished /\ step \in 3..Finished /\ step \in 10..Finished
    BY StatementFacts DEF Done
  <2> QED
    BY <2>1, <2>2 DEF KpiInv, FigureInv, ActivationsAddUp
<1> QED
  BY <1>1, Invariance, PTL

(* StuckUsersReported: who was in one of the situations during the whole   *)
(* report is in the figure for it, and the report advises on it.           *)
THEOREM StuckUsersSeen == Spec => []StuckUsersReported
<1>1. KpiInv => StuckUsersReported
  <2> SUFFICES ASSUME KpiInv, Done PROVE StuckUsersReported
    BY DEF StuckUsersReported
  <2>1. source.db /\ step = Finished /\ step # Failed /\ \A i \in DOMAIN Statements : i < step
    BY StatementFacts DEF Done
  <2>2. \A f \in Situations : \E i \in DOMAIN Statements : f \in Statements[i]
    <3>1. {3, 4, 5, 6, 7, 8} \subseteq DOMAIN Statements
      BY StatementFacts
    <3> QED
      BY <3>1, StatementFacts DEF Situations
  <2>3. \A f \in Situations : Cardinality(stuck[f]) <= summary[f]
    BY Zenon, <2>1, <2>2 DEF KpiInv, SeenInv
  <2>4. ASSUME NEW f \in Situations PROVE summary[f] \in Nat /\ (stuck[f] # {} => summary[f] > 0)
    <3>1. stuck[f] \in SUBSET Users /\ f \in Names
      BY Zenon, FigureFacts DEF KpiInv, StuckInv
    <3>2. /\ Cardinality(stuck[f]) \in 0..Cardinality(Users) /\ Cardinality(Users) \in Nat
          /\ stuck[f] # {} => Cardinality(stuck[f]) > 0
      BY <3>1, UserSets
    <3>3. summary[f] \in 0..Cardinality(Users)
      BY Zenon, <3>1 DEF KpiInv, FigureInv
    <3> QED
      BY <2>3, <3>2, <3>3
  <2>5. /\ stuck.unsent \cup stuck.bounced \cup stuck.failed # {} =>
               summary.unsent + summary.failed + summary.bounced > 0
        /\ stuck.unclicked # {} => summary.unclicked > 0
        /\ stuck.otp_errors # {} => summary.otp_errors > 0
    <3>1. /\ summary.unsent \in Nat /\ summary.failed \in Nat /\ summary.bounced \in Nat
          /\ stuck.unsent # {} => summary.unsent > 0
          /\ stuck.failed # {} => summary.failed > 0
          /\ stuck.bounced # {} => summary.bounced > 0
          /\ stuck.unclicked # {} => summary.unclicked > 0
          /\ stuck.otp_errors # {} => summary.otp_errors > 0
      BY <2>4 DEF Situations
    <3> QED
      BY <3>1
  <2>6. advice = DeriveRecommendations
    BY <2>1 DEF KpiInv, FigureInv
  <2>7. stuck.unsent \cup stuck.bounced \cup stuck.failed # {} => "delivery" \in advice
    BY <2>1, <2>5, <2>6 DEF DeriveRecommendations, Advices
  <2>8. stuck.unclicked # {} => "copy" \in advice
    BY <2>1, <2>5, <2>6 DEF DeriveRecommendations, Advices
  <2>9. stuck.otp_errors # {} => "otp" \in advice
    BY <2>1, <2>5, <2>6 DEF DeriveRecommendations, Advices
  <2>10. DOMAIN stuck = Situations
    BY Zenon DEF KpiInv, StuckInv
  <2> QED
    BY Zenon, <2>3, <2>7, <2>8, <2>9, <2>10 DEF StuckUsersReported
<1> QED
  BY <1>1, Invariance, PTL

--------------------------------------------------------------------------
(* The export.                                                             *)

(* Min finds the least element.                                            *)
LEMMA MinIs ==
    ASSUME NEW S \in SUBSET Int, NEW n \in S, \A y \in S : n <= y
    PROVE  Min(S) = n
<1>1. Min(S) \in S /\ \A y \in S : Min(S) <= y
  BY Zenon DEF Min
<1>2. Min(S) \in Int /\ n \in Int /\ n <= Min(S) /\ Min(S) <= n
  BY Zenon, <1>1
<1> QED  BY <1>2

(* The first candidate column of a row, as ExportCounted means it.         *)
First(D) ==
    CHOOSE c \in D : \A d \in D : (d = "event" => c = "event") /\ (d = "event_name" => c # "name")

(* A row with a text in every column is named after the first one, however *)
(* the format skips blanks and numbers.                                    *)
LEMMA FirstCell ==
    ASSUME NEW row \in Rows, DOMAIN row # {}, Range(row) \subseteq {"kpi", "other"},
           NEW cells, {"kpi", "other"} \subseteq cells
    PROVE  CellOf(row, cells) = row[First(DOMAIN row)] /\ row[First(DOMAIN row)] \in {"kpi", "other"}
<1> DEFINE D == DOMAIN row
           at == {i \in DOMAIN Columns : Columns[i] \in D /\ row[Columns[i]] \in cells}
<1>1. /\ DOMAIN Columns = {1, 2, 3}
      /\ Columns[1] = "event" /\ Columns[2] = "event_name" /\ Columns[3] = "name"
  BY DEF Columns
<1>2. D \subseteq {"event", "event_name", "name"}
  <2>1. Range(Columns) = {"event", "event_name", "name"}
    BY <1>1 DEF Range
  <2> QED
    BY <2>1 DEF Rows
<1>3. \A c \in D : row[c] \in {"kpi", "other"} /\ row[c] \in cells
  BY DEF Range
<1>4. CellOf(row, cells) = IF at = {} THEN "blank" ELSE row[Columns[Min(at)]]
  BY DEF CellOf
<1>5. at = {i \in {1, 2, 3} : Columns[i] \in D}
  BY <1>1, <1>3
<1>6. ASSUME NEW c \in D, \A d \in D : (d = "event" => c = "event") /\ (d = "event_name" => c # "name")
      PROVE  /\ First(D) \in D
             /\ \A d \in D : (d = "event" => First(D) = "event") /\ (d = "event_name" => First(D) # "name")
  BY Zenon, <1>6 DEF First
<1> HIDE DEF D, at
<1>7. CASE "event" \in D
  <2>1. First(D) = "event"
    BY <1>6, <1>7
  <2>2. 1 \in at /\ Min(at) = 1
    BY <1>1, <1>5, <1>7, MinIs
  <2> QED
    BY <1>1, <1>3, <1>4, <1>7, <2>1, <2>2 DEF D
<1>8. CASE "event" \notin D /\ "event_name" \in D
  <2>1. First(D) = "event_name"
    BY <1>2, <1>6, <1>8
  <2>2. 2 \in at /\ Min(at) = 2
    BY <1>1, <1>5, <1>8, MinIs
  <2> QED
    BY <1>1, <1>3, <1>4, <1>8, <2>1, <2>2 DEF D
<1>9. CASE D = {"name"}
  <2>1. First(D) = "name"
    BY <1>6, <1>9
  <2>2. 3 \in at /\ Min(at) = 3
    BY <1>1, <1>5, <1>9, MinIs
  <2> QED
    BY <1>1, <1>3, <1>4, <1>9, <2>1, <2>2 DEF D
<1> QED
  BY <1>2, <1>7, <1>8, <1>9 DEF D

(* ExportCounted: every row of a well-formed export counts once, under the *)
(* name in its first candidate column.                                     *)
THEOREM ExportsCounted == Spec => []ExportCounted
<1>1. KpiInv => ExportCounted
  <2> DEFINE rows == source.export.rows
             wellFormed == \A i \in DOMAIN rows :
                               /\ DOMAIN rows[i] = DOMAIN rows[1] /\ DOMAIN rows[i] # {}
                               /\ Range(rows[i]) \subseteq {"kpi", "other"}
  <2> SUFFICES ASSUME KpiInv, wellFormed, rows # <<>>, step > Exporting
               PROVE  /\ step # Failed
                      /\ events.total = Len(rows)
                      /\ events.kpi = Cardinality({i \in DOMAIN rows : rows[i][First(DOMAIN rows[1])] = "kpi"})
    BY DEF ExportCounted, First
  <2>1. source.export \in Exports
    BY DEF KpiInv, SourceInv, NoExport
  <2>2. source.export.format \in Formats
    BY <2>1 DEF Exports
  <2>3. rows \in Seq(Rows) /\ DOMAIN rows = 1..Len(rows) /\ Len(rows) \in Nat
    BY <2>1, ExportFacts
  <2>4. ~Unreadable(source.export)
    BY Zenon DEF Unreadable
  <2>5. step # Failed /\ events = Recorded(source.export)
    BY <2>4 DEF KpiInv, EventInv
  <2>6. ASSUME NEW i \in DOMAIN rows
        PROVE  /\ EventName(source.export.format, rows[i]) = rows[i][First(DOMAIN rows[1])]
               /\ EventName(source.export.format, rows[i]) # "blank"
    <3>1. rows[i] \in Rows
      BY <2>3
    <3>2. /\ DOMAIN rows[i] = DOMAIN rows[1] /\ DOMAIN rows[i] # {}
          /\ Range(rows[i]) \subseteq {"kpi", "other"}
      BY Zenon
    <3>3. \A cells \in {Cells, Cells \ {"number"}, {"kpi", "other"}} :
              /\ CellOf(rows[i], cells) = rows[i][First(DOMAIN rows[1])]
              /\ CellOf(rows[i], cells) # "blank"
      <4>1. \A cells \in {Cells, Cells \ {"number"}, {"kpi", "other"}} : {"kpi", "other"} \subseteq cells
        BY DEF Cells
      <4> QED
        BY <3>1, <3>2, <4>1, FirstCell
    <3> QED
      BY <2>2, <3>3 DEF EventName, Formats
  <2> DEFINE named == {i \in DOMAIN rows : EventName(source.export.format, rows[i]) # "blank"}
             kpi == {i \in named : EventName(source.export.format, rows[i]) = "kpi"}
  <2>7. Recorded(source.export) = [total |-> Cardinality(named), kpi |-> Cardinality(kpi)]
    BY DEF Recorded
  <2>8. named = DOMAIN rows
    BY Zenon, <2>6
  <2>9. kpi = {i \in DOMAIN rows : rows[i][First(DOMAIN rows[1])] = "kpi"}
    BY Zenon, <2>6, <2>8
  <2>10. Cardinality(DOMAIN rows) = Len(rows)
    <3>1. Cardinality(1..Len(rows)) = Len(rows)
      BY <2>3, FS_Interval
    <3> QED
      BY <2>3, <3>1
  <2> HIDE DEF rows, named, kpi
  <2> QED
    BY <2>5, <2>7, <2>8, <2>9, <2>10
<1> QED
  BY <1>1, Invariance, PTL

============================================================================
