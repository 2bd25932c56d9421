----------------------------- MODULE KpiReport -----------------------------
(***************************************************************************)
(* kpi-report: one report over the tables of auth-api and email-worker     *)
(* while both keep working, and over an optional event export.             *)
(*                                                                         *)
(* The report's queries run one after another without a transaction, each  *)
(* on the committed rows of its own moment.  The writers are the committed *)
(* effects of EmailVerification and EmailWorker; the verifications of a    *)
(* user are taken together, as the queries take them.  A median is kept as *)
(* the size of its sample: it is NULL exactly when the sample is empty.    *)
(***************************************************************************)
EXTENDS Integers, Sequences, FiniteSetsExt, Functions

CONSTANTS
    Users,
    Reports,     \* statuses email-worker may record
    MaxRows,     \* rows of an event export
    MaxWrites    \* writes while a report runs

ASSUME KpiAssumption ==
    /\ IsFiniteSet(Users)
    /\ Reports \subseteq {"sent", "failed", "bounced", "clicked"}
    /\ MaxRows \in Nat /\ MaxWrites \in Nat

(* Sequences over S of at most n elements.                                 *)
SeqUpTo(S, n) == UNION {[1..k -> S] : k \in 0..n}

Methods == {"otp", "magic_link"}
Columns == <<"event", "event_name", "name">>
Cells == {"blank", "kpi", "other", "number"}    \* what a cell of the export holds
Rows == UNION {[C -> Cells] : C \in SUBSET Range(Columns)}
Formats == {"csv", "array", "ndjson"}
NoExport == [format |-> "none", rows |-> <<>>]
Exports == [format : Formats, rows : SeqUpTo(Rows, MaxRows)]

VARIABLES
    account,     \* users row: none, pending (registered with a verification),
                 \* bare (without one), issued (bare, and got one), active, removed
    wrong,       \* users with a wrong attempt on their code
    statuses,    \* email_status_history of the user's verification mails
    used,        \* verifications used, in the order of their verified_at
    step,        \* the report's next statement, 0 before it starts
    source,      \* [db, export]: what the report was asked to read
    summary,     \* databaseSummary, one number per figure
    events,      \* mixpanelSummary: [total, kpi], total -1 while there is none
    advice,      \* Recommendations
    \* history
    stuck,       \* users in the same situation ever since the report began
    writes       \* writes since the report began

table == <<account, wrong, statuses, used>>
report == <<step, source, summary, events, advice>>
vars == <<table, report, stuck, writes>>

Cohort == {u \in Users : account[u] \in {"pending", "issued", "active"}}
Unverified == {u \in Cohort : account[u] # "active"}

(* Mutant: without DISTINCT ON a user counts for every method used.        *)
CreditedEach(m) == {u \in Users : m \in Range(used[u])}

Credited(m) == {u \in Users : used[u] # <<>> /\ used[u][1] = m}

(* Mutant: any status of a mail counts as sent.                            *)
UnsentNoStatus == {u \in Unverified : statuses[u] = {}}

(* A verification commits with its email_records row and goes with it, so  *)
(* that a user of the cohort has one: the query's first exists is implied. *)
Unsent == {u \in Unverified : "sent" \notin statuses[u]}

With(s) == {u \in Users : s \in statuses[u]}

(* The users each figure of the report counts.                             *)
Figures ==
    [registered |-> Cohort, verified |-> Cohort \ Unverified,
     ttv |-> Cohort \ Unverified, latency |-> With("sent"),
     unsent |-> Unsent,
     unclicked |-> (Unverified \cap With("sent")) \ With("clicked"),
     otp_errors |-> wrong, bounced |-> With("bounced"), failed |-> With("failed"),
     otp |-> Credited("otp"), magic_link |-> Credited("magic_link")]

(* History: the situations of users that a report has a figure for.        *)
Situation ==
    LET waiting == {u \in Users : account[u] \in {"pending", "issued"}}
        got(s) == {u \in Users : s \in statuses[u]}
    IN [latency |-> got("sent"), unsent |-> waiting \ got("sent"),
        unclicked |-> (waiting \cap got("sent")) \ got("clicked"),
        otp_errors |-> wrong, bounced |-> got("bounced"), failed |-> got("failed")]

(* The statements of loadDatabaseSummary, with the figures each one reads. *)
Statements ==
    <<{"registered", "verified"}, {"ttv"}, {"latency"}, {"unsent"}, {"unclicked"},
      {"otp_errors"}, {"bounced"}, {"failed"}, {"otp", "magic_link"}>>

Names == UNION Range(Statements)
Exporting == Len(Statements) + 1
Advising == Exporting + 1
Finished == Advising + 1
Failed == Finished + 1
Advices == {"populate", "delivery", "copy", "otp", "ttl", "export"}

TypeOK ==
    /\ account \in [Users -> {"none", "bare", "pending", "issued", "active", "removed"}]
    /\ wrong \subseteq Users
    /\ statuses \in [Users -> SUBSET Reports]
    /\ used \in [Users -> SeqUpTo(Methods, 2)]
    /\ \A u \in Users : used[u] # <<>> <=> account[u] = "active"
    /\ \A u \in Users : u \in wrong \/ statuses[u] # {} => u \in Cohort
    /\ step \in 0..Failed
    /\ source.db \in BOOLEAN /\ source.export.format \in Formats \cup {"none"}
    /\ summary \in [Names -> 0..Cardinality(Users)]
    /\ events.total \in -1..MaxRows /\ events.kpi \in 0..MaxRows
    /\ advice \subseteq Advices
    /\ stuck \in [DOMAIN Situation -> SUBSET Users]
    /\ writes \in 0..MaxWrites

Init ==
    /\ account = [u \in Users |-> "none"]
    /\ wrong = {}
    /\ statuses = [u \in Users |-> {}]
    /\ used = [u \in Users |-> <<>>]
    /\ step = 0
    /\ source = [db |-> FALSE, export |-> NoExport]
    /\ summary = [f \in Names |-> 0]
    /\ events = [total |-> -1, kpi |-> 0]
    /\ advice = {}
    /\ stuck = [f \in DOMAIN Situation |-> {}]
    /\ writes = 0

--------------------------------------------------------------------------
(* The writers.                                                            *)

(* Bound: the tables stand still once the report reads them no more.       *)
Write ==
    /\ \/ step = 0 /\ UNCHANGED writes
       \/ step \in DOMAIN Statements /\ writes < MaxWrites /\ writes' = writes + 1
    /\ UNCHANGED report
    /\ LET now == Situation' IN stuck' = [f \in DOMAIN stuck |-> stuck[f] \cap now[f]]

(* Register commits with its verification; Bootstrap and accounts older    *)
(* than the verification tables come without one.                          *)
Register(u, a) ==
    /\ account[u] = "none" /\ a \in {"bare", "pending"}
    /\ account' = [account EXCEPT ![u] = a]
    /\ UNCHANGED <<wrong, statuses, used>> /\ Write

(* Bootstrap's CreateVerification, or a resend.                            *)
IssueVerification(u) ==
    /\ account[u] = "bare"
    /\ account' = [account EXCEPT ![u] = "issued"]
    /\ UNCHANGED <<wrong, statuses, used>> /\ Write

(* The push of a registration failed: CleanupPendingRegistration removes   *)
(* the user with every row, and nothing of a user verified meanwhile.      *)
Cleanup(u) ==
    /\ account[u] = "pending"
    /\ account' = [account EXCEPT ![u] = "removed"]
    /\ wrong' = wrong \ {u}
    /\ statuses' = [statuses EXCEPT ![u] = {}]
    /\ UNCHANGED used /\ Write

(* Mutant: the status history outlives the record.                         *)
RollbackKeepsHistory(u) ==
    /\ account[u] = "issued"
    /\ account' = [account EXCEPT ![u] = "bare"]
    /\ wrong' = wrong \ {u}
    /\ UNCHANGED <<statuses, used>> /\ Write

(* The push of a resend failed: RollbackResendVerification deletes its     *)
(* unused verifications, with their attempts, and its email_records row    *)
(* with the history, also of a user verified meanwhile.                    *)
RollbackResend(u) ==
    /\ u \in Cohort
    /\ \/ /\ account[u] = "issued"              \* there was no other verification
          /\ account' = [account EXCEPT ![u] = "bare"]
          /\ wrong' = wrong \ {u}
          /\ statuses' = [statuses EXCEPT ![u] = {}]
       \/ /\ UNCHANGED account                  \* what is left belongs to the others
          /\ wrong' \in {wrong, wrong \ {u}}
          /\ \E S \in SUBSET statuses[u] : statuses' = [statuses EXCEPT ![u] = S]
    /\ UNCHANGED used /\ Write

WrongCode(u) ==
    /\ u \in Cohort \ wrong /\ "otp" \notin Range(used[u])
    /\ wrong' = wrong \cup {u}
    /\ UNCHANGED <<account, statuses, used>> /\ Write

(* A code or a link is used.  verified_at is when the transaction began,   *)
(* so the second one to commit may precede the first.                      *)
Verify(u, m) ==
    /\ u \in Cohort /\ m \notin Range(used[u])
    /\ account' = [account EXCEPT ![u] = "active"]
    /\ \E s \in {Append(used[u], m), <<m>> \o used[u]} : used' = [used EXCEPT ![u] = s]
    /\ UNCHANGED <<wrong, statuses>> /\ Write

RecordStatus(u, s) ==
    /\ u \in Cohort /\ s \notin statuses[u]
    /\ statuses' = [statuses EXCEPT ![u] = @ \cup {s}]
    /\ UNCHANGED <<account, wrong, used>> /\ Write

--------------------------------------------------------------------------
(* The report.                                                             *)

(* Bound: an export is read without a database, and a report without a     *)
(* database starts from empty tables: neither part looks at the other.     *)
Asked(d) ==
    IF d THEN {NoExport}
    ELSE IF \A u \in Users : account[u] = "none" THEN Exports \cup {NoExport} ELSE {}

Begin(d, x) ==
    /\ source' = [db |-> d, export |-> x]
    /\ step' = IF d THEN 1 ELSE Exporting
    /\ stuck' = Situation
    /\ UNCHANGED <<table, summary, events, advice, writes>>

Query ==
    /\ step \in DOMAIN Statements
    /\ summary' = [f \in Names |-> IF f \in Statements[step]
                                   THEN Cardinality(Figures[f]) ELSE summary[f]]
    /\ step' = step + 1
    /\ UNCHANGED <<table, source, events, advice, stuck, writes>>

(* A query fails or the timeout of the report expires: there is no         *)
(* databaseSummary, and no report.                                         *)
QueryFails ==
    /\ step \in DOMAIN Statements
    /\ summary' = [f \in Names |-> 0]
    /\ step' = Failed
    /\ UNCHANGED <<table, source, events, advice, stuck, writes>>

(* The cell in the first candidate column that holds one of the given.     *)
CellOf(row, cells) ==
    LET at == {i \in DOMAIN Columns : Columns[i] \in DOMAIN row /\ row[Columns[i]] \in cells}
    IN IF at = {} THEN "blank" ELSE row[Columns[Min(at)]]

(* Mutant: the last candidate column is read.                              *)
EventNameLast(format, row) ==
    LET at == {i \in DOMAIN Columns : Columns[i] \in DOMAIN row}
    IN IF at = {} THEN "blank" ELSE row[Columns[Max(at)]]

(* A CSV row has the first candidate column of the header, and every cell  *)
(* is text; extractEventName takes the first that is text, even blank;     *)
(* normalizedEventName the first that is not blank.                        *)
EventName(format, row) ==
    CASE format = "csv"    -> CellOf(row, Cells)
      [] format = "array"  -> CellOf(row, Cells \ {"number"})
      [] format = "ndjson" -> CellOf(row, {"kpi", "other"})

(* No candidate column or a row of another width in CSV; a value of        *)
(* another type in a typed row.                                            *)
Unreadable(x) ==
    \/ /\ x.format = "csv"
       /\ \E i \in DOMAIN x.rows : DOMAIN x.rows[i] = {} \/ DOMAIN x.rows[i] # DOMAIN x.rows[1]
    \/ /\ x.format = "ndjson"
       /\ \E i \in DOMAIN x.rows : "number" \in Range(x.rows[i])

(* recordEvent for every row.                                              *)
Recorded(x) ==
    LET named == {i \in DOMAIN x.rows : EventName(x.format, x.rows[i]) # "blank"}
        kpi == {i \in named : EventName(x.format, x.rows[i]) = "kpi"}
    IN [total |-> Cardinality(named), kpi |-> Cardinality(kpi)]

LoadExport ==
    /\ step = Exporting
    /\ \/ /\ source.export = NoExport
          /\ step' = Advising /\ UNCHANGED events
       \/ /\ source.export # NoExport /\ Unreadable(source.export)
          /\ step' = Failed /\ UNCHANGED events
       \/ /\ source.export # NoExport /\ ~Unreadable(source.export)
          /\ step' = Advising /\ events' = Recorded(source.export)
    /\ UNCHANGED <<table, source, summary, advice, stuck, writes>>

DeriveRecommendations ==
    {a \in Advices :
        CASE a = "populate" -> ~source.db \/ summary.registered = 0
          [] a = "delivery" -> source.db /\ summary.unsent + summary.failed + summary.bounced > 0
          [] a = "copy"     -> source.db /\ summary.unclicked > 0
          [] a = "otp"      -> source.db /\ summary.otp_errors > 0
          [] a = "ttl"      -> source.db
          [] a = "export"   -> source.export = NoExport}

Conclude ==
    /\ step = Advising
    /\ advice' = DeriveRecommendations
    /\ step' = Finished
    /\ UNCHANGED <<table, source, summary, events, stuck, writes>>

Next ==
    \/ \E u \in Users : \/ \E a \in {"bare", "pending"} : Register(u, a)
                        \/ IssueVerification(u)
                        \/ Cleanup(u)
                        \/ RollbackResend(u)
                        \/ WrongCode(u)
                        \/ \E m \in Methods : Verify(u, m)
                        \/ \E s \in Reports : RecordStatus(u, s)
    \/ step = 0 /\ \E d \in BOOLEAN : \E x \in Asked(d) : Begin(d, x)
    \/ Query \/ QueryFails \/ LoadExport \/ Conclude

Spec == Init /\ [][Next]_vars

--------------------------------------------------------------------------

Done == step = Finished /\ source.db

(* The figures of a report agree although users register, verify and are   *)
(* cleaned up between its queries: the activation rate is a share, the     *)
(* median time-to-verify is there when somebody verified, and the          *)
(* activations by method, which credit nobody twice, add up to no fewer    *)
(* than VerifiedUsers and no more than the users verified now.             *)
ActivationsAddUp ==
    Done => /\ summary.verified <= summary.registered
            /\ summary.verified <= summary.ttv
            /\ summary.ttv <= summary.otp + summary.magic_link
            /\ summary.otp + summary.magic_link <= Cardinality(Figures.verified)

(* A user whose mail was sent or not, sent and not clicked, bounced or     *)
(* failed, or who had entered a wrong code, during the whole report is in  *)
(* the figure for it, and the report advises accordingly, whatever mails,  *)
(* verifications and rollbacks commit between its queries.                 *)
StuckUsersReported ==
    Done => /\ \A f \in DOMAIN stuck : Cardinality(stuck[f]) <= summary[f]
            /\ stuck.unsent \cup stuck.bounced \cup stuck.failed # {} => "delivery" \in advice
            /\ stuck.unclicked # {} => "copy" \in advice
            /\ stuck.otp_errors # {} => "otp" \in advice

(* Every row of a well-formed export (the same columns in every row, each  *)
(* with a text) counts once, under the name in its first candidate column, *)
(* whatever the format of the file.                                        *)
ExportCounted ==
    LET rows == source.export.rows
        wellFormed == \A i \in DOMAIN rows :
                          /\ DOMAIN rows[i] = DOMAIN rows[1] /\ DOMAIN rows[i] # {}
                          /\ Range(rows[i]) \subseteq {"kpi", "other"}
        first == CHOOSE c \in DOMAIN rows[1] :
                     \A d \in DOMAIN rows[1] : (d = "event" => c = "event") /\ (d = "event_name" => c # "name")
    IN wellFormed /\ rows # <<>> /\ step > Exporting =>
           /\ step # Failed
           /\ events.total = Len(rows)
           /\ events.kpi = Cardinality({i \in DOMAIN rows : rows[i][first] = "kpi"})

============================================================================
