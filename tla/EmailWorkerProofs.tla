------------------------- MODULE EmailWorkerProofs -------------------------
(***************************************************************************)
(* For any records, workers and webhook requests, with and without faults: *)
(* the contract with auth-api, webhook events recorded once, the sends     *)
(* that a blacklisted address may still get, and the sends and acceptances *)
(* that the pushes of a job can lead to.                                   *)
(***************************************************************************)
EXTENDS EmailWorker, FiniteSetTheorems, TLAPS

(* Leaves are for Zenon, but for those that cite SMT.                       *)
USE Zenon

(* The types of TypeOK, and of the variables it says less about.           *)
TypeInv ==
    /\ TypeOK
    /\ job \in [Workers -> Jobs \cup {<<>>}]
    /\ hook \in [Hooks -> Payloads \cup {<<>>}]
    /\ hist \in [Records -> SUBSET (Hooks \X Events \X Statuses)]

(* A webhook transaction holds the row it has looked up, the row stays     *)
(* until it ends, and what it found missing in the history is missing.     *)
HookInv ==
    \A h \in Hooks : hpc[h] \in {"locked", "fresh"} =>
        /\ lock[hook[h].rec] = h
        /\ status[hook[h].rec] # "absent"
        /\ hpc[h] = "fresh" =>
              \A x \in hist[hook[h].rec] : x[2] # hook[h].event \/ x[3] # hook[h].status

(* Rows and jobs are of records that auth-api has issued.                  *)
IssuedInv ==
    \A m \in Records : status[m] # "absent" \/ pushes[m] > 0 => m \in issued

(* Every job in the list, in hand or in a timer is of such a record.       *)
JobsIssued ==
    /\ \A i \in DOMAIN queue : queue[i].rec \in issued
    /\ \A w \in Workers : pc[w] # Idle => Mine(w) \in issued
    /\ \A w \in Workers, j \in Jobs : timers[w][j] > 0 => j.rec \in issued

(* Workers that have passed the blacklist check for an address.            *)
Checked(a) == {w \in Workers : pc[w] = "checked" /\ To[Mine(w)] = a}

(* The sends to a blacklisted address that went out, and those that will.  *)
LateInv ==
    \A a \in Addresses :
        /\ a \notin blacklist => late[a] = 0
        /\ a \in blacklist => late[a] + Cardinality(Checked(a)) <= Cardinality(Workers) - 1

WorkerInv == TypeInv /\ HookInv /\ IssuedInv /\ JobsIssued /\ EventRecordedOnce /\ LateInv

(* What the jobs are made of.                                              *)
LEMMA JobFacts ==
    /\ \A m \in Records : [rec |-> m, retry |-> 0] \in Jobs
    /\ \A j \in Jobs : j.rec \in Records /\ To[j.rec] \in Addresses
    /\ \A j \in Jobs : RetryLeft(j) => Retry(j) \in Jobs
<1> USE WorkerAssumption DEF WorkerAssumption, Jobs
<1>1. \A m \in Records : [rec |-> m, retry |-> 0] \in Jobs
  BY SMT
<1>2. \A j \in Jobs : j.rec \in Records /\ To[j.rec] \in Addresses
  OBVIOUS
<1>3. \A j \in Jobs : RetryLeft(j) => Retry(j) \in Jobs
  BY SMT DEF RetryLeft, Retry
<1> QED  BY <1>1, <1>2, <1>3

(* Done leaves an idle worker without a job.                               *)
LEMMA DoneTypes ==
    ASSUME TypeInv, NEW w \in Workers, Done(w)
    PROVE  /\ pc' \in [Workers -> WorkerPC] /\ pc'[w] = Idle
           /\ job' \in [Workers -> Jobs \cup {<<>>}]
           /\ extId' \in [Workers -> Nat]
           /\ \A v \in Workers : pc'[v] # Idle => job'[v] \in Jobs
           /\ \A v \in Workers \ {w} : pc'[v] = pc[v] /\ job'[v] = job[v]
BY DEF TypeInv, TypeOK, Done, Goto, WorkerPC

(* So does a step to another stage with the same job.                      *)
LEMMA GotoTypes ==
    ASSUME TypeInv, NEW w \in Workers, NEW l \in WorkerPC, Goto(w, l), pc[w] # Idle, UNCHANGED job
    PROVE  /\ pc' \in [Workers -> WorkerPC] /\ pc'[w] = l
           /\ \A v \in Workers : pc'[v] # Idle => job'[v] \in Jobs
           /\ \A v \in Workers \ {w} : pc'[v] = pc[v]
BY DEF TypeInv, TypeOK, Goto, WorkerPC

(* Which e-mail records exist.                                             *)
SameRows == \A m \in Records : status'[m] = "absent" <=> status[m] = "absent"

(* What every step of a worker leaves to auth-api and the webhook.         *)
Apart == SameRows /\ UNCHANGED <<hist, lock, hooks, issued, pushes>>

(* Every step of a worker keeps to its part.                               *)
LEMMA WorkerApart ==
    ASSUME TypeInv, NEW w \in Workers,
           WorkerStep(w) \/ (\E j \in Jobs : RetryFires(w, j)) \/ GiveUp(w) \/ Crash(w)
    PROVE  Apart /\ status' \in [Records -> Statuses]
<1>0. status \in [Records -> Statuses]
  BY DEF TypeInv, TypeOK
<1>1. CASE UNCHANGED <<status, hist, lock, hooks, issued, pushes>>
  BY <1>0, <1>1 DEF Apart, SameRows
<1>2. CASE MarkSent(w)
  BY <1>0, <1>2 DEF MarkSent, Apart, SameRows, history, Statuses
<1>3. CASE MarkFailed(w)
  BY <1>0, <1>3 DEF MarkFailed, Apart, SameRows, history, Statuses
<1>4. CASE MarkBounced(w)
  BY <1>0, <1>4 DEF MarkBounced, Apart, SameRows, history, Statuses
<1>5. ASSUME WorkerStep(w) PROVE Apart /\ status' \in [Records -> Statuses]
  <2>1. CASE HardBounce(w) \/ SoftBounceRetry(w) \/ SoftBounceExceeded(w)
    BY <1>4, <2>1 DEF HardBounce, SoftBounceRetry, SoftBounceExceeded
  <2>2. CASE Dequeue(w) \/ HandleJob(w) \/ MarkBouncedMissing(w)
    BY <1>1, <2>2 DEF Dequeue, HandleJob, MarkBouncedMissing, db, history
  <2>3. CASE \E o \in Outcomes : Send(w, o)
    BY <1>1, <2>3 DEF Send, db
  <2>4. CASE Blacklist(w)
    BY <1>1, <2>4 DEF Blacklist, history
  <2> QED  BY <1>2, <1>3, <1>5, <2>1, <2>2, <2>3, <2>4 DEF WorkerStep
<1>6. ASSUME (\E j \in Jobs : RetryFires(w, j)) \/ GiveUp(w) \/ Crash(w)
      PROVE  Apart /\ status' \in [Records -> Statuses]
  BY <1>1, <1>6 DEF RetryFires, GiveUp, Crash, db
<1> QED  BY <1>5, <1>6

(* What keeps to its part keeps the invariants of the others.              *)
LEMMA ApartKeeps ==
    ASSUME WorkerInv, Apart
    PROVE  HookInv' /\ IssuedInv' /\ EventRecordedOnce'
<1>1. \A h \in Hooks : hpc[h] \in {"locked", "fresh"} => hook[h].rec \in Records
  BY DEF WorkerInv, TypeInv, TypeOK, Payloads
<1>2. hpc' = hpc /\ hook' = hook /\ lock' = lock /\ hist' = hist
  BY DEF Apart, hooks
<1>3. HookInv'
  BY SMT, <1>1, <1>2 DEF WorkerInv, HookInv, Apart, SameRows
<1>4. IssuedInv' /\ EventRecordedOnce'
  BY DEF WorkerInv, IssuedInv, EventRecordedOnce, Apart, SameRows
<1> QED  BY <1>3, <1>4

(* The types the steps of a worker that end its job write.                 *)
LEMMA EndingTypes ==
    ASSUME TypeInv, NEW w \in Workers,
           \/ MarkSent(w) \/ MarkFailed(w) \/ MarkBouncedMissing(w) \/ SoftBounceRetry(w)
           \/ Blacklist(w) \/ GiveUp(w) \/ Crash(w)
    PROVE  TypeInv'
<1>1. Done(w) /\ UNCHANGED <<queue, hist, lock, hooks, issued, pushes, sends>>
  BY DEF MarkSent, MarkFailed, MarkBouncedMissing, SoftBounceRetry, MarkBounced, Blacklist,
         GiveUp, Crash, db, history
<1>2. /\ pc' \in [Workers -> WorkerPC] /\ job' \in [Workers -> Jobs \cup {<<>>}]
      /\ extId' \in [Workers -> Nat] /\ \A v \in Workers : pc'[v] # Idle => job'[v] \in Jobs
  BY <1>1, DoneTypes
<1>3. status' \in [Records -> Statuses]
  BY WorkerApart DEF WorkerStep
<1>4. ext' \in [Records -> Nat]
  BY DEF MarkSent, MarkFailed, MarkBouncedMissing, SoftBounceRetry, MarkBounced, Blacklist,
         GiveUp, Crash, db, TypeInv, TypeOK
<1>5. pc[w] # Idle => job[w] \in Jobs /\ Mine(w) \in Records /\ To[Mine(w)] \in Addresses
  BY JobFacts DEF TypeInv, TypeOK, Mine
<1>6. timers' \in [Workers -> [Jobs -> Nat]]
  <2>1. CASE SoftBounceRetry(w)
    <3>1. job[w] \in Jobs
      BY <1>5, <2>1 DEF SoftBounceRetry, Idle
    <3>2. Retry(job[w]) \in Jobs
      BY <2>1, <3>1, JobFacts DEF SoftBounceRetry
    <3> QED  BY SMT, <2>1, <3>2 DEF SoftBounceRetry, TypeInv, TypeOK
  <2>2. CASE Crash(w)
    BY <2>2 DEF Crash, TypeInv, TypeOK
  <2>3. CASE UNCHANGED timers
    BY <2>3 DEF TypeInv, TypeOK
  <2> QED  BY <2>1, <2>2, <2>3 DEF MarkSent, MarkFailed, MarkBouncedMissing, Blacklist, GiveUp
<1>7. blacklist' \subseteq Addresses
  <2>1. CASE Blacklist(w)
    BY <1>5, <2>1 DEF Blacklist, Idle, TypeInv, TypeOK
  <2>2. CASE UNCHANGED blacklist
    BY <2>2 DEF TypeInv, TypeOK
  <2> QED  BY <2>1, <2>2 DEF MarkSent, MarkFailed, MarkBouncedMissing, SoftBounceRetry, MarkBounced,
                             GiveUp, Crash, db
<1>8. lost' \subseteq Records
  <2>1. CASE GiveUp(w)
    BY <1>5, <2>1 DEF GiveUp, TypeInv, TypeOK
  <2>2. CASE Crash(w)
    BY <2>2 DEF Crash, TypeInv, TypeOK
  <2>3. CASE UNCHANGED lost
    BY <2>3 DEF TypeInv, TypeOK
  <2> QED  BY <2>1, <2>2, <2>3 DEF MarkSent, MarkFailed, MarkBouncedMissing, SoftBounceRetry,
                                   MarkBounced, Blacklist, history
<1> QED  BY <1>1, <1>2, <1>3, <1>4, <1>6, <1>7, <1>8 DEF TypeInv, TypeOK, hooks, sends

(* The types the other steps of a worker write.                            *)
LEMMA WorkingTypes ==
    ASSUME TypeInv, NEW w \in Workers,
           \/ Dequeue(w) \/ HandleJob(w) \/ (\E o \in Outcomes : Send(w, o))
           \/ HardBounce(w) \/ SoftBounceExceeded(w) \/ \E j \in Jobs : RetryFires(w, j)
    PROVE  TypeInv'
<1>0. Idle \notin {"taken", "checked", "hard", "soft"}
  BY DEF Idle
<1>1. CASE Dequeue(w)
  <2>1. Head(queue) \in Jobs /\ queue' \in Seq(Jobs)
    BY SMT, <1>1 DEF Dequeue, Pop, TypeInv, TypeOK
  <2>2. /\ pc' \in [Workers -> WorkerPC] /\ job' \in [Workers -> Jobs \cup {<<>>}]
        /\ \A v \in Workers : pc'[v] # Idle => job'[v] \in Jobs
    BY <1>1, <2>1 DEF Dequeue, Pop, Goto, WorkerPC, TypeInv, TypeOK
  <2> QED  BY <1>1, <2>1, <2>2 DEF Dequeue, db, hooks, history, sends, TypeInv, TypeOK
<1>2. CASE HandleJob(w)
  <2>1. pc[w] # Idle /\ UNCHANGED job /\ \E l \in WorkerPC : Goto(w, l)
    BY <1>0, <1>2 DEF HandleJob, WorkerPC
  <2>2. pc' \in [Workers -> WorkerPC] /\ \A v \in Workers : pc'[v] # Idle => job'[v] \in Jobs
    BY <2>1, GotoTypes
  <2> QED  BY <1>2, <2>2 DEF HandleJob, db, hooks, history, sends, TypeInv, TypeOK
<1>3. ASSUME NEW o \in Outcomes, Send(w, o) PROVE TypeInv'
  <2>1. pc[w] # Idle /\ UNCHANGED job /\ o \in WorkerPC /\ Goto(w, o)
    BY <1>0, <1>3 DEF Send, Outcomes, Classes, WorkerPC
  <2>2. pc' \in [Workers -> WorkerPC] /\ \A v \in Workers : pc'[v] # Idle => job'[v] \in Jobs
    BY <2>1, GotoTypes
  <2>3. Mine(w) \in Records /\ To[Mine(w)] \in Addresses
    BY <2>1, JobFacts DEF TypeInv, TypeOK, Mine
  <2>4. attempts' \in [Records -> Nat] /\ accepted' \in [Records -> Nat] /\ extId' \in [Workers -> Nat]
    <3>1. /\ attempts \in [Records -> Nat] /\ accepted \in [Records -> Nat] /\ extId \in [Workers -> Nat]
          /\ attempts[Mine(w)] + 1 \in Nat /\ accepted[Mine(w)] + 1 \in Nat
      BY SMT, <2>3 DEF TypeInv, TypeOK
    <3>2. attempts' = [attempts EXCEPT ![Mine(w)] = attempts[Mine(w)] + 1]
      BY <1>3 DEF Send
    <3>3. \/ /\ accepted' = [accepted EXCEPT ![Mine(w)] = accepted[Mine(w)] + 1]
             /\ extId' = [extId EXCEPT ![w] = accepted[Mine(w)] + 1]
          \/ accepted' = accepted /\ extId' = extId
      BY <1>3 DEF Send
    <3> QED  BY <3>1, <3>2, <3>3
  <2>5. late' \in [Addresses -> Nat]
    <3>1. late[To[Mine(w)]] + (IF IsBlacklisted(To[Mine(w)]) THEN 1 ELSE 0) \in Nat
      BY SMT, <2>3 DEF TypeInv, TypeOK
    <3> QED  BY <1>3, <2>3, <3>1 DEF Send, TypeInv, TypeOK
  <2>6. refused' \subseteq Addresses
    BY <1>3, <2>3 DEF Send, TypeInv, TypeOK
  <2> QED  BY <1>3, <2>2, <2>4, <2>5, <2>6 DEF Send, db, hooks, TypeInv, TypeOK
<1>4. CASE HardBounce(w) \/ SoftBounceExceeded(w)
  <2>1. /\ pc[w] # Idle /\ UNCHANGED job /\ \E l \in WorkerPC : Goto(w, l)
        /\ UNCHANGED <<queue, timers, extId, ext, hist, lock, blacklist, hooks, history>>
    BY <1>0, <1>4 DEF HardBounce, SoftBounceExceeded, MarkBounced, WorkerPC
  <2>2. pc' \in [Workers -> WorkerPC] /\ \A v \in Workers : pc'[v] # Idle => job'[v] \in Jobs
    BY <2>1, GotoTypes
  <2>3. status' \in [Records -> Statuses]
    BY <1>4, WorkerApart DEF WorkerStep
  <2> QED  BY <2>1, <2>2, <2>3 DEF hooks, history, sends, TypeInv, TypeOK
<1>5. ASSUME NEW j \in Jobs, RetryFires(w, j) PROVE TypeInv'
  <2>1. timers' \in [Workers -> [Jobs -> Nat]]
    <3>1. timers[w][j] \in Nat /\ timers[w][j] > 0
      BY SMT, <1>5 DEF RetryFires, TypeInv, TypeOK
    <3>2. timers[w][j] - 1 \in Nat
      BY SMT, <3>1
    <3>3. timers' = [timers EXCEPT ![w][j] = timers[w][j] - 1]
      BY <1>5 DEF RetryFires
    <3>4. timers \in [Workers -> [Jobs -> Nat]]
      BY DEF TypeInv, TypeOK
    <3> QED  BY <3>2, <3>3, <3>4
  <2>2. queue' \in Seq(Jobs)
    <3>1. queue \in Seq(Jobs) /\ (queue' = Append(queue, j) \/ queue' = queue)
      BY <1>5 DEF RetryFires, TypeInv, TypeOK
    <3> QED  BY SMT, <3>1
  <2>3. lost' \subseteq Records
    <3>1. j.rec \in Records /\ lost \subseteq Records /\ (lost' = lost \/ lost' = lost \cup {j.rec})
      BY <1>5, JobFacts DEF RetryFires, TypeInv, TypeOK
    <3> QED  BY <3>1
  <2> QED  BY <1>5, <2>1, <2>2, <2>3 DEF RetryFires, db, hooks, sends, TypeInv, TypeOK
<1> QED  BY <1>1, <1>2, <1>3, <1>4, <1>5

(* A job more of a record that was issued.                                 *)
LEMMA PushStep ==
    ASSUME WorkerInv, NEW j \in Jobs, j.rec \in issued, PushJob(j)
    PROVE  TypeInv' /\ HookInv' /\ IssuedInv' /\ EventRecordedOnce'
<1>0. j.rec \in Records
  BY JobFacts
<1>1. queue' \in Seq(Jobs) /\ pushes' \in [Records -> Nat]
  <2>1. queue \in Seq(Jobs) /\ queue' = Append(queue, j)
    BY DEF PushJob, WorkerInv, TypeInv, TypeOK
  <2>2. pushes \in [Records -> Nat] /\ pushes' = [pushes EXCEPT ![j.rec] = @ + 1]
    BY DEF PushJob, WorkerInv, TypeInv, TypeOK
  <2>3. queue' \in Seq(Jobs)
    BY SMT, <2>1
  <2>4. pushes[j.rec] + 1 \in Nat
    BY SMT, <1>0, <2>2
  <2>5. pushes' \in [Records -> Nat]
    BY <2>2, <2>4
  <2> QED  BY <2>3, <2>5
<1>2. TypeInv'
  BY <1>1 DEF PushJob, db, hooks, sends, WorkerInv, TypeInv, TypeOK
<1>3. HookInv' /\ EventRecordedOnce'
  <2>1. UNCHANGED <<status, hist, lock, hpc, hook>>
    BY DEF PushJob, db, hooks
  <2> QED  BY <2>1 DEF WorkerInv, HookInv, EventRecordedOnce
<1>4. IssuedInv'
  <2>1. /\ pushes \in [Records -> Nat] /\ pushes' = [pushes EXCEPT ![j.rec] = @ + 1]
        /\ UNCHANGED <<status, issued>>
    BY DEF PushJob, db, WorkerInv, TypeInv, TypeOK
  <2>2. \A m \in Records : m # j.rec => pushes'[m] = pushes[m]
    BY <2>1
  <2> QED  BY <2>1, <2>2 DEF WorkerInv, IssuedInv
<1> QED  BY <1>2, <1>3, <1>4

(* The records of auth-api.                                                *)
LEMMA OutboxSteps ==
    ASSUME WorkerInv, NEW m \in Records, Issue(m) \/ Push(m) \/ Withdraw(m)
    PROVE  TypeInv' /\ HookInv' /\ IssuedInv' /\ EventRecordedOnce'
<1>1. CASE Issue(m)
  <2>1. TypeInv'
    BY <1>1 DEF Issue, worker, hooks, sends, WorkerInv, TypeInv, TypeOK, Statuses
  <2>2. HookInv' /\ IssuedInv' /\ EventRecordedOnce'
    BY SMT, <1>1 DEF Issue, hooks, WorkerInv, TypeInv, TypeOK, Payloads, HookInv, IssuedInv, EventRecordedOnce
  <2> QED  BY <2>1, <2>2
<1>2. CASE Push(m)
  <2>1. [rec |-> m, retry |-> 0] \in Jobs /\ [rec |-> m, retry |-> 0].rec = m
    BY JobFacts
  <2> QED  BY <1>2, <2>1, PushStep DEF Push
<1>3. CASE Withdraw(m)
  <2>1. TypeInv'
    BY <1>3 DEF Withdraw, worker, hooks, history, sends, WorkerInv, TypeInv, TypeOK, Statuses
  <2>2. \A h \in Hooks : hpc[h] \in {"locked", "fresh"} => hook[h].rec \in Records \ {m}
    BY SMT, <1>3, WorkerAssumption
    DEF WorkerAssumption, Withdraw, WorkerInv, TypeInv, TypeOK, Payloads, HookInv
  <2>3. HookInv'
    BY SMT, <1>3, <2>2 DEF Withdraw, hooks, WorkerInv, TypeInv, TypeOK, HookInv
  <2>4. IssuedInv' /\ EventRecordedOnce'
    BY SMT, <1>3 DEF Withdraw, history, WorkerInv, TypeInv, TypeOK, IssuedInv, EventRecordedOnce
  <2> QED  BY <2>1, <2>3, <2>4
<1> QED  BY <1>1, <1>2, <1>3

(* A webhook locks the row it looks up.                                    *)
LEMMA LookupStep ==
    ASSUME WorkerInv, NEW h \in Hooks, NEW p \in Payloads, HookLookup(h, p)
    PROVE  TypeInv' /\ HookInv' /\ IssuedInv' /\ EventRecordedOnce' /\ SameRows
<1>1. p.rec \in Records
  BY DEF Payloads
<1>2. UNCHANGED <<worker, status, ext, hist, blacklist, history>>
  BY DEF HookLookup
<1>3. /\ hpc' \in [Hooks -> HookPC] /\ lock' \in [Records -> Hooks \cup {NoHook}]
      /\ hook' \in [Hooks -> Payloads \cup {<<>>}]
      /\ \A g \in Hooks : hpc'[g] \in {"locked", "fresh"} => hook'[g] \in Payloads
  <2>1. /\ hpc \in [Hooks -> HookPC] /\ lock \in [Records -> Hooks \cup {NoHook}]
        /\ hook \in [Hooks -> Payloads \cup {<<>>}]
        /\ \A g \in Hooks : hpc[g] \in {"locked", "fresh"} => hook[g] \in Payloads
    BY DEF WorkerInv, TypeInv, TypeOK
  <2>2. CASE hpc' = [hpc EXCEPT ![h] = "done"] /\ UNCHANGED <<lock, hook>>
    BY <2>1, <2>2 DEF HookPC
  <2>3. CASE /\ lock' = [lock EXCEPT ![p.rec] = h] /\ hook' = [hook EXCEPT ![h] = p]
             /\ hpc' = [hpc EXCEPT ![h] = "locked"]
    BY <1>1, <2>1, <2>3 DEF HookPC
  <2> QED  BY <2>2, <2>3 DEF HookLookup
<1>4. TypeInv'
  BY <1>2, <1>3 DEF worker, history, sends, WorkerInv, TypeInv, TypeOK
<1>5. IssuedInv' /\ EventRecordedOnce' /\ SameRows
  BY <1>2 DEF history, WorkerInv, IssuedInv, EventRecordedOnce, SameRows
<1>6. HookInv'
  <2> SUFFICES ASSUME NEW g \in Hooks, hpc'[g] \in {"locked", "fresh"}
               PROVE  /\ lock'[hook'[g].rec] = g
                      /\ status'[hook'[g].rec] # "absent"
                      /\ hpc'[g] = "fresh" => \A x \in hist'[hook'[g].rec] :
                            x[2] # hook'[g].event \/ x[3] # hook'[g].status
    BY DEF HookInv
  <2>1. CASE g = h
    BY SMT, <1>1, <1>2, <2>1 DEF HookLookup, WorkerInv, TypeInv, TypeOK
  <2>2. CASE g # h
    <3>1. hpc'[g] = hpc[g] /\ hook'[g] = hook[g]
      BY <2>2 DEF HookLookup, WorkerInv, TypeInv, TypeOK
    <3>2. /\ lock[hook[g].rec] = g /\ status[hook[g].rec] # "absent" /\ hook[g].rec \in Records
          /\ hpc[g] = "fresh" => \A x \in hist[hook[g].rec] :
                x[2] # hook[g].event \/ x[3] # hook[g].status
      BY <3>1 DEF WorkerInv, HookInv, TypeInv, TypeOK, Payloads
    <3>3. lock'[hook[g].rec] = g
      BY <1>1, <2>2, <3>2, WorkerAssumption DEF WorkerAssumption, HookLookup, WorkerInv, TypeInv, TypeOK
    <3> QED  BY <1>2, <3>1, <3>2, <3>3
  <2> QED  BY <2>1, <2>2
<1> QED  BY <1>4, <1>5, <1>6

(* Ending a webhook transaction frees no row but its own.                  *)
LEMMA OthersHold ==
    ASSUME WorkerInv, NEW h \in Hooks, hpc[h] \in {"locked", "fresh"}, HookEnd(h)
    PROVE  /\ hpc' \in [Hooks -> HookPC] /\ lock' \in [Records -> Hooks \cup {NoHook}]
           /\ hook' = hook /\ hook[h] \in Payloads /\ hook[h].rec \in Records
           /\ \A g \in Hooks : hpc'[g] \in {"locked", "fresh"} =>
                 /\ g # h /\ hpc'[g] = hpc[g] /\ hook[g] \in Payloads
                 /\ hook[g].rec \in Records \ {hook[h].rec} /\ lock'[hook[g].rec] = g
<1>1. hook[h] \in Payloads /\ hook[h].rec \in Records /\ lock[hook[h].rec] = h
  BY DEF WorkerInv, TypeInv, TypeOK, HookInv, Payloads
<1>2. hpc' \in [Hooks -> HookPC] /\ lock' \in [Records -> Hooks \cup {NoHook}] /\ hook' = hook
  BY DEF HookEnd, HookPC, WorkerInv, TypeInv, TypeOK
<1>3. ASSUME NEW g \in Hooks, hpc'[g] \in {"locked", "fresh"}
      PROVE  /\ g # h /\ hpc'[g] = hpc[g] /\ hook[g] \in Payloads
             /\ hook[g].rec \in Records \ {hook[h].rec} /\ lock'[hook[g].rec] = g
  <2>1. g # h /\ hpc'[g] = hpc[g]
    BY <1>3 DEF HookEnd, WorkerInv, TypeInv, TypeOK
  <2>2. hook[g] \in Payloads /\ hook[g].rec \in Records /\ lock[hook[g].rec] = g
    BY <1>3, <2>1 DEF WorkerInv, TypeInv, TypeOK, HookInv, Payloads
  <2>3. hook[g].rec # hook[h].rec
    BY <1>1, <2>1, <2>2
  <2> QED  BY <2>1, <2>2, <2>3 DEF HookEnd, WorkerInv, TypeInv, TypeOK
<1> QED  BY <1>1, <1>2, <1>3

(* A webhook that ends without writing, or goes on, leaves rows alone; one *)
(* that writes adds the event it found missing to a row that exists.       *)
LEMMA HookSteps ==
    ASSUME WorkerInv, NEW h \in Hooks, HookCheck(h) \/ HookApply(h) \/ HookFails(h)
    PROVE  TypeInv' /\ HookInv' /\ IssuedInv' /\ EventRecordedOnce' /\ SameRows
<1>0. UNCHANGED <<worker, ext, blacklist, history>> /\ hpc[h] \in {"locked", "fresh"}
  BY DEF HookCheck, HookApply, HookFails
<1>1. CASE HookEnd(h) /\ UNCHANGED <<status, hist>>
  <2>0. /\ hpc' \in [Hooks -> HookPC] /\ lock' \in [Records -> Hooks \cup {NoHook}] /\ hook' = hook
        /\ \A g \in Hooks : hpc'[g] \in {"locked", "fresh"} =>
              hpc'[g] = hpc[g] /\ lock'[hook[g].rec] = g
    BY <1>0, <1>1, OthersHold
  <2>1. TypeInv'
    BY SMT, <1>0, <1>1, <2>0 DEF worker, history, sends, WorkerInv, TypeInv, TypeOK
  <2>2. HookInv'
    BY SMT, <1>1, <2>0 DEF WorkerInv, HookInv
  <2>3. IssuedInv' /\ EventRecordedOnce' /\ SameRows
    BY <1>0, <1>1 DEF history, WorkerInv, IssuedInv, EventRecordedOnce, SameRows
  <2> QED  BY <2>1, <2>2, <2>3
<1>2. CASE /\ \A x \in hist[hook[h].rec] : x[2] # hook[h].event \/ x[3] # hook[h].status
           /\ hpc' = [hpc EXCEPT ![h] = "fresh"]
           /\ UNCHANGED <<lock, hook, status, hist>>
  <2>1. hpc' \in [Hooks -> HookPC] /\ \A g \in Hooks \ {h} : hpc'[g] = hpc[g]
    BY <1>2 DEF HookPC, WorkerInv, TypeInv, TypeOK
  <2>2. TypeInv'
    BY <1>0, <1>2, <2>1 DEF worker, history, sends, WorkerInv, TypeInv, TypeOK
  <2>3. HookInv'
    BY SMT, <1>0, <1>2, <2>1 DEF WorkerInv, HookInv
  <2>4. IssuedInv' /\ EventRecordedOnce' /\ SameRows
    BY <1>0, <1>2 DEF history, WorkerInv, IssuedInv, EventRecordedOnce, SameRows
  <2> QED  BY <2>2, <2>3, <2>4
<1>3. CASE HookApply(h)
  <2> DEFINE m == hook[h].rec
             row == <<h, hook[h].event, hook[h].status>>
  <2>1. HookEnd(h) /\ hpc[h] = "fresh"
    BY <1>3 DEF HookApply
  <2>2. hook[h] \in Payloads /\ m \in Records
    BY <1>0, <2>1, OthersHold
  <2>3. hook[h].event \in Events /\ hook[h].status \in Statuses \ {"absent"}
    BY <2>2, WorkerAssumption DEF WorkerAssumption, Payloads, Statuses
  <2>4. /\ status' = [status EXCEPT ![m] = hook[h].status]
        /\ hist' = [hist EXCEPT ![m] = hist[m] \cup {row}]
    BY <1>3 DEF HookApply
  <2>5. /\ status[m] # "absent"
        /\ \A x \in hist[m] : x[2] # row[2] \/ x[3] # row[3]
    BY <1>0, <2>1 DEF WorkerInv, HookInv
  <2>6. row \in Hooks \X Events \X Statuses
    BY <2>3
  <2>7. status \in [Records -> Statuses] /\ hist \in [Records -> SUBSET (Hooks \X Events \X Statuses)]
    BY DEF WorkerInv, TypeInv, TypeOK
  <2> HIDE DEF m, row
  <2>8. /\ status' \in [Records -> Statuses] /\ hist' \in [Records -> SUBSET (Hooks \X Events \X Statuses)]
        /\ SameRows
        /\ \A k \in Records \ {m} : status'[k] = status[k] /\ hist'[k] = hist[k]
    BY <2>2, <2>3, <2>4, <2>5, <2>6, <2>7 DEF SameRows
  <2>0. /\ hpc' \in [Hooks -> HookPC] /\ lock' \in [Records -> Hooks \cup {NoHook}] /\ hook' = hook
        /\ \A g \in Hooks : hpc'[g] \in {"locked", "fresh"} =>
              hpc'[g] = hpc[g] /\ hook[g].rec \in Records \ {m} /\ lock'[hook[g].rec] = g
    BY <1>0, <2>1, OthersHold DEF m
  <2>9. TypeInv'
    BY SMT, <1>0, <2>0, <2>8 DEF worker, history, sends, WorkerInv, TypeInv, TypeOK
  <2>10. HookInv'
    BY SMT, <2>0, <2>8 DEF WorkerInv, HookInv
  <2>11. EventRecordedOnce'
    BY SMT, <2>2, <2>4, <2>5, <2>7 DEF WorkerInv, EventRecordedOnce
  <2>12. IssuedInv'
    BY <1>0, <2>8 DEF history, WorkerInv, IssuedInv, SameRows
  <2> QED  BY <2>8, <2>9, <2>10, <2>11, <2>12
<1> QED  BY <1>1, <1>2, <1>3 DEF HookCheck, HookFails

(* The workers about to send to an address are finitely many.              *)
LEMMA CheckedSize ==
    ASSUME NEW S \in SUBSET Workers, NEW w \in Workers
    PROVE  /\ Cardinality(S) \in Nat /\ Cardinality(Workers) \in Nat
           /\ w \notin S => Cardinality(S) <= Cardinality(Workers) - 1
           /\ w \in S => Cardinality(S \ {w}) = Cardinality(S) - 1
<1>1. IsFiniteSet(Workers)
  BY WorkerAssumption DEF WorkerAssumption
<1>2. IsFiniteSet(S) /\ Cardinality(S) \in Nat /\ Cardinality(Workers) \in Nat
  BY <1>1, FS_Subset, FS_CardinalityType
<1>3. ASSUME w \notin S PROVE Cardinality(S) <= Cardinality(Workers) - 1
  <2>1. IsFiniteSet(Workers \ {w}) /\ Cardinality(Workers \ {w}) = Cardinality(Workers) - 1
    BY <1>1, FS_RemoveElement
  <2>2. S \in SUBSET (Workers \ {w})
    BY <1>3
  <2>3. Cardinality(S) <= Cardinality(Workers \ {w})
    BY <2>1, <2>2, FS_Subset
  <2> QED  BY <1>2, <2>1, <2>3
<1>4. w \in S => Cardinality(S \ {w}) = Cardinality(S) - 1
  BY <1>2, FS_RemoveElement
<1> QED  BY <1>2, <1>3, <1>4

(* One worker steps: it passes the check of no blacklisted address, sends  *)
(* late only after it had passed the check, and does neither when it adds  *)
(* to the blacklist.                                                       *)
LEMMA LateKept ==
    ASSUME WorkerInv, TypeInv', NEW w \in Workers,
           \A v \in Workers \ {w} : pc'[v] = pc[v] /\ job'[v] = job[v],
           \A a \in Addresses :
              \/ /\ (a \in blacklist' <=> a \in blacklist) /\ late'[a] = late[a]
                 /\ a \in blacklist => w \notin Checked(a)' \/ w \in Checked(a)
              \/ /\ a \in blacklist /\ a \in blacklist' /\ late'[a] = late[a] + 1
                 /\ w \in Checked(a) /\ w \notin Checked(a)'
              \/ a \in blacklist' /\ late'[a] = late[a] /\ w \notin Checked(a)'
    PROVE  LateInv'
<1> SUFFICES ASSUME NEW a \in Addresses
             PROVE  /\ a \notin blacklist' => late'[a] = 0
                    /\ a \in blacklist' => late'[a] + Cardinality(Checked(a)') <= Cardinality(Workers) - 1
  BY DEF LateInv
<1> DEFINE C == Checked(a)
           D == Checked(a)'
<1>1. C \in SUBSET Workers /\ D \in SUBSET Workers
  BY DEF Checked
<1>2. \A v \in Workers \ {w} : v \in D <=> v \in C
  BY DEF Checked, Mine
<1>3. late[a] \in Nat /\ late'[a] \in Nat
  BY DEF WorkerInv, TypeInv, TypeOK
<1>4. /\ a \notin blacklist => late[a] = 0
      /\ a \in blacklist => late[a] + Cardinality(C) <= Cardinality(Workers) - 1
  BY DEF WorkerInv, LateInv
<1>5. \/ /\ (a \in blacklist' <=> a \in blacklist) /\ late'[a] = late[a]
         /\ a \in blacklist => w \notin D \/ w \in C
      \/ a \in blacklist /\ a \in blacklist' /\ late'[a] = late[a] + 1 /\ w \in C /\ w \notin D
      \/ a \in blacklist' /\ late'[a] = late[a] /\ w \notin D
  OBVIOUS
<1> HIDE DEF C, D
<1>6. /\ Cardinality(C) \in Nat /\ Cardinality(D) \in Nat /\ Cardinality(Workers) \in Nat
      /\ w \notin D => Cardinality(D) <= Cardinality(Workers) - 1
  BY <1>1, CheckedSize
<1>7. w \in C /\ w \notin D => Cardinality(D) = Cardinality(C) - 1
  <2> HAVE w \in C /\ w \notin D
  <2>1. D = C \ {w}
    BY <1>1, <1>2
  <2> QED  BY <1>1, <2>1, CheckedSize
<1>8. (w \in C <=> w \in D) => Cardinality(D) = Cardinality(C)
  <2> HAVE w \in C <=> w \in D
  <2>1. \A v \in Workers : v \in D <=> v \in C
    BY <1>2
  <2>2. D = C
    BY <1>1, <2>1
  <2> QED  BY <2>2
<1>9. /\ a \notin blacklist' => late'[a] = 0
      /\ a \in blacklist' => late'[a] + Cardinality(D) <= Cardinality(Workers) - 1
  BY SMT, <1>3, <1>4, <1>5, <1>6, <1>7, <1>8
<1> QED  BY <1>9 DEF D

(* A step of a worker keeps the bound on late sends.                       *)
LEMMA LateSteps ==
    ASSUME WorkerInv, TypeInv', NEW w \in Workers,
           WorkerStep(w) \/ (\E j \in Jobs : RetryFires(w, j)) \/ GiveUp(w) \/ Crash(w)
    PROVE  LateInv'
<1>0. pc \in [Workers -> WorkerPC] /\ job \in [Workers -> Jobs \cup {<<>>}] /\ late \in [Addresses -> Nat]
  BY DEF WorkerInv, TypeInv, TypeOK
<1>1. ASSUME Done(w), UNCHANGED <<blacklist, late>> PROVE LateInv'
  <2>1. pc'[w] # "checked" /\ \A v \in Workers \ {w} : pc'[v] = pc[v] /\ job'[v] = job[v]
    BY <1>0, <1>1 DEF Done, Goto, Idle
  <2>2. \A a \in Addresses : w \notin Checked(a)'
    BY <2>1 DEF Checked
  <2> QED  BY <1>1, <2>1, <2>2, LateKept
<1>2. ASSUME NEW l \in WorkerPC \ {"checked"}, Goto(w, l), UNCHANGED <<blacklist, late>>,
             \A v \in Workers \ {w} : job'[v] = job[v]
      PROVE  LateInv'
  <2>1. pc'[w] # "checked" /\ \A v \in Workers \ {w} : pc'[v] = pc[v]
    BY <1>0, <1>2 DEF Goto
  <2>2. \A a \in Addresses : w \notin Checked(a)'
    BY <2>1 DEF Checked
  <2> QED  BY <1>2, <2>1, <2>2, LateKept
<1>3. CASE HandleJob(w)
  <2>1. /\ \A v \in Workers \ {w} : pc'[v] = pc[v] /\ job'[v] = job[v]
        /\ pc'[w] = "checked" => To[Mine(w)] \notin blacklist
        /\ job' = job /\ blacklist' = blacklist /\ late' = late
    BY <1>0, <1>3 DEF HandleJob, Goto, IsBlacklisted, db, history, sends
  <2>2. \A a \in Addresses : a \in blacklist => w \notin Checked(a)'
    BY <2>1 DEF Checked, Mine
  <2> QED  BY <2>1, <2>2, LateKept
<1>4. ASSUME NEW o \in Outcomes, Send(w, o) PROVE LateInv'
  <2>1. /\ \A v \in Workers \ {w} : pc'[v] = pc[v] /\ job'[v] = job[v]
        /\ pc[w] = "checked" /\ pc'[w] # "checked" /\ blacklist' = blacklist
    BY <1>0, <1>4 DEF Send, Goto, Outcomes, Classes, db
  <2>2. \A a \in Addresses : w \notin Checked(a)'
    BY <2>1 DEF Checked
  <2>3. ASSUME NEW a \in Addresses
        PROVE  \/ late'[a] = late[a]
               \/ a \in blacklist /\ late'[a] = late[a] + 1 /\ w \in Checked(a)
    <3>1. late' = [late EXCEPT ![To[Mine(w)]] = late[To[Mine(w)]] + (IF To[Mine(w)] \in blacklist THEN 1 ELSE 0)]
      BY <1>4 DEF Send, IsBlacklisted
    <3>2. CASE a = To[Mine(w)]
      BY SMT, <1>0, <2>1, <3>1, <3>2 DEF Checked
    <3>3. CASE a # To[Mine(w)]
      BY <1>0, <3>1, <3>3
    <3> QED  BY <3>2, <3>3
  <2> QED  BY <2>1, <2>2, <2>3, LateKept
<1>5. CASE Blacklist(w)
  <2>1. /\ pc'[w] # "checked" /\ \A v \in Workers \ {w} : pc'[v] = pc[v] /\ job'[v] = job[v]
        /\ late' = late /\ blacklist \subseteq blacklist'
    BY <1>0, <1>5 DEF Blacklist, Done, Goto, Idle, history, sends
  <2>2. \A a \in Addresses : w \notin Checked(a)'
    BY <2>1 DEF Checked
  <2> QED  BY <2>1, <2>2, LateKept
<1>6. CASE Dequeue(w)
  <2>1. "taken" \in WorkerPC \ {"checked"} /\ Goto(w, "taken") /\ UNCHANGED <<blacklist, late>>
    BY <1>6 DEF Dequeue, WorkerPC, db, history, sends
  <2>2. \A v \in Workers \ {w} : job'[v] = job[v]
    BY <1>0, <1>6 DEF Dequeue, Pop
  <2> QED  BY <1>2, <2>1, <2>2
<1>7. CASE HardBounce(w) \/ SoftBounceExceeded(w)
  <2>1. /\ \E l \in WorkerPC \ {"checked"} : Goto(w, l)
        /\ UNCHANGED <<job, blacklist, late>>
    BY <1>7 DEF HardBounce, SoftBounceExceeded, MarkBounced, WorkerPC, history, sends
  <2> QED  BY <1>2, <2>1
<1>8. CASE MarkSent(w) \/ MarkFailed(w) \/ MarkBouncedMissing(w) \/ SoftBounceRetry(w)
           \/ GiveUp(w) \/ Crash(w)
  <2>1. Done(w) /\ UNCHANGED <<blacklist, late>>
    BY <1>8 DEF MarkSent, MarkFailed, MarkBouncedMissing, SoftBounceRetry, MarkBounced, GiveUp, Crash,
                db, history, sends
  <2> QED  BY <1>1, <2>1
<1>9. ASSUME NEW j \in Jobs, RetryFires(w, j) PROVE LateInv'
  <2>1. UNCHANGED <<pc, job, blacklist, late>>
    BY <1>9 DEF RetryFires, db, sends
  <2> QED  BY <2>1 DEF WorkerInv, LateInv, Checked, Mine
<1> QED  BY <1>3, <1>4, <1>5, <1>6, <1>7, <1>8, <1>9 DEF WorkerStep

(* Everyone else leaves workers and blacklist alone.                       *)
LEMMA OthersLate ==
    ASSUME LateInv, UNCHANGED <<pc, job, blacklist, late>>
    PROVE  LateInv'
BY DEF LateInv, Checked, Mine

(* What a webhook may report about a mail.                                 *)
LEMMA PayloadFacts ==
    ASSUME TypeInv, NEW m \in Records, NEW e \in Events, NEW s \in Reports, NEW k \in 1..accepted[m]
    PROVE  [rec |-> m, ext |-> k, event |-> e, status |-> s] \in Payloads
<1>1. k \in Nat
  BY SMT DEF TypeInv, TypeOK
<1> QED  BY <1>1 DEF Payloads

(* A step that takes no job up, arms no timer and pushes nothing.          *)
LEMMA JobsStay ==
    ASSUME WorkerInv, UNCHANGED <<queue, timers>>, issued \subseteq issued',
           \A v \in Workers : pc'[v] # Idle => pc[v] # Idle /\ job'[v] = job[v]
    PROVE  JobsIssued'
BY DEF WorkerInv, JobsIssued, Mine

(* The list with one more job of an issued record.                         *)
LEMMA JobAppended ==
    ASSUME WorkerInv, NEW j \in Jobs, j.rec \in issued, queue' = Append(queue, j), UNCHANGED issued
    PROVE  \A i \in DOMAIN queue' : queue'[i].rec \in issued'
<1>1. queue \in Seq(Jobs) /\ \A i \in DOMAIN queue : queue[i].rec \in issued
  BY DEF WorkerInv, TypeInv, TypeOK, JobsIssued
<1>2. \A i \in DOMAIN Append(queue, j) :
          (i \in DOMAIN queue /\ Append(queue, j)[i] = queue[i]) \/ Append(queue, j)[i] = j
  BY SMT, <1>1
<1> QED  BY <1>1, <1>2

(* Jobs move between list, hands and timers, and keep their record.        *)
LEMMA JobSteps ==
    ASSUME WorkerInv, NEW w \in Workers,
           \/ WorkerStep(w) \/ (\E j \in Jobs : RetryFires(w, j) \/ RetryRepeated(w, j))
           \/ GiveUp(w) \/ Crash(w)
    PROVE  JobsIssued'
<1>0. /\ queue \in Seq(Jobs) /\ timers \in [Workers -> [Jobs -> Nat]]
      /\ pc \in [Workers -> WorkerPC] /\ job \in [Workers -> Jobs \cup {<<>>}]
      /\ JobsIssued
  BY DEF WorkerInv, TypeInv, TypeOK
<1>1. ASSUME Done(w) PROVE \A v \in Workers : pc'[v] # Idle => pc[v] # Idle /\ job'[v] = job[v]
  BY <1>0, <1>1 DEF Done, Goto
<1>2. ASSUME NEW l, Goto(w, l), pc[w] # Idle, UNCHANGED job
      PROVE  \A v \in Workers : pc'[v] # Idle => pc[v] # Idle /\ job'[v] = job[v]
  BY <1>0, <1>2 DEF Goto
<1>3. CASE MarkSent(w) \/ MarkFailed(w) \/ MarkBouncedMissing(w) \/ Blacklist(w) \/ GiveUp(w)
  <2>1. Done(w) /\ UNCHANGED <<queue, timers, issued>>
    BY <1>3 DEF MarkSent, MarkFailed, MarkBouncedMissing, Blacklist, GiveUp, history
  <2> QED  BY <1>1, <2>1, JobsStay
<1>4. CASE HandleJob(w) \/ HardBounce(w) \/ SoftBounceExceeded(w) \/ \E o \in Outcomes : Send(w, o)
  <2>1. /\ \E l : Goto(w, l)
        /\ pc[w] # Idle /\ UNCHANGED <<job, queue, timers, issued>>
    BY <1>4 DEF HandleJob, HardBounce, SoftBounceExceeded, MarkBounced, Send, history, Idle
  <2> QED  BY <1>2, <2>1, JobsStay
<1>5. CASE Dequeue(w)
  <2>1. /\ queue # <<>> /\ queue' = Tail(queue) /\ job' = [job EXCEPT ![w] = Head(queue)]
        /\ pc' = [pc EXCEPT ![w] = "taken"] /\ UNCHANGED <<timers, issued>>
    BY <1>5 DEF Dequeue, Pop, Goto, history
  <2>2. /\ 1 \in DOMAIN queue /\ Head(queue) = queue[1]
        /\ \A i \in DOMAIN Tail(queue) : i + 1 \in DOMAIN queue /\ Tail(queue)[i] = queue[i + 1]
    BY SMT, <1>0, <2>1
  <2>3. \A i \in DOMAIN queue' : queue'[i].rec \in issued'
    BY <1>0, <2>1, <2>2 DEF JobsIssued
  <2>4. ASSUME NEW v \in Workers, pc'[v] # Idle PROVE job'[v].rec \in issued'
    <3>1. CASE v = w
      BY <1>0, <2>1, <2>2, <3>1 DEF JobsIssued
    <3>2. CASE v # w
      BY <1>0, <2>1, <2>4, <3>2 DEF JobsIssued, Mine
    <3> QED  BY <3>1, <3>2
  <2> QED  BY <1>0, <2>1, <2>3, <2>4 DEF JobsIssued, Mine
<1>6. CASE SoftBounceRetry(w)
  <2>1. /\ timers' = [timers EXCEPT ![w][Retry(job[w])] = @ + 1] /\ RetryLeft(job[w])
        /\ Done(w) /\ pc[w] # Idle /\ UNCHANGED <<queue, issued>>
    BY <1>6 DEF SoftBounceRetry, MarkBounced, history, Idle
  <2>2. job[w] \in Jobs /\ job[w].rec \in issued
    BY <1>0, <2>1 DEF WorkerInv, TypeInv, TypeOK, JobsIssued, Mine
  <2>3. Retry(job[w]) \in Jobs /\ Retry(job[w]).rec = job[w].rec
    <3>1. Retry(job[w]).rec = job[w].rec
      BY SMT, <2>2 DEF Retry, Jobs
    <3> QED  BY <2>1, <2>2, <3>1, JobFacts
  <2>4. \A v \in Workers, j \in Jobs : timers'[v][j] = timers[v][j] \/ j = Retry(job[w])
    BY <1>0, <2>1
  <2>5. \A v \in Workers, j \in Jobs : timers'[v][j] > 0 => j.rec \in issued'
    BY <1>0, <2>1, <2>2, <2>3, <2>4 DEF JobsIssued
  <2> QED  BY <1>0, <1>1, <2>1, <2>5 DEF JobsIssued, Mine
<1>7. ASSUME NEW j \in Jobs, RetryFires(w, j) PROVE JobsIssued'
  <2>1. /\ timers[w][j] > 0 /\ timers' = [timers EXCEPT ![w][j] = @ - 1]
        /\ queue' = Append(queue, j) \/ queue' = queue
        /\ UNCHANGED <<pc, job, issued>>
    BY <1>7 DEF RetryFires
  <2>2. j.rec \in issued
    BY <1>0, <2>1 DEF JobsIssued
  <2>3. \A v \in Workers, k \in Jobs : timers'[v][k] = timers[v][k] \/ k = j
    BY <1>0, <2>1
  <2>4. \A i \in DOMAIN queue' : queue'[i].rec \in issued'
    <3>1. CASE queue' = queue
      BY <1>0, <2>1, <3>1 DEF JobsIssued
    <3> QED  BY <2>1, <2>2, <3>1, JobAppended
  <2> QED  BY <1>0, <2>1, <2>2, <2>3, <2>4 DEF JobsIssued, Mine
<1>8. ASSUME NEW j \in Jobs, RetryRepeated(w, j) PROVE JobsIssued'
  <2>1. timers[w][j] > 0 /\ queue' = Append(queue, j) /\ UNCHANGED <<timers, pc, job, issued>>
    BY <1>8 DEF RetryRepeated, PushJob
  <2>2. \A i \in DOMAIN queue' : queue'[i].rec \in issued'
    BY <1>0, <2>1, JobAppended DEF JobsIssued
  <2> QED  BY <1>0, <2>1, <2>2 DEF JobsIssued, Mine
<1>9. CASE Crash(w)
  <2>1. timers' = [timers EXCEPT ![w] = [j \in Jobs |-> 0]] /\ Done(w) /\ UNCHANGED <<queue, issued>>
    BY <1>9 DEF Crash
  <2>2. \A v \in Workers, j \in Jobs : timers'[v][j] = timers[v][j] \/ timers'[v][j] = 0
    BY <1>0, <2>1
  <2>3. ~(0 > 0)
    BY SMT
  <2> QED  BY <1>0, <1>1, <2>1, <2>2, <2>3 DEF JobsIssued, Mine
<1> QED  BY <1>3, <1>4, <1>5, <1>6, <1>7, <1>8, <1>9 DEF WorkerStep

(* A retry that is pushed over again is of a record that was issued.       *)
LEMMA RepeatedStep ==
    ASSUME WorkerInv, NEW w \in Workers, NEW j \in Jobs, RetryRepeated(w, j)
    PROVE  WorkerInv'
<1>1. j.rec \in issued /\ PushJob(j)
  BY DEF RetryRepeated, WorkerInv, JobsIssued
<1>2. TypeInv' /\ HookInv' /\ IssuedInv' /\ EventRecordedOnce'
  BY <1>1, PushStep
<1>3. JobsIssued'
  BY JobSteps
<1>4. UNCHANGED <<pc, job, blacklist, late>>
  BY <1>1 DEF PushJob, db, sends
<1> QED  BY <1>2, <1>3, <1>4, OthersLate DEF WorkerInv

(* The invariant holds at the start and every step keeps it.               *)
THEOREM Invariance == Spec => []WorkerInv
<1>1. Init => WorkerInv
  <2> SUFFICES ASSUME Init PROVE WorkerInv
    OBVIOUS
  <2>1. TypeInv
    BY SMT, WorkerAssumption DEF WorkerAssumption, Init, TypeInv, TypeOK, WorkerPC, HookPC, Statuses, Idle
  <2>2. HookInv /\ IssuedInv /\ JobsIssued /\ EventRecordedOnce /\ LateInv
    BY SMT DEF Init, HookInv, IssuedInv, JobsIssued, EventRecordedOnce, LateInv, Idle
  <2> QED  BY <2>1, <2>2 DEF WorkerInv
<1>2. WorkerInv /\ [Next]_vars => WorkerInv'
  <2> SUFFICES ASSUME WorkerInv, [Next]_vars PROVE WorkerInv'
    OBVIOUS
  <2>0. TypeInv /\ LateInv
    BY DEF WorkerInv
  <2>1. CASE UNCHANGED vars
    <3>1. TypeInv' /\ Apart
      BY <2>0, <2>1 DEF vars, worker, db, hooks, history, sends, TypeInv, TypeOK, Apart, SameRows
    <3>2. LateInv'
      BY <2>0, <2>1, OthersLate DEF vars, worker, db, history, sends
    <3>3. JobsIssued'
      BY <2>1, JobsStay DEF vars, worker, history
    <3> QED  BY <3>1, <3>2, <3>3, ApartKeeps DEF WorkerInv
  <2>2. ASSUME NEW m \in Records, Issue(m) \/ Push(m) \/ Withdraw(m) PROVE WorkerInv'
    <3>1. UNCHANGED <<pc, job, blacklist, late>>
      BY <2>2 DEF Issue, Push, PushJob, Withdraw, worker, db, history, sends
    <3>2. JobsIssued'
      <4>1. CASE Issue(m) \/ Withdraw(m)
        BY <4>1, JobsStay DEF Issue, Withdraw, worker, history
      <4>2. CASE Push(m)
        <5>1. /\ [rec |-> m, retry |-> 0] \in Jobs /\ [rec |-> m, retry |-> 0].rec = m /\ m \in issued
              /\ queue' = Append(queue, [rec |-> m, retry |-> 0])
              /\ UNCHANGED <<timers, pc, job, issued>>
          BY <4>2, JobFacts DEF Push, PushJob
        <5>2. \A i \in DOMAIN queue' : queue'[i].rec \in issued'
          BY <5>1, JobAppended
        <5> QED  BY <5>1, <5>2 DEF WorkerInv, JobsIssued, Mine
      <4> QED  BY <2>2, <4>1, <4>2
    <3> QED  BY <2>0, <2>2, <3>1, <3>2, OutboxSteps, OthersLate DEF WorkerInv
  <2>3. ASSUME NEW w \in Workers,
               WorkerStep(w) \/ (\E j \in Jobs : RetryFires(w, j)) \/ GiveUp(w) \/ Crash(w)
        PROVE  WorkerInv'
    <3>1. TypeInv'
      BY <2>0, <2>3, EndingTypes, WorkingTypes DEF WorkerStep
    <3>2. Apart
      BY <2>0, <2>3, WorkerApart
    <3>3. LateInv'
      BY <2>3, <3>1, LateSteps
    <3>4. JobsIssued'
      BY <2>3, JobSteps
    <3> QED  BY <3>1, <3>2, <3>3, <3>4, ApartKeeps DEF WorkerInv
  <2>4. ASSUME NEW h \in Hooks, NEW p \in Payloads, HookLookup(h, p) PROVE WorkerInv'
    <3>1. UNCHANGED <<pc, job, blacklist, late>>
      BY <2>4 DEF HookLookup, worker, history, sends
    <3>2. JobsIssued'
      BY <2>4, JobsStay DEF HookLookup, worker, history
    <3> QED  BY <2>0, <2>4, <3>1, <3>2, LookupStep, OthersLate DEF WorkerInv
  <2>5. ASSUME NEW h \in Hooks, HookStep(h) \/ HookFails(h) PROVE WorkerInv'
    <3>1. UNCHANGED <<pc, job, blacklist, late>>
      BY <2>5 DEF HookStep, HookCheck, HookApply, HookFails, worker, history, sends
    <3>2. JobsIssued'
      BY <2>5, JobsStay DEF HookStep, HookCheck, HookApply, HookFails, worker, history
    <3> QED  BY <2>0, <2>5, <3>1, <3>2, HookSteps, OthersLate DEF WorkerInv, HookStep
  <2> QED  BY <2>0, <2>1, <2>2, <2>3, <2>4, <2>5, PayloadFacts, RepeatedStep DEF Next
<1> QED  BY <1>1, <1>2, PTL DEF Spec

(* Every variable keeps its type.                                          *)
THEOREM TypeCorrect == Spec => []TypeOK
<1>1. WorkerInv => TypeOK
  BY DEF WorkerInv, TypeInv
<1> QED  BY <1>1, Invariance, PTL

(* A webhook event is recorded once per status, whatever deliveries race.  *)
THEOREM EventsOnce == Spec => []EventRecordedOnce
<1>1. WorkerInv => EventRecordedOnce
  BY DEF WorkerInv
<1> QED  BY <1>1, Invariance, PTL

(* A blacklisted address gets fewer further sends than there are workers.  *)
THEOREM LateSendsStayBounded == Spec => []LateSendsBounded
<1>1. WorkerInv => LateSendsBounded
  <2> SUFFICES ASSUME WorkerInv, NEW a \in Addresses, late[a] # 0
               PROVE  late[a] < Cardinality(Workers)
    BY DEF LateSendsBounded
  <2>1. late[a] + Cardinality(Checked(a)) <= Cardinality(Workers) - 1 /\ late[a] \in Nat
    BY DEF WorkerInv, LateInv, TypeInv, TypeOK
  <2>2. Cardinality(Checked(a)) \in Nat /\ Cardinality(Workers) \in Nat
    <3>1. IsFiniteSet(Workers) /\ Checked(a) \in SUBSET Workers
      BY WorkerAssumption DEF WorkerAssumption, Checked
    <3> QED  BY <3>1, FS_Subset, FS_CardinalityType
  <2> QED  BY SMT, <2>1, <2>2
<1> QED  BY <1>1, Invariance, PTL

Rows == {m \in Records : status[m] # "absent"}
Sent == {m \in Records : pushes[m] > 0}

(* The worker, its timers and the webhook keep to the contract with        *)
(* auth-api: each of their steps leaves the outbox as it is, so that no    *)
(* withdrawn record comes back and none disappears.                        *)
THEOREM ImplementsOutbox == Spec => OutboxContract
<1>1. Init => Outbox!Init
  <2> SUFFICES ASSUME Init PROVE Outbox!Init
    OBVIOUS
  <2>1. issued = {} /\ Rows = {} /\ Sent = {}
    BY SMT DEF Init, Rows, Sent
  <2> QED  BY <2>1 DEF Outbox!Init, Rows, Sent
<1>2. WorkerInv /\ WorkerInv' /\ [Next]_vars => [Outbox!Next]_(Outbox!vars)
  <2> SUFFICES ASSUME WorkerInv, WorkerInv', [Next]_vars PROVE [Outbox!Next]_(Outbox!vars)
    OBVIOUS
  <2>0. /\ TypeInv /\ status \in [Records -> Statuses] /\ pushes \in [Records -> Nat]
        /\ IssuedInv
    BY DEF WorkerInv, TypeInv, TypeOK
  <2>1. ASSUME SameRows, UNCHANGED <<issued, pushes>> PROVE UNCHANGED Outbox!vars
    <3>1. Rows' = Rows /\ Sent' = Sent
      BY <2>1 DEF SameRows, Rows, Sent
    <3> QED  BY <2>1, <3>1 DEF Outbox!vars, Rows, Sent
  <2>2. ASSUME NEW m \in Records, Issue(m) PROVE Outbox!Next
    <3>1. Rows' = Rows \cup {m} /\ Sent' = Sent
      BY <2>0, <2>2 DEF Issue, Rows, Sent
    <3>2. m \notin issued /\ issued' = issued \cup {m}
      BY <2>2 DEF Issue
    <3>3. Outbox!Issue(m)
      BY <3>1, <3>2 DEF Outbox!Issue, Rows, Sent
    <3> QED  BY <3>3 DEF Outbox!Next
  <2>3. ASSUME NEW m \in Records, Push(m) PROVE Outbox!Next
    <3>1. Rows' = Rows /\ Sent' = Sent \cup {m} /\ m \in issued /\ issued' = issued
      BY SMT, <2>0, <2>3 DEF Push, PushJob, db, Rows, Sent
    <3>2. Outbox!Push(m)
      BY <3>1 DEF Outbox!Push, Rows, Sent
    <3> QED  BY <3>2 DEF Outbox!Next
  <2>4. ASSUME NEW m \in Records, Withdraw(m) PROVE Outbox!Next
    <3>1. Rows' = Rows \ {m} /\ {m} \in SUBSET Rows /\ Sent' = Sent /\ issued' = issued
      BY <2>0, <2>4 DEF Withdraw, history, Rows, Sent
    <3>2. Outbox!Withdraw({m})
      BY <3>1 DEF Outbox!Withdraw, Rows, Sent
    <3> QED  BY <3>1, <3>2 DEF Outbox!Next, Rows
  <2>5. ASSUME NEW w \in Workers,
               WorkerStep(w) \/ (\E j \in Jobs : RetryFires(w, j)) \/ GiveUp(w) \/ Crash(w)
        PROVE  UNCHANGED Outbox!vars
    BY <2>0, <2>1, <2>5, WorkerApart DEF Apart
  <2>6. ASSUME NEW h \in Hooks, NEW p \in Payloads, HookLookup(h, p) PROVE UNCHANGED Outbox!vars
    <3>1. UNCHANGED <<issued, pushes>>
      BY <2>6 DEF HookLookup, history
    <3> QED  BY <2>1, <2>6, <3>1, LookupStep
  <2>7. ASSUME NEW h \in Hooks, HookStep(h) \/ HookFails(h) PROVE UNCHANGED Outbox!vars
    <3>1. UNCHANGED <<issued, pushes>>
      BY <2>7 DEF HookStep, HookCheck, HookApply, HookFails, history
    <3> QED  BY <2>1, <2>7, <3>1, HookSteps DEF HookStep
  <2>8. CASE UNCHANGED vars
    <3>1. SameRows /\ UNCHANGED <<issued, pushes>>
      BY <2>8 DEF vars, db, history, SameRows
    <3> QED  BY <2>1, <3>1
  <2>9. ASSUME NEW w \in Workers, NEW j \in Jobs, RetryRepeated(w, j) PROVE Outbox!Next
    <3>1. j.rec \in issued /\ j.rec \in Records
      BY <2>9, JobFacts DEF RetryRepeated, WorkerInv, JobsIssued
    <3>2. Rows' = Rows /\ Sent' = Sent \cup {j.rec} /\ issued' = issued
      BY SMT, <2>0, <2>9, <3>1 DEF RetryRepeated, PushJob, db, Rows, Sent
    <3>3. Outbox!Push(j.rec)
      BY <3>1, <3>2 DEF Outbox!Push, Rows, Sent
    <3> QED  BY <3>1, <3>3 DEF Outbox!Next
  <2> QED  BY <2>0, <2>2, <2>3, <2>4, <2>5, <2>6, <2>7, <2>8, <2>9, PayloadFacts DEF Next
<1> QED  BY <1>1, <1>2, Invariance, PTL DEF Spec, OutboxContract, Outbox!Spec
-----------------------------------------------------------------------------
(* How many sends the pushes of a job can lead to.  Every push brings a    *)
(* stock of credits.  A job keeps its credits wherever it is, in the list, *)
(* in a timer or in the hands of a worker, and every send spends one.      *)

(* Credits of a job that was retried r times: one per send it may still    *)
(* lead to, or one until it is accepted.                                   *)
SendsLeft == [r \in 0..(MaxRetries + 1) |-> r..MaxRetries]
OneAcceptance == [r \in 0..(MaxRetries + 1) |-> {0}]

(* The credits, by place, of the jobs of a record in the list ...          *)
Listed(m, W) ==
    {x \in (DOMAIN queue) \X Nat : queue[x[1]].rec = m /\ x[2] \in W[queue[x[1]].retry]}

(* ... in the timers ...                                                   *)
Timed(m, W) ==
    {x \in (Workers \X Jobs \X Nat) \X Nat :
        /\ x[1][2].rec = m
        /\ x[1][3] \in 1..timers[x[1][1]][x[1][2]]
        /\ x[2] \in W[x[1][2].retry]}

(* ... and in the hands of the workers.  A soft bounce has spent one.      *)
Credits(w, m, W) ==
    IF pc[w] = Idle \/ Mine(w) # m THEN {}
    ELSE IF pc[w] \in {"taken", "checked"} THEN W[job[w].retry]
    ELSE IF pc[w] = "soft" THEN W[job[w].retry + 1]
    ELSE {}

InHand(m, W) == {x \in Workers \X Nat : x[2] \in Credits(x[1], m, W)}

Counted(m, W) == IsFiniteSet(Listed(m, W)) /\ IsFiniteSet(Timed(m, W)) /\ IsFiniteSet(InHand(m, W))

Stock(m, W) == Cardinality(Listed(m, W)) + Cardinality(Timed(m, W)) + Cardinality(InHand(m, W))

(* What was spent and what is left never exceeds what the pushes brought.  *)
BalanceInv ==
    \A m \in Records :
        /\ Counted(m, SendsLeft) /\ Counted(m, OneAcceptance)
        /\ attempts[m] + Stock(m, SendsLeft) <= pushes[m] * (MaxRetries + 1)
        /\ accepted[m] + Stock(m, OneAcceptance) <= pushes[m]
-----------------------------------------------------------------------------

(* The two stocks: finite, shrinking with every retry, and never empty for *)
(* a job that can be sent.                                                 *)
LEMMA CreditFacts ==
    ASSUME NEW W \in {SendsLeft, OneAcceptance}
    PROVE  /\ \A r \in 0..(MaxRetries + 1) :
                  W[r] \subseteq Nat /\ IsFiniteSet(W[r]) /\ Cardinality(W[r]) \in Nat
           /\ \A r \in 0..MaxRetries : /\ r + 1 \in 0..(MaxRetries + 1)
                                       /\ Cardinality(W[r + 1]) <= Cardinality(W[r])
                                       /\ 1 <= Cardinality(W[r])
           /\ W = SendsLeft => \A r \in 0..MaxRetries : Cardinality(W[r + 1]) + 1 <= Cardinality(W[r])
           /\ \A r \in 0..MaxRetries : Cardinality(SendsLeft[r]) <= MaxRetries + 1
           /\ \A r \in 0..MaxRetries : Cardinality(OneAcceptance[r]) <= 1
<1>0. MaxRetries \in Nat
  BY WorkerAssumption DEF WorkerAssumption
<1>1. \A r \in 0..(MaxRetries + 1) : /\ SendsLeft[r] \subseteq Nat /\ IsFiniteSet(SendsLeft[r])
                                     /\ Cardinality(SendsLeft[r]) = MaxRetries - r + 1
  <2> SUFFICES ASSUME NEW r \in 0..(MaxRetries + 1)
               PROVE  /\ SendsLeft[r] \subseteq Nat /\ IsFiniteSet(SendsLeft[r])
                      /\ Cardinality(SendsLeft[r]) = MaxRetries - r + 1
    OBVIOUS
  <2>1. SendsLeft[r] = r..MaxRetries
    BY DEF SendsLeft
  <2>2. r \in Int /\ MaxRetries \in Int /\ r..MaxRetries \subseteq Nat /\ (r > MaxRetries => MaxRetries - r + 1 = 0)
    BY SMT, <1>0
  <2>3. /\ IsFiniteSet(r..MaxRetries)
        /\ Cardinality(r..MaxRetries) = IF r > MaxRetries THEN 0 ELSE MaxRetries - r + 1
    BY <2>2, FS_Interval
  <2> QED
    BY <2>1, <2>2, <2>3
<1>2. \A r \in 0..(MaxRetries + 1) : /\ OneAcceptance[r] \subseteq Nat /\ IsFiniteSet(OneAcceptance[r])
                                     /\ Cardinality(OneAcceptance[r]) = 1
  <2>1. \A r \in 0..(MaxRetries + 1) : OneAcceptance[r] = {0}
    BY DEF OneAcceptance
  <2>2. IsFiniteSet({0}) /\ Cardinality({0}) = 1
    BY FS_Singleton
  <2>3. {0} \subseteq Nat
    BY SMT
  <2> QED
    BY <2>1, <2>2, <2>3
<1>3. /\ \A r \in 0..MaxRetries : r \in 0..(MaxRetries + 1) /\ r + 1 \in 0..(MaxRetries + 1)
      /\ 0 \in 0..(MaxRetries + 1)
  BY SMT, <1>0
<1>4. CASE W = SendsLeft
  BY SMT, <1>0, <1>1, <1>2, <1>3, <1>4
<1>5. CASE W = OneAcceptance
  <2>1. OneAcceptance # SendsLeft
    BY SMT, <1>0, <1>1, <1>2, <1>3
  <2> QED
    BY SMT, <1>0, <1>1, <1>2, <1>3, <1>5, <2>1
<1> QED  BY <1>4, <1>5

(* Credits of several places, and those with the credits C of place a.     *)
Away(K, a) == \A x \in K : x[1] # a
Placed(K, a, C) == K \cup ({a} \X C)

(* The credits of one more place add to those of the others.               *)
LEMMA OnePlace ==
    ASSUME NEW K, NEW a, NEW C, IsFiniteSet(K), IsFiniteSet(C), Away(K, a)
    PROVE  /\ IsFiniteSet(Placed(K, a, C))
           /\ Cardinality(Placed(K, a, C)) = Cardinality(K) + Cardinality(C)
<1>1. IsFiniteSet({a}) /\ Cardinality({a}) = 1
  BY FS_Singleton
<1>2. IsFiniteSet({a} \X C) /\ Cardinality({a} \X C) = 1 * Cardinality(C)
  BY <1>1, FS_Product
<1>3. /\ IsFiniteSet(K \cup ({a} \X C))
      /\ Cardinality(K \cup ({a} \X C)) =
            Cardinality(K) + Cardinality({a} \X C) - Cardinality(K \cap ({a} \X C))
  BY <1>2, FS_Union
<1>4. K \cap ({a} \X C) = {}
  BY SMT DEF Away
<1>5. Cardinality({}) = 0 /\ Cardinality(C) \in Nat /\ Cardinality(K) \in Nat
  BY FS_EmptySet, FS_CardinalityType
<1>6. Cardinality(K \cap ({a} \X C)) = 0
  BY <1>4, <1>5
<1>7. Cardinality(K \cup ({a} \X C)) = Cardinality(K) + Cardinality(C)
  BY SMT, <1>2, <1>3, <1>5, <1>6
<1> QED  BY <1>3, <1>7 DEF Placed

-----------------------------------------------------------------------------
(* The list.                                                               *)

(* The list and its oldest job.                                            *)
LEMMA ListFacts ==
    ASSUME TypeInv
    PROVE  /\ queue \in Seq(Jobs) /\ Len(queue) \in Nat /\ DOMAIN queue = 1..Len(queue)
           /\ \A j \in Jobs : j.rec \in Records /\ j.retry \in 0..MaxRetries /\ j.retry \in 0..(MaxRetries + 1)
           /\ queue # <<>> => Len(queue) > 0 /\ Head(queue) = queue[1] /\ Head(queue) \in Jobs
<1>1. queue \in Seq(Jobs)
  BY DEF TypeInv, TypeOK
<1>2. \A j \in Jobs : j.rec \in Records /\ j.retry \in 0..MaxRetries
  BY DEF Jobs
<1>3. 0..MaxRetries \subseteq 0..(MaxRetries + 1)
  <2>1. MaxRetries \in Nat
    BY WorkerAssumption DEF WorkerAssumption
  <2> QED  BY SMT, <2>1
<1>4. Len(queue) \in Nat /\ DOMAIN queue = 1..Len(queue)
  BY SMT, <1>1
<1>5. queue # <<>> => Len(queue) > 0 /\ Head(queue) = queue[1] /\ Head(queue) \in Jobs
  BY SMT, <1>1
<1> QED  BY <1>1, <1>2, <1>3, <1>4, <1>5

(* A job that joins the list brings its credits.                           *)
LEMMA ListGrows ==
    ASSUME TypeInv, NEW W \in {SendsLeft, OneAcceptance}, NEW m \in Records, NEW j \in Jobs,
           queue' = Append(queue, j), IsFiniteSet(Listed(m, W))
    PROVE  /\ IsFiniteSet(Listed(m, W)')
           /\ Cardinality(Listed(m, W)') =
                 Cardinality(Listed(m, W)) + IF j.rec = m THEN Cardinality(W[j.retry]) ELSE 0
<1> DEFINE n == Len(queue) + 1
           C == IF j.rec = m THEN W[j.retry] ELSE {}
<1>1. /\ queue \in Seq(Jobs) /\ Len(queue) \in Nat /\ DOMAIN queue = 1..Len(queue)
      /\ j.retry \in 0..(MaxRetries + 1)
  BY ListFacts
<1>2. /\ DOMAIN queue' = DOMAIN queue \cup {n} /\ n \notin DOMAIN queue
      /\ queue'[n] = j /\ \A i \in DOMAIN queue : queue'[i] = queue[i]
  BY SMT, <1>1
<1>3. IsFiniteSet(C) /\ C \subseteq Nat /\ Cardinality(C) = IF j.rec = m THEN Cardinality(W[j.retry]) ELSE 0
  BY <1>1, CreditFacts, FS_EmptySet
<1> HIDE DEF n
<1>4. Listed(m, W)' = Placed(Listed(m, W), n, C)
  BY SMT, <1>2, <1>3 DEF Listed, Placed
<1>5. Away(Listed(m, W), n)
  BY SMT, <1>2 DEF Listed, Away
<1> HIDE DEF C
<1>6. /\ IsFiniteSet(Placed(Listed(m, W), n, C))
      /\ Cardinality(Placed(Listed(m, W), n, C)) = Cardinality(Listed(m, W)) + Cardinality(C)
  BY <1>3, <1>5, OnePlace
<1> QED  BY <1>3, <1>4, <1>6

(* The oldest job leaves with its credits and the others move up.          *)
LEMMA ListShrinks ==
    ASSUME TypeInv, NEW W \in {SendsLeft, OneAcceptance}, NEW m \in Records,
           queue # <<>>, queue' = Tail(queue), IsFiniteSet(Listed(m, W))
    PROVE  /\ IsFiniteSet(Listed(m, W)') /\ Cardinality(Listed(m, W)') \in Nat
           /\ Cardinality(Listed(m, W)) =
                 Cardinality(Listed(m, W)') + IF Head(queue).rec = m THEN Cardinality(W[Head(queue).retry]) ELSE 0
<1> DEFINE j == Head(queue)
           C == IF j.rec = m THEN W[j.retry] ELSE {}
           K == {x \in Listed(m, W) : x[1] # 1}
           f == [x \in Listed(m, W)' |-> <<x[1] + 1, x[2]>>]
<1>1. /\ queue \in Seq(Jobs) /\ Len(queue) \in Nat /\ DOMAIN queue = 1..Len(queue)
      /\ Len(queue) > 0 /\ j = queue[1] /\ j \in Jobs /\ j.retry \in 0..(MaxRetries + 1)
  BY ListFacts
<1>2. /\ DOMAIN queue' = 1..(Len(queue) - 1)
      /\ \A i \in 1..(Len(queue) - 1) : queue'[i] = queue[i + 1] /\ i + 1 \in DOMAIN queue
      /\ 1 \in DOMAIN queue
      /\ \A i \in DOMAIN queue : i # 1 => i - 1 \in 1..(Len(queue) - 1) /\ (i - 1) + 1 = i
  BY SMT, <1>1
<1>3. IsFiniteSet(C) /\ C \subseteq Nat /\ Cardinality(C) = IF j.rec = m THEN Cardinality(W[j.retry]) ELSE 0
  BY <1>1, CreditFacts, FS_EmptySet
<1>4. Listed(m, W) = Placed(K, 1, C)
  BY SMT, <1>1, <1>2, <1>3 DEF Listed, Placed
<1>5. /\ IsFiniteSet(K) /\ Cardinality(Listed(m, W)) = Cardinality(K) + Cardinality(C)
      /\ Cardinality(K) \in Nat
  <2>1. Away(K, 1) /\ K \subseteq Listed(m, W)
    BY DEF Away
  <2> HIDE DEF K, C
  <2>2. IsFiniteSet(C)
    BY <1>3
  <2>3. IsFiniteSet(K)
    BY <2>1, FS_Subset
  <2>4. Cardinality(Placed(K, 1, C)) = Cardinality(K) + Cardinality(C)
    BY <2>1, <2>2, <2>3, OnePlace
  <2> QED  BY <1>4, <2>3, <2>4, FS_CardinalityType
<1>6. f \in Bijection(Listed(m, W)', K)
  <2>1. \A x \in Listed(m, W)' : /\ x[1] \in 1..(Len(queue) - 1) /\ x[2] \in Nat /\ x = <<x[1], x[2]>>
                                 /\ queue[x[1] + 1].rec = m /\ x[2] \in W[queue[x[1] + 1].retry]
    BY SMT, <1>2 DEF Listed
  <2>2. f \in [Listed(m, W)' -> K]
    <3> SUFFICES ASSUME NEW x \in Listed(m, W)' PROVE <<x[1] + 1, x[2]>> \in K
      OBVIOUS
    <3>1. x[1] + 1 \in DOMAIN queue /\ x[1] + 1 # 1 /\ x[2] \in Nat
      BY SMT, <1>2, <2>1
    <3>2. <<x[1] + 1, x[2]>> \in Listed(m, W)
      BY SMT, <2>1, <3>1 DEF Listed
    <3> QED  BY SMT, <3>1, <3>2
  <2>3. \A x, y \in Listed(m, W)' : f[x] = f[y] => x = y
    BY SMT, <1>1, <2>1
  <2>4. \A y \in K : \E x \in Listed(m, W)' : f[x] = y
    <3> SUFFICES ASSUME NEW y \in K PROVE \E x \in Listed(m, W)' : f[x] = y
      OBVIOUS
    <3>1. /\ y[1] \in DOMAIN queue /\ y[1] # 1 /\ y[2] \in Nat /\ y = <<y[1], y[2]>>
          /\ queue[y[1]].rec = m /\ y[2] \in W[queue[y[1]].retry]
      BY SMT DEF Listed
    <3>2. <<y[1] - 1, y[2]>> \in Listed(m, W)'
      BY SMT, <1>2, <3>1 DEF Listed
    <3>3. f[<<y[1] - 1, y[2]>>] = y
      BY SMT, <1>2, <3>1, <3>2
    <3> QED  BY <3>2, <3>3
  <2> HIDE DEF f, K
  <2> QED  BY <2>2, <2>3, <2>4 DEF Bijection, Injection, Surjection, IsInjective
<1>7. IsFiniteSet(Listed(m, W)') /\ Cardinality(Listed(m, W)') = Cardinality(K)
  <2>1. ExistsBijection(Listed(m, W)', K)
    BY <1>6 DEF ExistsBijection
  <2>2. f \in Injection(Listed(m, W)', K)
    BY <1>6 DEF Bijection
  <2> HIDE DEF f, K
  <2>3. IsFiniteSet(Listed(m, W)')
    BY <1>5, <2>2, FS_Injection
  <2> QED  BY <2>1, <2>3, FS_Bijection
<1> HIDE DEF C, K
<1> QED  BY <1>3, <1>5, <1>7

-----------------------------------------------------------------------------
(* The timers.                                                             *)

(* What a timer is about to push, with its credits.                        *)
LEMMA TimerFacts ==
    ASSUME TypeInv, NEW W \in {SendsLeft, OneAcceptance}, NEW m \in Records, NEW j \in Jobs
    PROVE  LET C == IF j.rec = m THEN W[j.retry] ELSE {} IN
           IsFiniteSet(C) /\ C \subseteq Nat /\ Cardinality(C) = IF j.rec = m THEN Cardinality(W[j.retry]) ELSE 0
BY ListFacts, CreditFacts, FS_EmptySet

(* A job that waits in a timer brings its credits.                         *)
LEMMA TimerStarts ==
    ASSUME TypeInv, NEW W \in {SendsLeft, OneAcceptance}, NEW m \in Records, NEW w \in Workers, NEW j \in Jobs,
           timers' = [timers EXCEPT ![w][j] = @ + 1], IsFiniteSet(Timed(m, W))
    PROVE  /\ IsFiniteSet(Timed(m, W)')
           /\ Cardinality(Timed(m, W)') =
                 Cardinality(Timed(m, W)) + IF j.rec = m THEN Cardinality(W[j.retry]) ELSE 0
<1> DEFINE a == <<w, j, timers[w][j] + 1>>
           C == IF j.rec = m THEN W[j.retry] ELSE {}
<1>1. timers \in [Workers -> [Jobs -> Nat]]
  BY DEF TypeInv, TypeOK
<1>2. IsFiniteSet(C) /\ C \subseteq Nat /\ Cardinality(C) = IF j.rec = m THEN Cardinality(W[j.retry]) ELSE 0
  BY TimerFacts
<1>3. /\ \A v \in Workers, k \in Jobs : timers[v][k] \in Nat
      /\ \A v \in Workers, k \in Jobs :
             timers'[v][k] = IF v = w /\ k = j THEN timers[v][k] + 1 ELSE timers[v][k]
  BY <1>1
<1>4. \A v \in Workers, k \in Jobs, n \in Nat :
          n \in 1..timers'[v][k] <=> n \in 1..timers[v][k] \/ <<v, k, n>> = a
  BY SMT, <1>3
<1>5. a \in Workers \X Jobs \X Nat
  BY SMT, <1>3
<1>6. \A x \in Workers \X Jobs \X Nat :
          x[1] \in Workers /\ x[2] \in Jobs /\ x[3] \in Nat /\ x = <<x[1], x[2], x[3]>>
  BY SMT
<1>7. ~(a[3] \in 1..timers[w][j]) /\ a[1] = w /\ a[2] = j
  BY SMT, <1>3
<1>8. \A x \in Workers \X Jobs \X Nat :
          x[3] \in 1..timers'[x[1]][x[2]] <=> x[3] \in 1..timers[x[1]][x[2]] \/ x = a
  BY <1>4, <1>6
<1> HIDE DEF a
<1>9. Timed(m, W)' = Placed(Timed(m, W), a, C)
  <2>1. \A y : y \in Timed(m, W)' <=>
            /\ y \in (Workers \X Jobs \X Nat) \X Nat /\ y[1][2].rec = m /\ y[2] \in W[y[1][2].retry]
            /\ y[1][3] \in 1..timers'[y[1][1]][y[1][2]]
    BY DEF Timed
  <2>2. \A y : y \in Timed(m, W) <=>
            /\ y \in (Workers \X Jobs \X Nat) \X Nat /\ y[1][2].rec = m /\ y[2] \in W[y[1][2].retry]
            /\ y[1][3] \in 1..timers[y[1][1]][y[1][2]]
    BY DEF Timed
  <2>3. \A y \in (Workers \X Jobs \X Nat) \X Nat : y[1] \in Workers \X Jobs \X Nat
    BY SMT
  <2>4. \A y : y \in {a} \X C <=>
            y \in (Workers \X Jobs \X Nat) \X Nat /\ y[1] = a /\ j.rec = m /\ y[2] \in W[j.retry]
    BY SMT, <1>2, <1>5
  <2>5. \A y : y \in Timed(m, W)' <=> y \in Timed(m, W) \/ y \in {a} \X C
    BY <1>7, <1>8, <2>1, <2>2, <2>3, <2>4
  <2> HIDE DEF C
  <2> QED  BY <2>5 DEF Placed
<1>10. Away(Timed(m, W), a)
  BY <1>7 DEF Timed, Away
<1> HIDE DEF C
<1>11. /\ IsFiniteSet(Placed(Timed(m, W), a, C))
       /\ Cardinality(Placed(Timed(m, W), a, C)) = Cardinality(Timed(m, W)) + Cardinality(C)
  BY <1>2, <1>10, OnePlace
<1> QED  BY <1>2, <1>9, <1>11

(* A timer that fires gives its credits away.                              *)
LEMMA TimerEnds ==
    ASSUME TypeInv, NEW W \in {SendsLeft, OneAcceptance}, NEW m \in Records, NEW w \in Workers, NEW j \in Jobs,
           timers[w][j] > 0, timers' = [timers EXCEPT ![w][j] = @ - 1], IsFiniteSet(Timed(m, W))
    PROVE  /\ IsFiniteSet(Timed(m, W)') /\ Cardinality(Timed(m, W)') \in Nat
           /\ Cardinality(Timed(m, W)) =
                 Cardinality(Timed(m, W)') + IF j.rec = m THEN Cardinality(W[j.retry]) ELSE 0
<1> DEFINE a == <<w, j, timers[w][j]>>
           C == IF j.rec = m THEN W[j.retry] ELSE {}
<1>1. timers \in [Workers -> [Jobs -> Nat]]
  BY DEF TypeInv, TypeOK
<1>2. IsFiniteSet(C) /\ C \subseteq Nat /\ Cardinality(C) = IF j.rec = m THEN Cardinality(W[j.retry]) ELSE 0
  BY TimerFacts
<1>3. /\ \A v \in Workers, k \in Jobs : timers[v][k] \in Nat
      /\ \A v \in Workers, k \in Jobs :
             timers'[v][k] = IF v = w /\ k = j THEN timers[v][k] - 1 ELSE timers[v][k]
  BY <1>1
<1>4. \A v \in Workers, k \in Jobs, n \in Nat :
          n \in 1..timers[v][k] <=> n \in 1..timers'[v][k] \/ <<v, k, n>> = a
  BY SMT, <1>3
<1>5. a \in Workers \X Jobs \X Nat
  BY SMT, <1>3
<1>6. \A x \in Workers \X Jobs \X Nat :
          x[1] \in Workers /\ x[2] \in Jobs /\ x[3] \in Nat /\ x = <<x[1], x[2], x[3]>>
  BY SMT
<1>7. ~(a[3] \in 1..timers'[w][j]) /\ a[1] = w /\ a[2] = j
  BY SMT, <1>3
<1>8. \A x \in Workers \X Jobs \X Nat :
          x[3] \in 1..timers[x[1]][x[2]] <=> x[3] \in 1..timers'[x[1]][x[2]] \/ x = a
  <2> SUFFICES ASSUME NEW x \in Workers \X Jobs \X Nat
               PROVE  x[3] \in 1..timers[x[1]][x[2]] <=> x[3] \in 1..timers'[x[1]][x[2]] \/ x = a
    OBVIOUS
  <2>1. x[1] \in Workers /\ x[2] \in Jobs /\ x[3] \in Nat /\ x = <<x[1], x[2], x[3]>>
    BY <1>6
  <2> QED  BY <1>4, <2>1
<1> HIDE DEF a
<1>9. Timed(m, W) = Placed(Timed(m, W)', a, C)
  <2>1. \A y : y \in Timed(m, W) <=>
            /\ y \in (Workers \X Jobs \X Nat) \X Nat /\ y[1][2].rec = m /\ y[2] \in W[y[1][2].retry]
            /\ y[1][3] \in 1..timers[y[1][1]][y[1][2]]
    BY DEF Timed
  <2>2. \A y : y \in Timed(m, W)' <=>
            /\ y \in (Workers \X Jobs \X Nat) \X Nat /\ y[1][2].rec = m /\ y[2] \in W[y[1][2].retry]
            /\ y[1][3] \in 1..timers'[y[1][1]][y[1][2]]
    BY DEF Timed
  <2>3. \A y \in (Workers \X Jobs \X Nat) \X Nat : y[1] \in Workers \X Jobs \X Nat
    BY SMT
  <2>4. \A y : y \in {a} \X C <=>
            y \in (Workers \X Jobs \X Nat) \X Nat /\ y[1] = a /\ j.rec = m /\ y[2] \in W[j.retry]
    BY SMT, <1>2, <1>5
  <2>5. \A y : y \in Timed(m, W) <=> y \in Timed(m, W)' \/ y \in {a} \X C
    BY <1>7, <1>8, <2>1, <2>2, <2>3, <2>4
  <2> HIDE DEF C
  <2> QED  BY <2>5 DEF Placed
<1>10. Away(Timed(m, W)', a) /\ Timed(m, W)' \subseteq Timed(m, W)
  <2>1. Away(Timed(m, W)', a)
    BY <1>7 DEF Timed, Away
  <2> QED  BY <1>9, <2>1 DEF Placed
<1> HIDE DEF C
<1>11. IsFiniteSet(Timed(m, W)')
  BY <1>10, FS_Subset
<1>12. Cardinality(Placed(Timed(m, W)', a, C)) = Cardinality(Timed(m, W)') + Cardinality(C)
  BY <1>2, <1>10, <1>11, OnePlace
<1> QED  BY <1>2, <1>9, <1>11, <1>12, FS_CardinalityType

-----------------------------------------------------------------------------
(* The workers' hands.                                                     *)

(* The credits a worker has in hand are a finite set of numbers.           *)
HandsOK ==
    \A W \in {SendsLeft, OneAcceptance}, m \in Records, w \in Workers :
        /\ Credits(w, m, W) \subseteq Nat /\ IsFiniteSet(Credits(w, m, W))
        /\ Cardinality(Credits(w, m, W)) \in Nat

(* It is so whenever the types are right.                                  *)
LEMMA HandFacts == TypeInv => HandsOK
<1> SUFFICES ASSUME TypeInv, NEW W \in {SendsLeft, OneAcceptance}, NEW m \in Records, NEW w \in Workers
             PROVE  /\ Credits(w, m, W) \subseteq Nat /\ IsFiniteSet(Credits(w, m, W))
                    /\ Cardinality(Credits(w, m, W)) \in Nat
  BY DEF HandsOK
<1>1. pc[w] # Idle => /\ job[w] \in Jobs /\ job[w].retry \in 0..MaxRetries
                      /\ job[w].retry \in 0..(MaxRetries + 1) /\ job[w].retry + 1 \in 0..(MaxRetries + 1)
  BY ListFacts, CreditFacts DEF TypeInv, TypeOK
<1>2. {} \subseteq Nat /\ IsFiniteSet({})
  BY FS_EmptySet
<1>3. Credits(w, m, W) \subseteq Nat /\ IsFiniteSet(Credits(w, m, W))
  BY <1>1, <1>2, CreditFacts DEF Credits
<1> QED  BY <1>3, FS_CardinalityType

(* A step of one worker changes what that worker has in hand.              *)
LEMMA HandStep ==
    ASSUME TypeInv, TypeInv', NEW W \in {SendsLeft, OneAcceptance}, NEW m \in Records, NEW w \in Workers,
           \A v \in Workers \ {w} : pc'[v] = pc[v] /\ job'[v] = job[v],
           IsFiniteSet(InHand(m, W))
    PROVE  /\ IsFiniteSet(InHand(m, W)') /\ Cardinality(InHand(m, W)) \in Nat /\ Cardinality(InHand(m, W)') \in Nat
           /\ Cardinality(InHand(m, W)') + Cardinality(Credits(w, m, W))
                 = Cardinality(InHand(m, W)) + Cardinality(Credits(w, m, W)')
<1> DEFINE K == {x \in InHand(m, W) : x[1] # w}
           C == Credits(w, m, W)
           D == Credits(w, m, W)'
<1>1. C \subseteq Nat /\ IsFiniteSet(C) /\ Cardinality(C) \in Nat
  BY HandFacts DEF HandsOK
<1>2. D \subseteq Nat /\ IsFiniteSet(D) /\ Cardinality(D) \in Nat
  <2>1. HandsOK'
    BY HandFacts, PTL
  <2> QED  BY <2>1 DEF HandsOK
<1>3. \A v \in Workers : v # w => Credits(v, m, W)' = Credits(v, m, W)
  BY DEF Credits, Mine
<1> HIDE DEF C, D
<1>4. InHand(m, W) = Placed(K, w, C)
  BY SMT, <1>1 DEF InHand, C, Placed
<1>5. InHand(m, W)' = Placed(K, w, D)
  BY SMT, <1>2, <1>3 DEF InHand, D, Placed
<1>6. Away(K, w) /\ K \subseteq InHand(m, W)
  BY DEF Away
<1> HIDE DEF K
<1>7. IsFiniteSet(K)
  BY <1>6, FS_Subset
<1>8. Cardinality(Placed(K, w, C)) = Cardinality(K) + Cardinality(C)
  BY <1>1, <1>6, <1>7, OnePlace
<1>9. IsFiniteSet(Placed(K, w, D)) /\ Cardinality(Placed(K, w, D)) = Cardinality(K) + Cardinality(D)
  BY <1>2, <1>6, <1>7, OnePlace
<1>10. Cardinality(K) \in Nat
  BY <1>7, FS_CardinalityType
<1> QED  BY SMT, <1>1, <1>2, <1>4, <1>5, <1>8, <1>9, <1>10 DEF C, D

-----------------------------------------------------------------------------
(* The steps.                                                              *)

(* Places that a step leaves alone.                                        *)
LEMMA SamePlaces ==
    ASSUME NEW W, NEW m
    PROVE  /\ UNCHANGED queue => Listed(m, W)' = Listed(m, W)
           /\ UNCHANGED timers => Timed(m, W)' = Timed(m, W)
           /\ UNCHANGED <<pc, job>> => InHand(m, W)' = InHand(m, W)
<1>1. UNCHANGED queue => Listed(m, W)' = Listed(m, W)
  BY DEF Listed
<1>2. UNCHANGED timers => Timed(m, W)' = Timed(m, W)
  BY DEF Timed
<1>3. UNCHANGED <<pc, job>> => InHand(m, W)' = InHand(m, W)
  BY DEF InHand, Credits, Mine
<1> QED  BY <1>1, <1>2, <1>3

(* The sizes of the three places.                                          *)
LEMMA StockFacts ==
    ASSUME NEW W, NEW m, Counted(m, W)
    PROVE  /\ Cardinality(Listed(m, W)) \in Nat /\ Cardinality(Timed(m, W)) \in Nat
           /\ Cardinality(InHand(m, W)) \in Nat
BY FS_CardinalityType DEF Counted

(* A step of a worker that touches no list and no timer: d credits are     *)
(* spent and the worker has at most the others left.                       *)
LEMMA HandSpends ==
    ASSUME TypeInv, TypeInv', NEW W \in {SendsLeft, OneAcceptance}, NEW m \in Records, NEW w \in Workers,
           \A v \in Workers \ {w} : pc'[v] = pc[v] /\ job'[v] = job[v],
           UNCHANGED <<queue, timers>>, Counted(m, W),
           NEW d \in Nat, d + Cardinality(Credits(w, m, W)') <= Cardinality(Credits(w, m, W))
    PROVE  Counted(m, W)' /\ d + Stock(m, W)' <= Stock(m, W)
<1>1. /\ IsFiniteSet(InHand(m, W)') /\ Cardinality(InHand(m, W)') \in Nat
      /\ Cardinality(InHand(m, W)') + Cardinality(Credits(w, m, W))
             = Cardinality(InHand(m, W)) + Cardinality(Credits(w, m, W)')
  BY HandStep DEF Counted
<1>2. Listed(m, W)' = Listed(m, W) /\ Timed(m, W)' = Timed(m, W)
  BY SamePlaces
<1>3. Cardinality(Credits(w, m, W)) \in Nat /\ Cardinality(Credits(w, m, W)') \in Nat
  <2>1. HandsOK /\ HandsOK'
    BY HandFacts, PTL
  <2> QED  BY <2>1 DEF HandsOK
<1>4. Counted(m, W)'
  BY <1>1, <1>2 DEF Counted
<1>5. d + Stock(m, W)' <= Stock(m, W)
  BY SMT, <1>1, <1>2, <1>3, StockFacts DEF Stock
<1> QED  BY <1>4, <1>5

(* The job taken from the list is in hand.                                 *)
LEMMA DequeueMoves ==
    ASSUME TypeInv, TypeInv', NEW W \in {SendsLeft, OneAcceptance}, NEW m \in Records, NEW w \in Workers,
           Dequeue(w), Counted(m, W)
    PROVE  Counted(m, W)' /\ Stock(m, W)' <= Stock(m, W)
<1> DEFINE c == IF Head(queue).rec = m THEN Cardinality(W[Head(queue).retry]) ELSE 0
<1>0. pc \in [Workers -> WorkerPC] /\ job \in [Workers -> Jobs \cup {<<>>}]
  BY DEF TypeInv, TypeOK
<1>1. /\ queue # <<>> /\ queue' = Tail(queue) /\ UNCHANGED timers
      /\ pc[w] = Idle /\ pc'[w] = "taken" /\ job'[w] = Head(queue)
      /\ \A v \in Workers \ {w} : pc'[v] = pc[v] /\ job'[v] = job[v]
  BY <1>0 DEF Dequeue, Pop, Goto
<1>2. Credits(w, m, W) = {} /\ Credits(w, m, W)' = IF Head(queue).rec = m THEN W[Head(queue).retry] ELSE {}
  BY <1>1 DEF Credits, Mine, Idle
<1>3. Cardinality(Credits(w, m, W)) = 0 /\ Cardinality(Credits(w, m, W)') = c /\ c \in Nat
  <2>1. HandsOK'
    BY HandFacts, PTL
  <2>2. Cardinality(Credits(w, m, W)') \in Nat
    BY <2>1 DEF HandsOK
  <2> QED  BY <1>2, <2>2, FS_EmptySet
<1>4. /\ IsFiniteSet(Listed(m, W)') /\ Cardinality(Listed(m, W)') \in Nat
      /\ Cardinality(Listed(m, W)) = Cardinality(Listed(m, W)') + c
  BY <1>1, ListShrinks DEF Counted
<1>5. /\ IsFiniteSet(InHand(m, W)') /\ Cardinality(InHand(m, W)') \in Nat
      /\ Cardinality(InHand(m, W)') + Cardinality(Credits(w, m, W))
             = Cardinality(InHand(m, W)) + Cardinality(Credits(w, m, W)')
  BY <1>1, HandStep DEF Counted
<1>6. Timed(m, W)' = Timed(m, W)
  BY <1>1, SamePlaces
<1>7. Counted(m, W)'
  BY <1>4, <1>5, <1>6 DEF Counted
<1> HIDE DEF c
<1>8. Stock(m, W)' <= Stock(m, W)
  BY SMT, <1>3, <1>4, <1>5, <1>6, StockFacts DEF Stock
<1> QED  BY <1>7, <1>8

(* A soft bounce leaves the credits of the retry in a timer.               *)
LEMMA RetryMoves ==
    ASSUME TypeInv, TypeInv', NEW W \in {SendsLeft, OneAcceptance}, NEW m \in Records, NEW w \in Workers,
           SoftBounceRetry(w), Counted(m, W)
    PROVE  Counted(m, W)' /\ Stock(m, W)' <= Stock(m, W)
<1> DEFINE j == Retry(job[w])
           c == IF j.rec = m THEN Cardinality(W[j.retry]) ELSE 0
<1>0. pc \in [Workers -> WorkerPC] /\ job \in [Workers -> Jobs \cup {<<>>}] /\ (pc[w] # Idle => job[w] \in Jobs)
  BY DEF TypeInv, TypeOK
<1>1. /\ pc[w] = "soft" /\ pc[w] # Idle /\ pc'[w] = Idle /\ UNCHANGED queue /\ RetryLeft(job[w])
      /\ timers' = [timers EXCEPT ![w][j] = @ + 1]
      /\ \A v \in Workers \ {w} : pc'[v] = pc[v] /\ job'[v] = job[v]
  BY <1>0 DEF SoftBounceRetry, MarkBounced, Done, Goto, Idle
<1>2. job[w] \in Jobs /\ j \in Jobs /\ j.rec = job[w].rec /\ j.retry = job[w].retry + 1
  <2>1. job[w] \in Jobs /\ j \in Jobs
    BY <1>0, <1>1, JobFacts
  <2> QED  BY <2>1 DEF Jobs, Retry
<1> HIDE DEF j
<1>3. Credits(w, m, W)' = {} /\ Credits(w, m, W) = IF j.rec = m THEN W[j.retry] ELSE {}
  BY <1>1, <1>2 DEF Credits, Mine, Idle
<1>4. Cardinality(Credits(w, m, W)') = 0 /\ Cardinality(Credits(w, m, W)) = c /\ c \in Nat
  <2>1. Cardinality(Credits(w, m, W)) \in Nat
    BY HandFacts DEF HandsOK
  <2> QED  BY <1>3, <2>1, FS_EmptySet
<1>5. IsFiniteSet(Timed(m, W)') /\ Cardinality(Timed(m, W)') = Cardinality(Timed(m, W)) + c
  <2>1. IsFiniteSet(Timed(m, W)) /\ timers' = [timers EXCEPT ![w][j] = @ + 1] /\ j \in Jobs
    BY <1>1, <1>2 DEF Counted
  <2> QED  BY <2>1, TimerStarts
<1>6. /\ IsFiniteSet(InHand(m, W)') /\ Cardinality(InHand(m, W)') \in Nat
      /\ Cardinality(InHand(m, W)') + Cardinality(Credits(w, m, W))
             = Cardinality(InHand(m, W)) + Cardinality(Credits(w, m, W)')
  BY <1>1, HandStep DEF Counted
<1>7. Listed(m, W)' = Listed(m, W)
  BY <1>1, SamePlaces
<1>8. Counted(m, W)'
  BY <1>5, <1>6, <1>7 DEF Counted
<1> HIDE DEF c
<1>9. Stock(m, W)' <= Stock(m, W)
  BY SMT, <1>4, <1>5, <1>6, <1>7, StockFacts DEF Stock
<1> QED  BY <1>8, <1>9

(* A timer that fires pushes the job with its credits, or loses both.      *)
LEMMA FiringMoves ==
    ASSUME TypeInv, NEW W \in {SendsLeft, OneAcceptance}, NEW m \in Records, NEW w \in Workers, NEW j \in Jobs,
           RetryFires(w, j), Counted(m, W)
    PROVE  Counted(m, W)' /\ Stock(m, W)' <= Stock(m, W)
<1> DEFINE c == IF j.rec = m THEN Cardinality(W[j.retry]) ELSE 0
<1>1. /\ timers[w][j] > 0 /\ timers' = [timers EXCEPT ![w][j] = @ - 1] /\ UNCHANGED <<pc, job>>
      /\ queue' = Append(queue, j) \/ queue' = queue
  BY DEF RetryFires
<1>2. /\ IsFiniteSet(Timed(m, W)') /\ Cardinality(Timed(m, W)') \in Nat
      /\ Cardinality(Timed(m, W)) = Cardinality(Timed(m, W)') + c
  BY <1>1, TimerEnds DEF Counted
<1>3. InHand(m, W)' = InHand(m, W)
  BY <1>1, SamePlaces
<1>4. c \in Nat
  BY ListFacts, CreditFacts
<1> HIDE DEF c
<1>5. CASE queue' = Append(queue, j)
  <2>1. IsFiniteSet(Listed(m, W)') /\ Cardinality(Listed(m, W)') = Cardinality(Listed(m, W)) + c
    BY <1>5, ListGrows DEF Counted, c
  <2>2. Counted(m, W)'
    BY <1>2, <1>3, <2>1 DEF Counted
  <2>3. Stock(m, W)' <= Stock(m, W)
    BY SMT, <1>2, <1>3, <1>4, <2>1, StockFacts DEF Stock
  <2> QED  BY <2>2, <2>3
<1>6. CASE queue' = queue
  <2>1. Listed(m, W)' = Listed(m, W)
    BY <1>6, SamePlaces
  <2>2. Counted(m, W)'
    BY <1>2, <1>3, <2>1 DEF Counted
  <2>3. Stock(m, W)' <= Stock(m, W)
    BY SMT, <1>2, <1>3, <1>4, <2>1, StockFacts DEF Stock
  <2> QED  BY <2>2, <2>3
<1> QED  BY <1>1, <1>5, <1>6

(* A crash loses what was in the timers and in hand.                       *)
LEMMA CrashLoses ==
    ASSUME TypeInv, TypeInv', NEW W \in {SendsLeft, OneAcceptance}, NEW m \in Records, NEW w \in Workers,
           Crash(w), Counted(m, W)
    PROVE  Counted(m, W)' /\ Stock(m, W)' <= Stock(m, W)
<1>0. /\ pc \in [Workers -> WorkerPC] /\ job \in [Workers -> Jobs \cup {<<>>}]
      /\ timers \in [Workers -> [Jobs -> Nat]]
  BY DEF TypeInv, TypeOK
<1>1. /\ pc'[w] = Idle /\ UNCHANGED queue /\ timers' = [timers EXCEPT ![w] = [j \in Jobs |-> 0]]
      /\ \A v \in Workers \ {w} : pc'[v] = pc[v] /\ job'[v] = job[v]
  BY <1>0 DEF Crash, Done, Goto
<1>2. Timed(m, W)' \subseteq Timed(m, W)
  <2>1. \A v \in Workers, j \in Jobs : timers'[v][j] = timers[v][j] \/ timers'[v][j] = 0
    BY <1>0, <1>1
  <2>2. \A v \in Workers, j \in Jobs : 1..timers'[v][j] \subseteq 1..timers[v][j]
    BY SMT, <1>0, <2>1
  <2>3. \A x \in Workers \X Jobs \X Nat : x[1] \in Workers /\ x[2] \in Jobs
    BY SMT
  <2>4. \A x \in Workers \X Jobs \X Nat : 1..timers'[x[1]][x[2]] \subseteq 1..timers[x[1]][x[2]]
    BY <2>2, <2>3
  <2>5. \A y \in (Workers \X Jobs \X Nat) \X Nat : y[1] \in Workers \X Jobs \X Nat
    BY SMT
  <2> QED  BY <2>4, <2>5 DEF Timed
<1>3. IsFiniteSet(Timed(m, W)') /\ Cardinality(Timed(m, W)') <= Cardinality(Timed(m, W))
  BY <1>2, FS_Subset DEF Counted
<1>4. Credits(w, m, W)' = {}
  BY <1>1 DEF Credits
<1>5. /\ Cardinality(Credits(w, m, W)') = 0 /\ Cardinality(Credits(w, m, W)) \in Nat
  <2>1. Cardinality(Credits(w, m, W)) \in Nat
    BY HandFacts DEF HandsOK
  <2> QED  BY <1>4, <2>1, FS_EmptySet
<1>6. /\ IsFiniteSet(InHand(m, W)') /\ Cardinality(InHand(m, W)') \in Nat
      /\ Cardinality(InHand(m, W)') + Cardinality(Credits(w, m, W))
             = Cardinality(InHand(m, W)) + Cardinality(Credits(w, m, W)')
  BY <1>1, HandStep DEF Counted
<1>7. Listed(m, W)' = Listed(m, W)
  BY <1>1, SamePlaces
<1>8. Counted(m, W)'
  BY <1>3, <1>6, <1>7 DEF Counted
<1>9. Cardinality(Timed(m, W)') \in Nat
  BY <1>3, FS_CardinalityType
<1>10. Stock(m, W)' <= Stock(m, W)
  BY SMT, <1>3, <1>5, <1>6, <1>7, <1>9, StockFacts DEF Stock
<1> QED  BY <1>8, <1>10

(* A push brings the stock of its job.                                     *)
LEMMA PushBrings ==
    ASSUME TypeInv, NEW W \in {SendsLeft, OneAcceptance}, NEW m \in Records, NEW j \in Jobs,
           PushJob(j), Counted(m, W)
    PROVE  /\ Counted(m, W)'
           /\ Stock(m, W)' = Stock(m, W) + IF j.rec = m THEN Cardinality(W[j.retry]) ELSE 0
<1> DEFINE c == IF j.rec = m THEN Cardinality(W[j.retry]) ELSE 0
<1>1. queue' = Append(queue, j) /\ UNCHANGED <<timers, pc, job>>
  BY DEF PushJob
<1>2. IsFiniteSet(Listed(m, W)') /\ Cardinality(Listed(m, W)') = Cardinality(Listed(m, W)) + c
  BY <1>1, ListGrows DEF Counted
<1>3. Timed(m, W)' = Timed(m, W) /\ InHand(m, W)' = InHand(m, W)
  BY <1>1, SamePlaces
<1>4. Counted(m, W)'
  BY <1>2, <1>3 DEF Counted
<1>5. c \in Nat
  <2>1. 0 \in Nat
    BY SMT
  <2>2. j.retry \in 0..(MaxRetries + 1)
    BY ListFacts
  <2>3. Cardinality(W[j.retry]) \in Nat
    BY <2>2, CreditFacts
  <2> QED  BY <2>1, <2>3
<1> HIDE DEF c
<1>6. Stock(m, W)' = Stock(m, W) + c
  BY SMT, <1>2, <1>3, <1>5, StockFacts DEF Stock
<1> QED  BY <1>4, <1>6 DEF c

(* What a worker does with the job in hand, other than sending it: it goes *)
(* on with it or is done with it, and has no new credits.                  *)
LEMMA HandLoses ==
    ASSUME TypeInv, TypeInv', NEW W \in {SendsLeft, OneAcceptance}, NEW m \in Records, NEW w \in Workers,
           \/ HandleJob(w) \/ MarkSent(w) \/ MarkFailed(w) \/ MarkBouncedMissing(w)
           \/ HardBounce(w) \/ SoftBounceExceeded(w) \/ Blacklist(w) \/ GiveUp(w),
           Counted(m, W)
    PROVE  Counted(m, W)' /\ Stock(m, W)' <= Stock(m, W)
<1>0. pc \in [Workers -> WorkerPC] /\ job \in [Workers -> Jobs \cup {<<>>}]
  BY DEF TypeInv, TypeOK
<1>1. /\ UNCHANGED <<queue, timers>>
      /\ \A v \in Workers \ {w} : pc'[v] = pc[v] /\ job'[v] = job[v]
      /\ \/ pc'[w] \in {Idle, "failing", "blacklisting"}
         \/ pc[w] = "taken" /\ pc'[w] = "checked" /\ job'[w] = job[w]
  <2>1. CASE HandleJob(w)
    BY <1>0, <2>1 DEF HandleJob, Goto
  <2>2. CASE MarkSent(w) \/ MarkFailed(w) \/ MarkBouncedMissing(w) \/ Blacklist(w) \/ GiveUp(w)
    BY <1>0, <2>2 DEF MarkSent, MarkFailed, MarkBouncedMissing, Blacklist, GiveUp, Done, Goto
  <2>3. CASE HardBounce(w) \/ SoftBounceExceeded(w)
    BY <1>0, <2>3 DEF HardBounce, SoftBounceExceeded, MarkBounced, Goto
  <2> QED  BY <2>1, <2>2, <2>3
<1>2. Credits(w, m, W)' = {} \/ Credits(w, m, W)' = Credits(w, m, W)
  BY <1>1 DEF Credits, Mine, Idle
<1>3. Cardinality(Credits(w, m, W)) \in Nat
  BY HandFacts DEF HandsOK
<1>4. Cardinality(Credits(w, m, W)') = 0 \/ Cardinality(Credits(w, m, W)') = Cardinality(Credits(w, m, W))
  BY <1>2, FS_EmptySet
<1>5. 0 \in Nat /\ 0 + Cardinality(Credits(w, m, W)') <= Cardinality(Credits(w, m, W))
  BY SMT, <1>3, <1>4
<1>6. Counted(m, W)' /\ 0 + Stock(m, W)' <= Stock(m, W)
  BY <1>1, <1>5, HandSpends
<1>7. 0 + Stock(m, W)' = Stock(m, W)'
  <2>1. Cardinality(Listed(m, W)') \in Nat /\ Cardinality(Timed(m, W)') \in Nat /\ Cardinality(InHand(m, W)') \in Nat
    BY <1>6, FS_CardinalityType DEF Counted
  <2> QED  BY SMT, <2>1 DEF Stock
<1> QED  BY <1>6, <1>7

(* A send spends a credit; an acceptance, the only one.                    *)
LEMMA SendSpends ==
    ASSUME TypeInv, TypeInv', NEW W \in {SendsLeft, OneAcceptance}, NEW m \in Records, NEW w \in Workers,
           NEW o \in Outcomes, Send(w, o), Counted(m, W)
    PROVE  /\ Counted(m, W)'
           /\ W = SendsLeft => (IF Mine(w) = m THEN 1 ELSE 0) + Stock(m, W)' <= Stock(m, W)
           /\ (IF Mine(w) = m /\ o = "accepted" THEN 1 ELSE 0) + Stock(m, W)' <= Stock(m, W)
<1> DEFINE r == job[w].retry
           here == IF Mine(w) = m THEN 1 ELSE 0
           good == IF Mine(w) = m /\ o = "accepted" THEN 1 ELSE 0
<1>0. pc \in [Workers -> WorkerPC] /\ (pc[w] # Idle => job[w] \in Jobs)
  BY DEF TypeInv, TypeOK
<1>1. /\ UNCHANGED <<queue, timers, job>> /\ pc[w] = "checked" /\ pc'[w] = o /\ pc[w] # Idle /\ o # Idle
      /\ o \in {"accepted", "hard", "soft", "failing"}
      /\ \A v \in Workers \ {w} : pc'[v] = pc[v] /\ job'[v] = job[v]
  BY <1>0 DEF Send, Goto, Outcomes, Classes, Idle
<1>2. job[w] \in Jobs /\ r \in 0..MaxRetries
  BY <1>0, <1>1, ListFacts
<1>3. /\ Mine(w) # m => Credits(w, m, W) = {} /\ Credits(w, m, W)' = {}
      /\ Mine(w) = m => /\ Credits(w, m, W) = W[r]
                        /\ Credits(w, m, W)' = IF o = "soft" THEN W[r + 1] ELSE {}
  BY <1>1 DEF Credits, Mine
<1>4. /\ Cardinality(W[r]) \in Nat /\ Cardinality(W[r + 1]) \in Nat /\ 1 <= Cardinality(W[r])
      /\ Cardinality(W[r + 1]) <= Cardinality(W[r])
      /\ W = SendsLeft => Cardinality(W[r + 1]) + 1 <= Cardinality(W[r])
  <2>1. r \in 0..(MaxRetries + 1) /\ r + 1 \in 0..(MaxRetries + 1)
    BY <1>2, CreditFacts, ListFacts
  <2> QED  BY <1>2, <2>1, CreditFacts
<1>5. /\ Mine(w) # m => Cardinality(Credits(w, m, W)) = 0 /\ Cardinality(Credits(w, m, W)') = 0
      /\ Mine(w) = m => /\ Cardinality(Credits(w, m, W)) = Cardinality(W[r])
                        /\ Cardinality(Credits(w, m, W)') = IF o = "soft" THEN Cardinality(W[r + 1]) ELSE 0
  BY <1>3, FS_EmptySet
<1>6. /\ here \in Nat /\ good \in Nat
      /\ good + Cardinality(Credits(w, m, W)') <= Cardinality(Credits(w, m, W))
      /\ W = SendsLeft => here + Cardinality(Credits(w, m, W)') <= Cardinality(Credits(w, m, W))
  <2>1. CASE Mine(w) # m
    <3>1. here = 0 /\ good = 0
      BY <2>1
    <3>2. Cardinality(Credits(w, m, W)) = 0 /\ Cardinality(Credits(w, m, W)') = 0
      BY <1>5, <2>1
    <3> HIDE DEF r, here, good
    <3> QED  BY SMT, <3>1, <3>2
  <2>2. CASE Mine(w) = m /\ o = "soft"
    <3>1. here = 1 /\ good = 0
      BY <2>2
    <3>2. /\ Cardinality(Credits(w, m, W)) = Cardinality(W[r])
          /\ Cardinality(Credits(w, m, W)') = Cardinality(W[r + 1])
      BY <1>5, <2>2
    <3> HIDE DEF r, here, good
    <3> QED  BY SMT, <1>4, <3>1, <3>2
  <2>3. CASE Mine(w) = m /\ o # "soft"
    <3>1. here = 1 /\ good \in {0, 1}
      BY <2>3
    <3>2. Cardinality(Credits(w, m, W)) = Cardinality(W[r]) /\ Cardinality(Credits(w, m, W)') = 0
      BY <1>5, <2>3
    <3> HIDE DEF r, here, good
    <3> QED  BY SMT, <1>4, <3>1, <3>2
  <2> QED  BY <2>1, <2>2, <2>3
<1> HIDE DEF here, good
<1>7. Counted(m, W)' /\ good + Stock(m, W)' <= Stock(m, W)
  BY <1>1, <1>6, HandSpends
<1>8. W = SendsLeft => here + Stock(m, W)' <= Stock(m, W)
  BY <1>1, <1>6, HandSpends
<1> QED  BY <1>7, <1>8 DEF here, good

-----------------------------------------------------------------------------

(* The stock of a record did not grow.                                     *)
Leaner(m, W) == Counted(m, W)' /\ Stock(m, W)' <= Stock(m, W)

(* Stocks are natural numbers, before a step and after it.                 *)
LEMMA StockTypes ==
    ASSUME NEW W, NEW m
    PROVE  /\ Counted(m, W) => Stock(m, W) \in Nat
           /\ Counted(m, W)' => Stock(m, W)' \in Nat
<1>1. Counted(m, W) => Stock(m, W) \in Nat
  BY SMT, StockFacts DEF Stock
<1>2. Counted(m, W)' => Stock(m, W)' \in Nat
  <2> SUFFICES ASSUME Counted(m, W)' PROVE Stock(m, W)' \in Nat
    OBVIOUS
  <2>1. Cardinality(Listed(m, W)') \in Nat /\ Cardinality(Timed(m, W)') \in Nat /\ Cardinality(InHand(m, W)') \in Nat
    BY FS_CardinalityType DEF Counted
  <2> QED  BY SMT, <2>1 DEF Stock
<1> QED  BY <1>1, <1>2

(* A step that pushes and sends nothing keeps the balance.                 *)
LEMMA BalanceKept ==
    ASSUME TypeInv, BalanceInv, UNCHANGED <<attempts, accepted, pushes>>,
           \A m \in Records, W \in {SendsLeft, OneAcceptance} : Counted(m, W) => Leaner(m, W)
    PROVE  BalanceInv'
<1> SUFFICES ASSUME NEW m \in Records
             PROVE  (/\ Counted(m, SendsLeft) /\ Counted(m, OneAcceptance)
                     /\ attempts[m] + Stock(m, SendsLeft) <= pushes[m] * (MaxRetries + 1)
                     /\ accepted[m] + Stock(m, OneAcceptance) <= pushes[m])'
  BY DEF BalanceInv
<1>1. /\ Counted(m, SendsLeft) /\ Counted(m, OneAcceptance)
      /\ attempts[m] + Stock(m, SendsLeft) <= pushes[m] * (MaxRetries + 1)
      /\ accepted[m] + Stock(m, OneAcceptance) <= pushes[m]
  BY DEF BalanceInv
<1>2. /\ Counted(m, SendsLeft)' /\ Stock(m, SendsLeft)' <= Stock(m, SendsLeft)
      /\ Counted(m, OneAcceptance)' /\ Stock(m, OneAcceptance)' <= Stock(m, OneAcceptance)
  BY <1>1 DEF Leaner
<1>3. /\ Stock(m, SendsLeft) \in Nat /\ Stock(m, SendsLeft)' \in Nat
      /\ Stock(m, OneAcceptance) \in Nat /\ Stock(m, OneAcceptance)' \in Nat
  BY <1>1, <1>2, StockTypes
<1>4. attempts[m] \in Nat /\ accepted[m] \in Nat /\ pushes[m] \in Nat /\ MaxRetries \in Nat
  BY WorkerAssumption DEF WorkerAssumption, TypeInv, TypeOK
<1>5. pushes[m] * (MaxRetries + 1) \in Nat
  BY SMT, <1>4
<1>6. /\ attempts[m] + Stock(m, SendsLeft)' <= pushes[m] * (MaxRetries + 1)
      /\ accepted[m] + Stock(m, OneAcceptance)' <= pushes[m]
  BY SMT, <1>1, <1>2, <1>3, <1>4, <1>5
<1> QED  BY <1>2, <1>6

(* What is spent and left stays within a bound that grows as much.         *)
LEMMA WithinBound ==
    ASSUME NEW a \in Nat, NEW s \in Nat, NEW b \in Nat, NEW c \in Nat, NEW k \in Nat, a + s <= b, c <= k
    PROVE  a + (s + c) <= b + k
BY SMT

(* A push brings no more credits than it adds to the bound.                *)
LEMMA BalancePush ==
    ASSUME TypeInv, BalanceInv, NEW j \in Jobs, PushJob(j)
    PROVE  BalanceInv'
<1> SUFFICES ASSUME NEW m \in Records
             PROVE  (/\ Counted(m, SendsLeft) /\ Counted(m, OneAcceptance)
                     /\ attempts[m] + Stock(m, SendsLeft) <= pushes[m] * (MaxRetries + 1)
                     /\ accepted[m] + Stock(m, OneAcceptance) <= pushes[m])'
  BY DEF BalanceInv
<1> DEFINE d == IF j.rec = m THEN 1 ELSE 0
<1>1. /\ Counted(m, SendsLeft) /\ Counted(m, OneAcceptance)
      /\ attempts[m] + Stock(m, SendsLeft) <= pushes[m] * (MaxRetries + 1)
      /\ accepted[m] + Stock(m, OneAcceptance) <= pushes[m]
  BY DEF BalanceInv
<1>2. /\ attempts[m] \in Nat /\ accepted[m] \in Nat /\ pushes[m] \in Nat /\ MaxRetries \in Nat
      /\ pushes \in [Records -> Nat]
  BY WorkerAssumption DEF WorkerAssumption, TypeInv, TypeOK
<1>3. attempts' = attempts /\ accepted' = accepted /\ pushes'[m] = pushes[m] + d
  <2>1. UNCHANGED <<attempts, accepted>> /\ pushes' = [pushes EXCEPT ![j.rec] = @ + 1]
    BY DEF PushJob, sends
  <2> QED  BY SMT, <1>2, <2>1
<1>4. /\ j.retry \in 0..(MaxRetries + 1)
      /\ Cardinality(SendsLeft[j.retry]) \in Nat /\ Cardinality(SendsLeft[j.retry]) <= MaxRetries + 1
      /\ Cardinality(OneAcceptance[j.retry]) \in Nat /\ Cardinality(OneAcceptance[j.retry]) <= 1
  <2>1. j.retry \in 0..MaxRetries /\ j.retry \in 0..(MaxRetries + 1)
    BY ListFacts
  <2> QED  BY <2>1, CreditFacts
<1>5. /\ Counted(m, SendsLeft)' /\ Counted(m, OneAcceptance)'
      /\ Stock(m, SendsLeft)' = Stock(m, SendsLeft) + IF j.rec = m THEN Cardinality(SendsLeft[j.retry]) ELSE 0
      /\ Stock(m, OneAcceptance)' =
             Stock(m, OneAcceptance) + IF j.rec = m THEN Cardinality(OneAcceptance[j.retry]) ELSE 0
  BY <1>1, PushBrings
<1>6. Stock(m, SendsLeft) \in Nat /\ Stock(m, OneAcceptance) \in Nat
  BY <1>1, StockTypes
<1>7. /\ (pushes[m] + 1) * (MaxRetries + 1) = pushes[m] * (MaxRetries + 1) + (MaxRetries + 1)
      /\ (pushes[m] + 0) * (MaxRetries + 1) = pushes[m] * (MaxRetries + 1)
      /\ pushes[m] * (MaxRetries + 1) \in Nat
  BY SMT, <1>2
<1>8. attempts[m] + Stock(m, SendsLeft)' <= (pushes[m] + d) * (MaxRetries + 1)
  <2>0. MaxRetries + 1 \in Nat
    BY SMT, <1>2
  <2>1. CASE j.rec = m
    <3>1. Stock(m, SendsLeft)' = Stock(m, SendsLeft) + Cardinality(SendsLeft[j.retry]) /\ d = 1
      BY <1>5, <2>1
    <3>2. attempts[m] + (Stock(m, SendsLeft) + Cardinality(SendsLeft[j.retry]))
             <= pushes[m] * (MaxRetries + 1) + (MaxRetries + 1)
      BY <1>1, <1>2, <1>4, <1>6, <1>7, <2>0, WithinBound
    <3> QED  BY <1>7, <3>1, <3>2
  <2>2. CASE j.rec # m
    <3>1. Stock(m, SendsLeft)' = Stock(m, SendsLeft) + 0 /\ d = 0
      BY <1>5, <2>2
    <3>2. Stock(m, SendsLeft) + 0 = Stock(m, SendsLeft)
      BY SMT, <1>6
    <3> QED  BY <1>1, <1>7, <3>1, <3>2
  <2> QED  BY <2>1, <2>2
<1>9. accepted[m] + Stock(m, OneAcceptance)' <= pushes[m] + d
  <2>1. CASE j.rec = m
    <3>1. Stock(m, OneAcceptance)' = Stock(m, OneAcceptance) + Cardinality(OneAcceptance[j.retry]) /\ d = 1
      BY <1>5, <2>1
    <3> QED  BY SMT, <1>1, <1>2, <1>4, <1>6, <3>1
  <2>2. CASE j.rec # m
    <3>1. Stock(m, OneAcceptance)' = Stock(m, OneAcceptance) + 0 /\ d = 0
      BY <1>5, <2>2
    <3> QED  BY SMT, <1>1, <1>2, <1>6, <3>1
  <2> QED  BY <2>1, <2>2
<1> HIDE DEF d
<1> QED  BY <1>3, <1>5, <1>8, <1>9

(* A send adds to the sends, or to the acceptances, what it spends.        *)
LEMMA BalanceSend ==
    ASSUME TypeInv, TypeInv', BalanceInv, NEW w \in Workers, NEW o \in Outcomes, Send(w, o)
    PROVE  BalanceInv'
<1> SUFFICES ASSUME NEW m \in Records
             PROVE  (/\ Counted(m, SendsLeft) /\ Counted(m, OneAcceptance)
                     /\ attempts[m] + Stock(m, SendsLeft) <= pushes[m] * (MaxRetries + 1)
                     /\ accepted[m] + Stock(m, OneAcceptance) <= pushes[m])'
  BY DEF BalanceInv
<1> DEFINE here == IF Mine(w) = m THEN 1 ELSE 0
           good == IF Mine(w) = m /\ o = "accepted" THEN 1 ELSE 0
<1>1. /\ Counted(m, SendsLeft) /\ Counted(m, OneAcceptance)
      /\ attempts[m] + Stock(m, SendsLeft) <= pushes[m] * (MaxRetries + 1)
      /\ accepted[m] + Stock(m, OneAcceptance) <= pushes[m]
  BY DEF BalanceInv
<1>2. /\ attempts[m] \in Nat /\ accepted[m] \in Nat /\ pushes[m] \in Nat /\ MaxRetries \in Nat
      /\ attempts \in [Records -> Nat] /\ accepted \in [Records -> Nat]
  BY WorkerAssumption DEF WorkerAssumption, TypeInv, TypeOK
<1>3. pushes' = pushes /\ attempts'[m] = attempts[m] + here /\ accepted'[m] = accepted[m] + good
  <2>1. /\ UNCHANGED pushes /\ attempts' = [attempts EXCEPT ![Mine(w)] = @ + 1]
        /\ \/ o = "accepted" /\ accepted' = [accepted EXCEPT ![Mine(w)] = @ + 1]
           \/ o # "accepted" /\ accepted' = accepted
    BY DEF Send
  <2>2. attempts'[m] = attempts[m] + here
    BY SMT, <1>2, <2>1
  <2>3. accepted'[m] = accepted[m] + good
    BY SMT, <1>2, <2>1
  <2> QED  BY <2>1, <2>2, <2>3
<1>4. Counted(m, SendsLeft)' /\ here + Stock(m, SendsLeft)' <= Stock(m, SendsLeft)
  BY <1>1, SendSpends
<1>5. Counted(m, OneAcceptance)' /\ good + Stock(m, OneAcceptance)' <= Stock(m, OneAcceptance)
  BY <1>1, SendSpends
<1>6. /\ Stock(m, SendsLeft) \in Nat /\ Stock(m, SendsLeft)' \in Nat
      /\ Stock(m, OneAcceptance) \in Nat /\ Stock(m, OneAcceptance)' \in Nat
  BY <1>1, <1>4, <1>5, StockTypes
<1>7. here \in Nat /\ good \in Nat /\ pushes[m] * (MaxRetries + 1) \in Nat
  BY SMT, <1>2
<1> HIDE DEF here, good
<1>8. attempts[m] + here + Stock(m, SendsLeft)' <= pushes[m] * (MaxRetries + 1)
  BY SMT, <1>1, <1>2, <1>4, <1>6, <1>7
<1>9. accepted[m] + good + Stock(m, OneAcceptance)' <= pushes[m]
  BY SMT, <1>1, <1>2, <1>5, <1>6, <1>7
<1> QED  BY <1>3, <1>4, <1>5, <1>8, <1>9

(* Every state the worker can be in is balanced: the sends already made    *)
(* and those its jobs can still lead to were paid for by pushes.           *)
THEOREM Balanced == Spec => []BalanceInv
<1>1. Init => BalanceInv
  <2> SUFFICES ASSUME Init, NEW m \in Records
               PROVE  /\ Counted(m, SendsLeft) /\ Counted(m, OneAcceptance)
                      /\ attempts[m] + Stock(m, SendsLeft) <= pushes[m] * (MaxRetries + 1)
                      /\ accepted[m] + Stock(m, OneAcceptance) <= pushes[m]
    BY DEF BalanceInv
  <2>1. \A W : Listed(m, W) = {} /\ Timed(m, W) = {} /\ InHand(m, W) = {}
    <3> SUFFICES ASSUME NEW W PROVE Listed(m, W) = {} /\ Timed(m, W) = {} /\ InHand(m, W) = {}
      OBVIOUS
    <3>1. Listed(m, W) = {}
      BY SMT DEF Init, Listed
    <3>2. Timed(m, W) = {}
      <4>1. \A x \in Workers \X Jobs \X Nat : x[1] \in Workers /\ x[2] \in Jobs
        BY SMT
      <4>2. \A x \in Workers \X Jobs \X Nat : timers[x[1]][x[2]] = 0
        BY <4>1 DEF Init
      <4>3. 1..0 = {}
        BY SMT
      <4>4. \A y \in (Workers \X Jobs \X Nat) \X Nat : y[1] \in Workers \X Jobs \X Nat
        BY SMT
      <4> QED  BY <4>2, <4>3, <4>4 DEF Timed
    <3>3. InHand(m, W) = {}
      <4>1. \A x \in Workers \X Nat : x[1] \in Workers
        BY SMT
      <4> QED  BY <4>1 DEF Init, InHand, Credits
    <3> QED  BY <3>1, <3>2, <3>3
  <2>2. IsFiniteSet({}) /\ Cardinality({}) = 0
    BY FS_EmptySet
  <2>3. \A W : Counted(m, W) /\ Stock(m, W) = 0 + 0 + 0
    BY <2>1, <2>2 DEF Counted, Stock
  <2>4. attempts[m] = 0 /\ accepted[m] = 0 /\ pushes[m] = 0 /\ MaxRetries \in Nat
    BY WorkerAssumption DEF Init, WorkerAssumption
  <2> QED  BY SMT, <2>3, <2>4
<1>2. TypeInv /\ TypeInv' /\ BalanceInv /\ [Next]_vars => BalanceInv'
  <2> SUFFICES ASSUME TypeInv, TypeInv', BalanceInv, [Next]_vars PROVE BalanceInv'
    OBVIOUS
  <2>1. ASSUME UNCHANGED <<worker, attempts, accepted, pushes>> PROVE BalanceInv'
    <3>1. \A m \in Records, W \in {SendsLeft, OneAcceptance} : Counted(m, W) => Leaner(m, W)
      <4> SUFFICES ASSUME NEW m \in Records, NEW W \in {SendsLeft, OneAcceptance}, Counted(m, W)
                   PROVE  Leaner(m, W)
        OBVIOUS
      <4>1. Listed(m, W)' = Listed(m, W) /\ Timed(m, W)' = Timed(m, W) /\ InHand(m, W)' = InHand(m, W)
        BY <2>1, SamePlaces DEF worker
      <4>2. Counted(m, W)' /\ Stock(m, W)' = Stock(m, W)
        BY <4>1 DEF Counted, Stock
      <4>3. Stock(m, W) \in Nat
        BY StockTypes
      <4>4. Stock(m, W) <= Stock(m, W)
        BY SMT, <4>3
      <4> QED  BY <4>2, <4>4 DEF Leaner
    <3> QED  BY <2>1, <3>1, BalanceKept
  <2>2. ASSUME NEW m \in Records, Issue(m) \/ Withdraw(m) PROVE BalanceInv'
    BY <2>1, <2>2 DEF Issue, Withdraw, history, sends
  <2>3. ASSUME NEW j \in Jobs, PushJob(j) PROVE BalanceInv'
    BY <2>3, BalancePush
  <2>4. ASSUME NEW w \in Workers, NEW o \in Outcomes, Send(w, o) PROVE BalanceInv'
    BY <2>4, BalanceSend
  <2>5. ASSUME NEW w \in Workers,
               \/ Dequeue(w) \/ SoftBounceRetry(w) \/ Crash(w) \/ \E j \in Jobs : RetryFires(w, j)
        PROVE  BalanceInv'
    <3>1. UNCHANGED <<attempts, accepted, pushes>>
      BY <2>5 DEF Dequeue, SoftBounceRetry, MarkBounced, Crash, RetryFires, history, sends
    <3> QED  BY <2>5, <3>1, DequeueMoves, RetryMoves, CrashLoses, FiringMoves, BalanceKept DEF Leaner
  <2>6. ASSUME NEW w \in Workers,
               \/ HandleJob(w) \/ MarkSent(w) \/ MarkFailed(w) \/ MarkBouncedMissing(w)
               \/ HardBounce(w) \/ SoftBounceExceeded(w) \/ Blacklist(w) \/ GiveUp(w)
        PROVE  BalanceInv'
    <3>1. UNCHANGED <<attempts, accepted, pushes>>
      BY <2>6 DEF HandleJob, MarkSent, MarkFailed, MarkBouncedMissing, HardBounce, SoftBounceExceeded,
                  MarkBounced, Blacklist, GiveUp, history, sends
    <3>2. \A m \in Records, W \in {SendsLeft, OneAcceptance} : Counted(m, W) => Leaner(m, W)
      BY <2>6, HandLoses DEF Leaner
    <3> QED  BY <3>1, <3>2, BalanceKept
  <2>7. ASSUME NEW h \in Hooks, NEW p, HookLookup(h, p) PROVE BalanceInv'
    BY <2>1, <2>7 DEF HookLookup, history, sends
  <2>8. ASSUME NEW h \in Hooks, HookStep(h) \/ HookFails(h) PROVE BalanceInv'
    BY <2>1, <2>8 DEF HookStep, HookCheck, HookApply, HookFails, history, sends
  <2>9. CASE UNCHANGED vars
    BY <2>1, <2>9 DEF vars, history, sends
  <2>10. ASSUME NEW m \in Records, Push(m) PROVE BalanceInv'
    BY <2>3, <2>10, JobFacts DEF Push
  <2>11. ASSUME NEW w \in Workers, NEW j \in Jobs, RetryRepeated(w, j) PROVE BalanceInv'
    BY <2>3, <2>11 DEF RetryRepeated
  <2> QED  BY <2>2, <2>4, <2>5, <2>6, <2>7, <2>8, <2>9, <2>10, <2>11 DEF Next, WorkerStep
<1>3. WorkerInv => TypeInv
  BY DEF WorkerInv
<1> QED  BY <1>1, <1>2, <1>3, Invariance, PTL DEF Spec

(* Soft bounces are retried a bounded number of times, whatever the faults *)
(* and however many workers: no interleaving of retries, crashes and lost  *)
(* pushes sends a job more often than MaxRetries + 1 times per push.       *)
THEOREM RetriesStayBounded == Spec => []RetriesBounded
<1>1. TypeInv /\ BalanceInv => RetriesBounded
  <2> SUFFICES ASSUME TypeInv, BalanceInv, NEW m \in Records
               PROVE  attempts[m] <= pushes[m] * (MaxRetries + 1)
    BY DEF RetriesBounded
  <2>1. Counted(m, SendsLeft) /\ attempts[m] + Stock(m, SendsLeft) <= pushes[m] * (MaxRetries + 1)
    BY DEF BalanceInv
  <2>2. Stock(m, SendsLeft) \in Nat /\ attempts[m] \in Nat /\ pushes[m] \in Nat /\ MaxRetries \in Nat
    BY <2>1, StockTypes, WorkerAssumption DEF WorkerAssumption, TypeInv, TypeOK
  <2>3. pushes[m] * (MaxRetries + 1) \in Nat
    BY SMT, <2>2
  <2> QED  BY SMT, <2>1, <2>2, <2>3
<1>2. WorkerInv => TypeInv
  BY DEF WorkerInv
<1> QED  BY <1>1, <1>2, Invariance, Balanced, PTL

(* An accepted mail is never sent again for the same push, also when       *)
(* recording the success fails or the process dies before it.              *)
THEOREM AcceptancesBounded == Spec => []AcceptedOncePerPush
<1>1. TypeInv /\ BalanceInv => AcceptedOncePerPush
  <2> SUFFICES ASSUME TypeInv, BalanceInv, NEW m \in Records PROVE accepted[m] <= pushes[m]
    BY DEF AcceptedOncePerPush
  <2>1. Counted(m, OneAcceptance) /\ accepted[m] + Stock(m, OneAcceptance) <= pushes[m]
    BY DEF BalanceInv
  <2>2. Stock(m, OneAcceptance) \in Nat /\ accepted[m] \in Nat /\ pushes[m] \in Nat
    BY <2>1, StockTypes DEF TypeInv, TypeOK
  <2> QED  BY SMT, <2>1, <2>2
<1>2. WorkerInv => TypeInv
  BY DEF WorkerInv
<1> QED  BY <1>1, <1>2, Invariance, Balanced, PTL
=============================================================================
