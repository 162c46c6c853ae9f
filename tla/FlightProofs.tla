---------------------------- MODULE FlightProofs ----------------------------
(***************************************************************************)
(* Theorems about SingleFlight and its reconciliation loop, for any number *)
(* of jobs, workers, keys and requests: with every caller inside the write *)
(* lock, nobody waits in vain, no flight outlives its work, no work is     *)
(* left for nobody, and SharedResult is implemented; with the loop beside  *)
(* them, no result is untrue or taken back.                                *)
(*                                                                         *)
(* The argument rests on JobQueueProofs: every step here is a step of the  *)
(* queues.  A step is then one of five kinds, whatever transaction it is:  *)
(* it reconciles the jobs it changed, leaves open what is open, joins or   *)
(* opens a flight, or withdraws a subscriber.                              *)
(***************************************************************************)
EXTENDS MCFlights, JobQueueProofs

\* A row in one step: it does not vanish, and it is open and not cancelled
\* only if it was.
Keeps(r, s) ==
  /\ r.status # "NONE" => s.status # "NONE"
  /\ s.status \in Active /\ ~s.cancel => r.status \in Active /\ ~r.cancel

\* An upload may also begin, out of a download that was wanted.
RowsKept ==
  \A j \in Job :
    /\ Keeps(dl[j], dl'[j])
    /\ \/ Keeps(up[j], up'[j])
       \/ dl[j].status \in Active /\ ~dl[j].cancel

\* Nothing but a heartbeat or the clock touched the row.
SameFate(r, s) == s.status = r.status /\ s.cancel = r.cancel

OpenStays ==
  \A j \in Job : Outcome(dl[j], up[j]) = "WAITING" => Outcome(dl'[j], up'[j]) = "WAITING"

RowsStay(S) == \A j \in Job \ S : dl'[j] = dl[j] /\ up'[j] = up[j]

\* The jobs a transaction changed are among those it reconciles.  A startup
\* that is interrupted leaves the rest to the next one.
Reconciles(S) ==
  /\ S \subseteq Job
  /\ RowsKept
  /\ mode' # "down" => S = Job \/ (mode # "down" /\ RowsStay(S))

Quiet ==
  /\ RowsKept /\ OpenStays
  /\ mode' # "down" => mode # "down"

-----------------------------------------------------------------------------
(* Rows.                                                                   *)

LEMMA KeepsSame == \A r : Keeps(r, r)
  BY DEF Keeps

LEMMA KeepsTrans ==
  ASSUME NEW r, NEW s, NEW t, Keeps(r, s), Keeps(s, t)
  PROVE  Keeps(r, t)
  BY DEF Keeps

LEMMA KeepsFate ==
  ASSUME NEW r, NEW s, SameFate(r, s)
  PROVE  Keeps(r, s)
  BY DEF Keeps, SameFate

LEMMA KeepsFailed ==
  ASSUME NEW W, NEW r \in Row(W)
  PROVE  Keeps(r, Failed(r))
  BY DEF Keeps, Failed, Ended, Row, Active

LEMMA KeepsEnded ==
  ASSUME NEW W, NEW r \in Row(W)
  PROVE  Keeps(r, Ended(r, "SUCCEEDED"))
  BY DEF Keeps, Ended, Row, Active

LEMMA KeepsRequeued ==
  ASSUME NEW W, NEW r \in Row(W), NEW backoff \in BOOLEAN, r.status \in Active
  PROVE  Keeps(r, Requeued(r, backoff))
  BY DEF Keeps, Requeued, Row, Active

LEMMA KeepsLeased ==
  ASSUME NEW W, NEW r \in Row(W), r.status \in Active, NEW w
  PROVE  Keeps(r, Leased(r, w))
  BY DEF Keeps, Leased, Row, Active

LEMMA KeepsCancelled ==
  ASSUME NEW W, NEW r \in Row(W)
  PROVE  Keeps(r, CancelRequested(r))
<1>1. CASE r.status = "QUEUED"
  BY <1>1 DEF Keeps, CancelRequested, Ended, Row, Active
<1>2. CASE r.status = "RUNNING"
  BY <1>2 DEF Keeps, CancelRequested, Row, Active
<1>3. CASE r.status \notin {"QUEUED", "RUNNING"}
  <2>1. CancelRequested(r) = r
    BY <1>3 DEF CancelRequested
  <2>2. QED
    BY <2>1, KeepsSame
<1>4. QED
  BY <1>1, <1>2, <1>3

LEMMA CancelRecorded ==
  ASSUME NEW W, NEW r \in Row(W), r.status \in Active
  PROVE  CancelRequested(r).cancel = TRUE
<1>1. CASE r.status = "QUEUED"
  BY <1>1 DEF CancelRequested, Ended, Row
<1>2. CASE r.status = "RUNNING"
  BY <1>2 DEF CancelRequested, Row
<1>3. QED
  BY <1>1, <1>2 DEF Active

LEMMA KeepsRecovered ==
  ASSUME NEW W, NEW r \in Row(W), NEW max
  PROVE  Keeps(r, Recovered(r, max))
  BY KeepsSame, KeepsFailed, KeepsRequeued DEF Recovered, Active

LEMMA KeepsSettled ==
  ASSUME NEW W, NEW r \in Row(W), NEW w, NEW max, NEW retryable
  PROVE  Keeps(r, Settled(r, w, max, retryable))
  BY KeepsSame, KeepsFailed, KeepsRequeued DEF Settled, Owned, Active

LEMMA KeepsStartup ==
  ASSUME NEW W, NEW r \in Row(W), NEW cached, NEW present
  PROVE  Keeps(r, StartupRow(r, cached, present))
  BY KeepsSame, KeepsFailed, KeepsEnded DEF StartupRow

LEMMA FateOfOutcome ==
  ASSUME NEW d, NEW u, NEW e, NEW v, SameFate(d, e), SameFate(u, v)
  PROVE  Outcome(e, v) = Outcome(d, u)
  BY DEF SameFate, Outcome, UploadOutcome

\* What an outcome says about the rows.
LEMMA OutcomeCases ==
  ASSUME NEW d, NEW u
  PROVE  /\ Outcome(d, u) \in {"WAITING", "READY", "FAILED", "CANCELLED"}
         /\ Outcome(d, u) = "READY" => u.status = "SUCCEEDED"
         /\ d.status \in Active /\ ~d.cancel => Outcome(d, u) = "WAITING"
         /\ d.status = "SUCCEEDED" /\ ~d.cancel /\ u.status \in Active /\ ~u.cancel
              => Outcome(d, u) = "WAITING"
  BY DEF Outcome, UploadOutcome, Active
-----------------------------------------------------------------------------
(* The steps of the queues, seen by a flight.                              *)

LEMMA Typed ==
  ASSUME IInv
  PROVE  /\ dl \in [Job -> Row(DownloadWorker)] /\ up \in [Job -> Row(UploadWorker)]
         /\ \A j \in Job : dl[j] \in Row(DownloadWorker) /\ up[j] \in Row(UploadWorker)
  BY DEF IInv, TypeOK

LEMMA SameRows ==
  ASSUME UNCHANGED <<dl, up>>
  PROVE  RowsKept /\ OpenStays /\ \A S : RowsStay(S)
  BY KeepsSame DEF RowsKept, OpenStays, RowsStay

LEMMA DownloadRow ==
  ASSUME IInv, NEW j \in Job, NEW r, Keeps(dl[j], r),
         dl' = [dl EXCEPT ![j] = r], up' = up
  PROVE  RowsKept /\ RowsStay({j})
<1>1. \A i \in Job : dl'[i] = IF i = j THEN r ELSE dl[i]
  BY Typed
<1>2. QED
  BY <1>1, KeepsSame DEF RowsKept, RowsStay

LEMMA UploadRow ==
  ASSUME IInv, NEW j \in Job, NEW r, Keeps(up[j], r),
         up' = [up EXCEPT ![j] = r], dl' = dl
  PROVE  RowsKept /\ RowsStay({j})
<1>1. \A i \in Job : up'[i] = IF i = j THEN r ELSE up[i]
  BY Typed
<1>2. QED
  BY <1>1, KeepsSame DEF RowsKept, RowsStay

LEMMA SameFates ==
  ASSUME \A j \in Job : SameFate(dl[j], dl'[j]) /\ SameFate(up[j], up'[j])
  PROVE  RowsKept /\ OpenStays
  BY KeepsFate, FateOfOutcome DEF RowsKept, OpenStays

LEMMA ExpiryStep ==
  ASSUME IInv, NEW j \in Job,
         \/ LeaseExpires(j) \/ BackoffElapses(j)
  PROVE  RowsKept /\ OpenStays
<1>1. ASSUME NEW r, SameFate(dl[j], r), dl' = [dl EXCEPT ![j] = r] /\ up' = up
      PROVE  RowsKept /\ OpenStays
  BY <1>1, Typed, SameFates DEF SameFate
<1>2. ASSUME NEW r, SameFate(up[j], r), up' = [up EXCEPT ![j] = r] /\ dl' = dl
      PROVE  RowsKept /\ OpenStays
  BY <1>2, Typed, SameFates DEF SameFate
<1>3. /\ SameFate(dl[j], [dl[j] EXCEPT !.expired = TRUE])
      /\ SameFate(up[j], [up[j] EXCEPT !.expired = TRUE])
      /\ SameFate(dl[j], [dl[j] EXCEPT !.delayed = FALSE])
      /\ SameFate(up[j], [up[j] EXCEPT !.delayed = FALSE])
  BY Typed DEF SameFate, Row
<1>4. CASE LeaseExpires(j)
  BY <1>1, <1>2, <1>3, <1>4 DEF LeaseExpires
<1>5. CASE BackoffElapses(j)
  BY <1>1, <1>2, <1>3, <1>5 DEF BackoffElapses
<1>6. QED
  BY <1>4, <1>5

LEMMA HeartbeatStep ==
  ASSUME IInv,
         \/ \E w \in DownloadWorker : HeartbeatDownload(w)
         \/ \E w \in UploadWorker : HeartbeatUpload(w)
  PROVE  RowsKept /\ OpenStays
<1>1. \A i \in Job : SameFate(dl[i], dl'[i]) /\ SameFate(up[i], up'[i])
  <2>1. ASSUME NEW w \in DownloadWorker, HeartbeatDownload(w)
        PROVE  \A i \in Job : SameFate(dl[i], dl'[i]) /\ SameFate(up[i], up'[i])
    BY <2>1, Typed, BusyWorker DEF HeartbeatDownload, SameFate, Row
  <2>2. ASSUME NEW w \in UploadWorker, HeartbeatUpload(w)
        PROVE  \A i \in Job : SameFate(dl[i], dl'[i]) /\ SameFate(up[i], up'[i])
    BY <2>2, Typed, BusyWorker DEF HeartbeatUpload, SameFate, Row
  <2>3. QED
    BY <2>1, <2>2
<1>2. QED
  BY <1>1, SameFates

LEMMA HandoffKept ==
  ASSUME IInv, NEW w \in DownloadWorker, HandoffCommit(w)
  PROVE  RowsKept /\ OpenStays
<1> DEFINE j == dWork[w].job
<1>1. j \in Job
  BY BusyWorker DEF HandoffCommit
<1>2. /\ \A i \in Job : i # j => dl'[i] = dl[i] /\ up'[i] = up[i]
      /\ dl'[j] = Ended(dl[j], "SUCCEEDED") /\ up'[j] = NewRow
      /\ dl[j].status = "RUNNING" /\ ~dl[j].cancel
  BY <1>1, Typed DEF HandoffCommit, HandoffAccepted, Owned
<1>3. RowsKept
  BY <1>1, <1>2, Typed, KeepsSame, KeepsEnded DEF RowsKept, Active
<1>4. Outcome(dl'[j], up'[j]) = "WAITING"
  BY <1>1, <1>2, Typed DEF Outcome, UploadOutcome, Ended, NewRow, NoRow, Active, Row
<1>5. QED
  BY <1>2, <1>3, <1>4 DEF OpenStays

LEMMA ClaimDownloadKept ==
  ASSUME IInv, NEW w \in DownloadWorker, ClaimDownload(w)
  PROVE  RowsKept
<1> DEFINE rec == RecoveredRows(dl, DownloadMax)
<1>1. \A j \in Job : rec[j] = Recovered(dl[j], DownloadMax) /\ Keeps(dl[j], rec[j])
  BY Typed, KeepsRecovered DEF RecoveredRows
<1>2. up' = up
  BY DEF ClaimDownload
<1>3. CASE dl' = rec
  BY <1>1, <1>2, <1>3, KeepsSame DEF RowsKept
<1>4. ASSUME NEW j \in Due(rec), dl' = [rec EXCEPT ![j] = Leased(@, w)]
      PROVE  RowsKept
  <2>1. j \in Job /\ rec[j].status \in Active
    BY <1>4 DEF Due, Active
  <2>2. rec[j] \in Row(DownloadWorker)
    BY <2>1, RowsSound, TableRecovered, MaxNat DEF GoodTable
  <2>3. Keeps(dl[j], Leased(rec[j], w))
    BY <1>1, <2>1, <2>2, KeepsLeased, KeepsTrans
  <2>4. \A i \in Job : dl'[i] = IF i = j THEN Leased(rec[j], w) ELSE rec[i]
    BY <1>4, <2>1 DEF RecoveredRows
  <2>5. QED
    BY <1>1, <1>2, <2>3, <2>4, KeepsSame DEF RowsKept
<1>5. QED
  BY <1>3, <1>4 DEF ClaimDownload, First

LEMMA ClaimUploadKept ==
  ASSUME IInv, NEW w \in UploadWorker, ClaimUpload(w)
  PROVE  RowsKept
<1> DEFINE rec == RecoveredRows(up, UploadMax)
<1>1. \A j \in Job : rec[j] = Recovered(up[j], UploadMax) /\ Keeps(up[j], rec[j])
  BY Typed, KeepsRecovered DEF RecoveredRows
<1>2. dl' = dl
  BY DEF ClaimUpload
<1>3. CASE up' = rec
  BY <1>1, <1>2, <1>3, KeepsSame DEF RowsKept
<1>4. ASSUME NEW j \in Due(rec), up' = [rec EXCEPT ![j] = Leased(@, w)]
      PROVE  RowsKept
  <2>1. j \in Job /\ rec[j].status \in Active
    BY <1>4 DEF Due, Active
  <2>2. rec[j] \in Row(UploadWorker)
    BY <2>1, RowsSound, TableRecovered, MaxNat DEF GoodTable
  <2>3. Keeps(up[j], Leased(rec[j], w))
    BY <1>1, <2>1, <2>2, KeepsLeased, KeepsTrans
  <2>4. \A i \in Job : up'[i] = IF i = j THEN Leased(rec[j], w) ELSE rec[i]
    BY <1>4, <2>1 DEF RecoveredRows
  <2>5. QED
    BY <1>1, <1>2, <2>3, <2>4, KeepsSame DEF RowsKept
<1>5. QED
  BY <1>3, <1>4 DEF ClaimUpload, First

LEMMA QuietDownload ==
  ASSUME IInv, NEW w \in DownloadWorker,
         \/ HeartbeatDownload(w) \/ DownloadReturns(w) \/ DownloadErrors(w)
         \/ ResultInvalid(w) \/ Handoff(w) \/ HandoffFails(w)
         \/ InterruptDownload(w) \/ AbandonDownload(w)
  PROVE  Quiet
<1>1. mode' = mode
  BY DEF HeartbeatDownload, DownloadReturns, DownloadErrors, ResultInvalid, Handoff,
         HandoffFails, InterruptDownload, AbandonDownload, process
<1>2. CASE Handoff(w)
  BY <1>1, <1>2, HandoffKept DEF Handoff, Quiet
<1>3. CASE HeartbeatDownload(w)
  BY <1>1, <1>3, HeartbeatStep DEF Quiet
<1>4. CASE \/ DownloadReturns(w) \/ DownloadErrors(w) \/ ResultInvalid(w)
           \/ HandoffFails(w) \/ InterruptDownload(w) \/ AbandonDownload(w)
  <2>1. UNCHANGED <<dl, up>>
    BY <1>4 DEF DownloadReturns, DownloadErrors, ResultInvalid, HandoffFails,
                InterruptDownload, AbandonDownload, rows
  <2>2. QED
    BY <1>1, <2>1, SameRows DEF Quiet
<1>5. QED
  BY <1>2, <1>3, <1>4

LEMMA QuietUpload ==
  ASSUME IInv, NEW w \in UploadWorker,
         \/ HeartbeatUpload(w) \/ StartUpload(w) \/ UploadReturns(w)
         \/ UploadErrors(w) \/ UploadCommitFails(w) \/ InterruptUpload(w)
         \/ AbandonUpload(w)
  PROVE  Quiet
<1>1. mode' = mode
  BY DEF HeartbeatUpload, StartUpload, UploadReturns, UploadErrors, UploadCommitFails,
         InterruptUpload, AbandonUpload, process
<1>2. CASE HeartbeatUpload(w)
  BY <1>1, <1>2, HeartbeatStep DEF Quiet
<1>3. CASE \/ StartUpload(w) \/ UploadReturns(w) \/ UploadErrors(w)
           \/ UploadCommitFails(w) \/ InterruptUpload(w) \/ AbandonUpload(w)
  <2>1. UNCHANGED <<dl, up>>
    BY <1>3 DEF StartUpload, UploadReturns, UploadErrors, UploadCommitFails,
                InterruptUpload, AbandonUpload, rows
  <2>2. QED
    BY <1>1, <2>1, SameRows DEF Quiet
<1>4. QED
  BY <1>2, <1>3

LEMMA QuietOther ==
  ASSUME IInv,
         \/ ClockStep \/ StopDownloads \/ StopUploads \/ Exit \/ Crash
         \/ \E j \in Job, u \in User : Attribute(j, u)
         \/ UNCHANGED vars
  PROVE  Quiet
<1>1. mode' # "down" => mode # "down"
  BY DEF ClockStep, LeaseExpires, BackoffElapses, StopDownloads, StopUploads, Exit, Crash,
         Attribute, vars, process
<1>2. CASE ClockStep
  BY <1>1, <1>2, ExpiryStep DEF ClockStep, Quiet
<1>3. CASE \/ StopDownloads \/ StopUploads \/ Exit \/ Crash
           \/ \E j \in Job, u \in User : Attribute(j, u)
           \/ UNCHANGED vars
  <2>1. UNCHANGED <<dl, up>>
    BY <1>3 DEF StopDownloads, StopUploads, Exit, Crash, Attribute, vars, rows
  <2>2. QED
    BY <1>1, <2>1, SameRows DEF Quiet
<1>4. QED
  BY <1>2, <1>3

LEMMA CancelKept ==
  ASSUME IInv, NEW j \in Job, CancelDownload(j) \/ CancelUpload(j)
  PROVE  RowsKept /\ RowsStay({j}) /\ mode # "down" /\ mode' = mode
<1>1. CASE CancelDownload(j)
  BY <1>1, Typed, KeepsCancelled, DownloadRow DEF CancelDownload, process
<1>2. CASE CancelUpload(j)
  BY <1>2, Typed, KeepsCancelled, UploadRow DEF CancelUpload, process
<1>3. QED
  BY <1>1, <1>2

LEMMA ClaimsReconcile ==
  ASSUME IInv,
         \/ \E w \in DownloadWorker : ClaimDownload(w)
         \/ \E w \in UploadWorker : ClaimUpload(w)
  PROVE  Reconciles(Job)
  BY ClaimDownloadKept, ClaimUploadKept DEF Reconciles

LEMMA SettleDownloadReconciles ==
  ASSUME IInv, NEW w \in DownloadWorker, SettleDownload(w)
  PROVE  Reconciles({dWork[w].job})
<1> DEFINE j == dWork[w].job
           r == Settled(dl[j], w, DownloadMax, dWork[w].phase = "retrying")
<1>1. j \in Job
  BY BusyWorker DEF SettleDownload
<1>2. Keeps(dl[j], r)
  BY <1>1, Typed, KeepsSettled
<1>3. dl' = [dl EXCEPT ![j] = r] /\ up' = up /\ mode' = mode
  BY DEF SettleDownload, process
<1>4. RowsKept /\ RowsStay({j})
  BY <1>1, <1>2, <1>3, DownloadRow
<1>5. QED
  BY <1>1, <1>3, <1>4 DEF Reconciles

LEMMA UploadEndReconciles ==
  ASSUME IInv, NEW w \in UploadWorker,
         UploadSucceeds(w) \/ UploadRefused(w) \/ SettleUpload(w)
  PROVE  Reconciles({uWork[w].job})
<1> DEFINE j == uWork[w].job
           r == Settled(up[j], w, UploadMax, uWork[w].phase = "retrying")
<1>1. j \in Job /\ mode' = mode /\ dl' = dl
  BY BusyWorker DEF UploadSucceeds, UploadRefused, SettleUpload, process, rows
<1>2. CASE SettleUpload(w)
  <2>1. up' = [up EXCEPT ![j] = r]
    BY <1>2 DEF SettleUpload
  <2>2. Keeps(up[j], r)
    BY <1>1, Typed, KeepsSettled
  <2>3. QED
    BY <1>1, <2>1, <2>2, UploadRow DEF Reconciles
<1>3. CASE UploadSucceeds(w)
  <2>1. up' = [up EXCEPT ![j] = Ended(up[j], "SUCCEEDED")]
    BY <1>3 DEF UploadSucceeds
  <2>2. Keeps(up[j], Ended(up[j], "SUCCEEDED"))
    BY <1>1, Typed, KeepsEnded
  <2>3. QED
    BY <1>1, <2>1, <2>2, UploadRow DEF Reconciles
<1>4. CASE UploadRefused(w)
  <2>1. UNCHANGED <<dl, up>>
    BY <1>4 DEF UploadRefused, rows
  <2>2. QED
    BY <1>1, <2>1, SameRows DEF Reconciles
<1>5. QED
  BY <1>2, <1>3, <1>4

LEMMA RestartReconciles ==
  ASSUME IInv, NEW cached, NEW seen \in SUBSET Job, Restart(cached, seen)
  PROVE  \A S \in SUBSET Job : (mode' = "up" => S = Job) => Reconciles(S)
<1> DEFINE rec == RecoveredRows(up, UploadMax)
           new(j) == IF j \in seen
                     THEN StartupRow(rec[j], j \in cached, Dir(j) \in disk) ELSE rec[j]
<1>1. \A j \in Job : rec[j] \in Row(UploadWorker) /\ Keeps(up[j], rec[j])
  <2>1. \A j \in Job : rec[j] = Recovered(up[j], UploadMax)
    BY DEF RecoveredRows
  <2>2. QED
    BY <2>1, Typed, KeepsRecovered, RowsSound, TableRecovered, MaxNat DEF GoodTable
<1>2. \A j \in Job : Keeps(rec[j], new(j))
  BY <1>1, KeepsStartup, KeepsSame
<1>3. \A j \in Job : Keeps(up[j], new(j))
  BY <1>1, <1>2, KeepsTrans
<1>4. up' = [j \in Job |-> new(j)] /\ dl' = RecoveredRows(dl, DownloadMax)
  BY DEF Restart
<1>5. \A j \in Job : up'[j] = new(j)
  BY <1>4
<1>6. \A j \in Job : Keeps(dl[j], dl'[j])
  BY <1>4, Typed, KeepsRecovered DEF RecoveredRows
<1>7. mode' \in {"up", "down"}
  BY DEF Restart
<1>8. QED
  BY <1>3, <1>5, <1>6, <1>7 DEF Reconciles, RowsKept

-----------------------------------------------------------------------------
(* The five kinds of step.                                                 *)

Settles == \E S \in SUBSET Job : Reconciles(S) /\ Reconcile(S)
Rests == Quiet /\ UNCHANGED admission
Joins == \E r \in Request, k \in Key : JoinFlight(r, k)
Opens == \E r \in Request, k \in Key, j \in Job : OpenFlight(r, k, j)
Withdraws == \E j \in Job, r \in Request : CancelSubscriber(j, r)

Kinds == Settles \/ Rests \/ Joins \/ Opens \/ Withdraws

LEMMA UserKinds ==
  ASSUME IInv, SFUserStep
  PROVE  [Next]_vars /\ Kinds
<1>1. CASE \E r \in Request, k \in Key : JoinFlight(r, k)
  BY <1>1 DEF JoinFlight, Kinds, Joins
<1>2. CASE \E r \in Request, k \in Key, j \in Job : OpenFlight(r, k, j)
  <2>1. Opens
    BY <1>2 DEF Opens
  <2>2. \E j \in Job : Submit(j)
    BY <1>2 DEF OpenFlight
  <2>3. QED
    BY <2>1, <2>2 DEF Kinds, Next, UserStep
<1>3. CASE \E j \in Job, r \in Request : CancelSubscriber(j, r)
  <2>1. Withdraws
    BY <1>3 DEF Withdraws
  <2>2. UNCHANGED vars \/ \E j \in Job : CancelDownload(j) \/ CancelUpload(j)
    BY <1>3 DEF CancelSubscriber, WithdrawLast
  <2>3. QED
    BY <2>1, <2>2 DEF Kinds, Next, UserStep
<1>4. ASSUME NEW j \in Job, CancelJob(j)
      PROVE  [Next]_vars /\ Kinds
  <2>1. Reconciles({j}) /\ Reconcile({j})
    BY <1>4, CancelKept DEF CancelJob, Reconciles
  <2>2. QED
    BY <1>4, <2>1 DEF CancelJob, Kinds, Settles, Next, UserStep
<1>5. CASE \E j \in Job, u \in User : Attribute(j, u) /\ UNCHANGED admission
  BY <1>5, QuietOther DEF Kinds, Rests, Next, UserStep
<1>6. QED
  BY <1>1, <1>2, <1>3, <1>4, <1>5 DEF SFUserStep

LEMMA DownloadKinds ==
  ASSUME IInv, NEW w \in DownloadWorker, SFDownloadStep(w)
  PROVE  [Next]_vars /\ Kinds
<1>1. [Next]_vars
  BY DEF SFDownloadStep, Next, DownloadWorkerStep
<1>2. Kinds
  <2>1. CASE ClaimDownload(w) /\ Reconcile(Job)
    BY <2>1, ClaimsReconcile DEF Kinds, Settles
  <2>2. CASE SettleDownload(w) /\ Reconcile({dWork[w].job})
    <3>1. dWork[w].job \in Job
      BY <2>2, BusyWorker DEF SettleDownload
    <3>2. QED
      BY <2>2, <3>1, SettleDownloadReconciles DEF Kinds, Settles
  <2>3. CASE ~(ClaimDownload(w) /\ Reconcile(Job))
             /\ ~(SettleDownload(w) /\ Reconcile({dWork[w].job}))
    BY <2>3, QuietDownload DEF SFDownloadStep, Kinds, Rests
  <2>4. QED
    BY <2>1, <2>2, <2>3
<1>3. QED
  BY <1>1, <1>2

LEMMA UploadKinds ==
  ASSUME IInv, NEW w \in UploadWorker, SFUploadStep(w)
  PROVE  [Next]_vars /\ Kinds
<1>1. [Next]_vars
  BY DEF SFUploadStep, Next, UploadWorkerStep
<1>2. Kinds
  <2>1. CASE ClaimUpload(w) /\ Reconcile(Job)
    BY <2>1, ClaimsReconcile DEF Kinds, Settles
  <2>2. CASE /\ UploadSucceeds(w) \/ UploadRefused(w) \/ SettleUpload(w)
             /\ Reconcile({uWork[w].job})
    <3>1. uWork[w].job \in Job
      BY <2>2, BusyWorker DEF UploadSucceeds, UploadRefused, SettleUpload
    <3>2. QED
      BY <2>2, <3>1, UploadEndReconciles DEF Kinds, Settles
  <2>3. CASE /\ ~(ClaimUpload(w) /\ Reconcile(Job))
             /\ ~((UploadSucceeds(w) \/ UploadRefused(w) \/ SettleUpload(w))
                    /\ Reconcile({uWork[w].job}))
    BY <2>3, QuietUpload DEF SFUploadStep, Kinds, Rests
  <2>4. QED
    BY <2>1, <2>2, <2>3
<1>3. QED
  BY <1>1, <1>2

LEMMA ProcessKinds ==
  ASSUME IInv, SFProcessStep
  PROVE  [Next]_vars /\ Kinds
<1>1. CASE (StopDownloads \/ StopUploads \/ Exit \/ Crash) /\ UNCHANGED admission
  BY <1>1, QuietOther DEF Next, ProcessStep, Kinds, Rests
<1>2. ASSUME NEW cached \in SUBSET Job, NEW seen \in SUBSET Job, SFRestart(cached, seen)
      PROVE  [Next]_vars /\ Kinds
  <2> DEFINE S == IF mode' = "up" THEN Job
                  ELSE {j \in seen : up'[j] # Recovered(up[j], UploadMax)}
  <2>1. S \in SUBSET Job /\ (mode' = "up" => S = Job) /\ Reconcile(S)
    BY <1>2 DEF SFRestart
  <2>2. Restart(cached, seen)
    BY <1>2 DEF SFRestart
  <2>3. Settles
    BY <2>1, <2>2, RestartReconciles DEF Settles
  <2>4. QED
    BY <2>2, <2>3 DEF Next, ProcessStep, Kinds
<1>3. QED
  BY <1>1, <1>2 DEF SFProcessStep

LEMMA StepKinds ==
  ASSUME IInv, [SFNext]_sfvars
  PROVE  IInv' /\ RowsEvolve /\ Kinds
<1>1. [Next]_vars /\ Kinds
  <2>1. CASE SFUserStep
    BY <2>1, UserKinds
  <2>2. CASE ClockStep /\ UNCHANGED admission
    BY <2>2, QuietOther DEF Next, Kinds, Rests
  <2>3. CASE \E w \in DownloadWorker : SFDownloadStep(w)
    BY <2>3, DownloadKinds
  <2>4. CASE \E w \in UploadWorker : SFUploadStep(w)
    BY <2>4, UploadKinds
  <2>5. CASE SFProcessStep
    BY <2>5, ProcessKinds
  <2>6. CASE UNCHANGED sfvars
    <3>1. UNCHANGED vars /\ UNCHANGED admission
      BY <2>6 DEF sfvars, admission
    <3>2. QED
      BY <3>1, QuietOther DEF Kinds, Rests
  <2>7. QED
    BY <2>1, <2>2, <2>3, <2>4, <2>5, <2>6 DEF SFNext
<1>2. QED
  BY <1>1, NextIInv

-----------------------------------------------------------------------------
(* The invariants that every caller keeps, the unlocked loop included.     *)

Unused(j) == flight[j] = 0 /\ \A r \in Request : sub[j][r] = "NONE"

\* A job that was not admitted has no flight and no subscribers.
NoneBeforeAdmission == \A j \in Job : dl[j].status = "NONE" => Unused(j)

LoopInv ==
  /\ IInv
  /\ SFTypeOK
  /\ NoneBeforeAdmission
  /\ ReadyIsUploaded

\* What a step may do to what the requests were told.
ToldStays ==
  \A j \in Job, r \in Request :
    sub[j][r] \in {"READY", "FAILED", "CANCELLED"} => sub'[j][r] = sub[j][r]

LEMMA ResolvedFacts ==
  ASSUME NEW subs \in [Request -> SubscriberStatus], NEW outcome \in SubscriberStatus
  PROVE  /\ Resolved(subs, outcome) \in [Request -> SubscriberStatus]
         /\ \A r \in Request :
              Resolved(subs, outcome)[r] = IF subs[r] = "WAITING" THEN outcome ELSE subs[r]
  BY DEF Resolved

\* Some subscribers of some jobs learn the outcome; flights may go.
Tells(d, u) ==
  /\ \E T \in SUBSET Job :
       sub' = [j \in Job |-> IF j \in T THEN Resolved(sub[j], Outcome(d[j], u[j]))
                             ELSE sub[j]]
  /\ flight' \in [Job -> Nat]
  /\ \A j \in Job : flight[j] = 0 => flight'[j] = 0
  /\ key' = key

LEMMA TellsKeeps ==
  ASSUME LoopInv, IInv', RowsEvolve, RowsKept, Tells(dl', up')
  PROVE  LoopInv' /\ ToldStays
<1>1. PICK T \in SUBSET Job :
        sub' = [j \in Job |-> IF j \in T THEN Resolved(sub[j], Outcome(dl'[j], up'[j]))
                              ELSE sub[j]]
  BY DEF Tells
<1>2. \A j \in Job : /\ sub[j] \in [Request -> SubscriberStatus]
                     /\ Outcome(dl'[j], up'[j]) \in SubscriberStatus
  BY OutcomeCases DEF LoopInv, SFTypeOK, SubscriberStatus
<1>3. /\ sub' \in [Job -> [Request -> SubscriberStatus]]
      /\ \A j \in Job, r \in Request :
           \/ sub'[j][r] = sub[j][r]
           \/ sub[j][r] = "WAITING" /\ sub'[j][r] = Outcome(dl'[j], up'[j])
  BY <1>1, <1>2, ResolvedFacts
<1>4. SFTypeOK'
  BY <1>3 DEF LoopInv, IInv, SFTypeOK, Tells
<1>5. NoneBeforeAdmission'
  BY <1>3 DEF LoopInv, NoneBeforeAdmission, Unused, RowsKept, Keeps, Tells
<1>6. ReadyIsUploaded'
  BY <1>3, OutcomeCases DEF LoopInv, ReadyIsUploaded, RowsEvolve, Evolves, Terminal
<1>7. ToldStays
  BY <1>3 DEF ToldStays
<1>8. QED
  BY <1>4, <1>5, <1>6, <1>7 DEF LoopInv

LEMMA SettlesTells ==
  ASSUME LoopInv, Settles
  PROVE  Tells(dl', up') /\ RowsKept
<1>1. PICK S \in SUBSET Job : Reconciles(S) /\ Reconcile(S)
  BY DEF Settles
<1>2. flight \in [Job -> Nat]
  BY DEF LoopInv, SFTypeOK
<1>3. QED
  BY <1>1, <1>2 DEF Reconciles, Reconcile, Tells

LEMMA RestsTells ==
  ASSUME LoopInv, Rests
  PROVE  Tells(dl', up') /\ RowsKept
<1>1. /\ sub' = sub /\ flight' = flight /\ key' = key /\ RowsKept
      /\ sub \in [Job -> [Request -> SubscriberStatus]]
      /\ flight \in [Job -> Nat]
  BY DEF LoopInv, SFTypeOK, Rests, admission, Quiet
<1>2. {} \in SUBSET Job
      /\ sub' = [j \in Job |-> IF j \in {} THEN Resolved(sub[j], Outcome(dl'[j], up'[j]))
                               ELSE sub[j]]
  BY <1>1
<1>3. QED
  BY <1>1, <1>2 DEF Tells

LEMMA JoinsKeeps ==
  ASSUME LoopInv, IInv', RowsEvolve, Joins
  PROVE  LoopInv' /\ ToldStays
<1>1. PICK r \in Request, j \in Job :
        /\ sub[j][r] = "NONE" /\ flight[j] # 0
        /\ sub' = [sub EXCEPT ![j][r] = "WAITING"]
        /\ UNCHANGED <<dl, up, key, flight>>
  BY DEF Joins, JoinFlight, FlightFor, vars
<1>2. /\ sub' \in [Job -> [Request -> SubscriberStatus]]
      /\ \A i \in Job, q \in Request :
           sub'[i][q] = IF i = j /\ q = r THEN "WAITING" ELSE sub[i][q]
  BY <1>1 DEF LoopInv, SFTypeOK, SubscriberStatus
<1>3. dl[j].status # "NONE"
  BY <1>1 DEF LoopInv, NoneBeforeAdmission, Unused
<1>4. SFTypeOK' /\ NoneBeforeAdmission'
  BY <1>1, <1>2, <1>3 DEF LoopInv, IInv, SFTypeOK, NoneBeforeAdmission, Unused
<1>5. ReadyIsUploaded' /\ ToldStays
  BY <1>1, <1>2 DEF LoopInv, ReadyIsUploaded, ToldStays
<1>6. QED
  BY <1>4, <1>5 DEF LoopInv

LEMMA OpensKeeps ==
  ASSUME LoopInv, IInv', RowsEvolve,
         NEW r \in Request, NEW k \in Key, NEW j \in Job, OpenFlight(r, k, j)
  PROVE  LoopInv' /\ ToldStays
<1> DEFINE stale == FlightFor(k)
           kept == [i \in Job |-> IF i \in stale THEN 0 ELSE flight[i]]
           told == [i \in Job |-> IF i \in stale
                      THEN Resolved(sub[i], Outcome(dl[i], up[i])) ELSE sub[i]]
<1>1. /\ Submit(j) /\ key' = [key EXCEPT ![j] = k]
      /\ \E n \in {kept[i] + 1 : i \in Job} : flight' = [kept EXCEPT ![j] = n]
      /\ sub' = [told EXCEPT ![j][r] = "WAITING"]
  BY DEF OpenFlight
<1>2. /\ dl[j].status = "NONE" /\ dl' = [dl EXCEPT ![j] = NewRow] /\ up' = up
      /\ j \notin stale /\ \A q \in Request : sub[j][q] = "NONE"
  BY <1>1 DEF Submit, rows, LoopInv, NoneBeforeAdmission, Unused, FlightFor
<1>3. \A i \in Job : sub[i] \in [Request -> SubscriberStatus]
                    /\ Outcome(dl[i], up[i]) \in SubscriberStatus
  BY OutcomeCases DEF LoopInv, SFTypeOK, SubscriberStatus
<1>4. /\ told \in [Job -> [Request -> SubscriberStatus]]
      /\ \A i \in Job, q \in Request :
           \/ told[i][q] = sub[i][q]
           \/ sub[i][q] = "WAITING" /\ told[i][q] = Outcome(dl[i], up[i])
  <2>1. ASSUME NEW i \in Job
        PROVE  /\ told[i] \in [Request -> SubscriberStatus]
               /\ \A q \in Request :
                    \/ told[i][q] = sub[i][q]
                    \/ sub[i][q] = "WAITING" /\ told[i][q] = Outcome(dl[i], up[i])
    <3>1. CASE i \in stale
      <4>1. told[i] = Resolved(sub[i], Outcome(dl[i], up[i]))
        BY <3>1
      <4>2. QED
        BY <1>3, <4>1, ResolvedFacts
    <3>2. CASE i \notin stale
      <4>1. told[i] = sub[i]
        BY <3>2
      <4>2. QED
        BY <1>3, <4>1
    <3>3. QED
      BY <3>1, <3>2
  <2>2. QED
    BY <2>1
<1>5. /\ sub' \in [Job -> [Request -> SubscriberStatus]]
      /\ \A i \in Job, q \in Request :
           \/ sub'[i][q] = sub[i][q]
           \/ sub[i][q] = "WAITING" /\ sub'[i][q] = Outcome(dl[i], up[i])
           \/ i = j /\ q = r /\ sub[i][q] = "NONE" /\ sub'[i][q] = "WAITING"
  <2>1. \A i \in Job, q \in Request :
          sub'[i][q] = IF i = j /\ q = r THEN "WAITING" ELSE told[i][q]
    BY <1>1, <1>4
  <2>2. sub' \in [Job -> [Request -> SubscriberStatus]]
    BY <1>1, <1>4 DEF SubscriberStatus
  <2>3. QED
    BY <1>2, <1>4, <2>1, <2>2
<1>6. /\ flight' \in [Job -> Nat]
      /\ \A i \in Job : i # j /\ flight[i] = 0 => flight'[i] = 0
  <2>1. kept \in [Job -> Nat]
    BY DEF LoopInv, SFTypeOK
  <2>2. QED
    BY <1>1, <2>1
<1>7. key' \in [Job -> Key \cup {NoKey}]
  BY <1>1 DEF LoopInv, SFTypeOK
<1>8. \A i \in Job : dl'[i].status = "NONE" => i # j /\ dl[i].status = "NONE"
  BY <1>2, Typed DEF LoopInv, NewRow, NoRow
<1>9. NoneBeforeAdmission'
  BY <1>5, <1>6, <1>8 DEF LoopInv, NoneBeforeAdmission, Unused
<1>10. ReadyIsUploaded'
  BY <1>2, <1>5, OutcomeCases DEF LoopInv, ReadyIsUploaded
<1>11. ToldStays
  BY <1>5 DEF ToldStays
<1>12. QED
  BY <1>5, <1>6, <1>7, <1>9, <1>10, <1>11 DEF LoopInv, SFTypeOK, IInv

LEMMA WithdrawsKeeps ==
  ASSUME LoopInv, IInv', RowsEvolve, Withdraws
  PROVE  LoopInv' /\ ToldStays
<1>1. PICK j \in Job, r \in Request : CancelSubscriber(j, r)
  BY DEF Withdraws
<1>2. /\ sub[j][r] = "WAITING" /\ sub' = [sub EXCEPT ![j][r] = "CANCELLED"]
      /\ flight' = flight \/ flight' = [flight EXCEPT ![j] = 0]
      /\ key' = key
  BY <1>1 DEF CancelSubscriber
<1>3. /\ sub' \in [Job -> [Request -> SubscriberStatus]]
      /\ \A i \in Job, q \in Request :
           sub'[i][q] = IF i = j /\ q = r THEN "CANCELLED" ELSE sub[i][q]
  BY <1>2 DEF LoopInv, SFTypeOK, SubscriberStatus
<1>4. /\ flight' \in [Job -> Nat]
      /\ \A i \in Job : flight[i] = 0 => flight'[i] = 0
  BY <1>2 DEF LoopInv, SFTypeOK
<1>5. UNCHANGED vars \/ CancelDownload(j) \/ CancelUpload(j)
  BY <1>1 DEF CancelSubscriber, WithdrawLast
<1>6. RowsKept
  <2>1. CASE UNCHANGED vars
    BY <2>1, SameRows DEF vars
  <2>2. CASE CancelDownload(j) \/ CancelUpload(j)
    BY <2>2, CancelKept DEF LoopInv
  <2>3. QED
    BY <1>5, <2>1, <2>2
<1>7. dl[j].status # "NONE"
  BY <1>2 DEF LoopInv, NoneBeforeAdmission, Unused
<1>8. NoneBeforeAdmission'
  BY <1>3, <1>4, <1>6, <1>7 DEF LoopInv, NoneBeforeAdmission, Unused, RowsKept, Keeps
<1>9. ReadyIsUploaded' /\ ToldStays
  BY <1>2, <1>3 DEF LoopInv, ReadyIsUploaded, ToldStays, RowsEvolve, Evolves, Terminal
<1>10. QED
  BY <1>2, <1>3, <1>4, <1>8, <1>9 DEF LoopInv, SFTypeOK, IInv

LEMMA LoopInvKept ==
  ASSUME LoopInv, [SFNext]_sfvars
  PROVE  LoopInv' /\ ToldStays
<1>1. IInv' /\ RowsEvolve /\ Kinds
  BY StepKinds DEF LoopInv
<1>2. QED
  BY <1>1, SettlesTells, RestsTells, TellsKeeps, JoinsKeeps, OpensKeeps, WithdrawsKeeps
     DEF Kinds, Opens

LEMMA InitLoopInv == SFInit => LoopInv
  BY InitIInv DEF SFInit, LoopInv, SFTypeOK, NoneBeforeAdmission, Unused, ReadyIsUploaded,
                  IInv, SubscriberStatus

-----------------------------------------------------------------------------
(* Beside the reconciliation loop.                                         *)

FRInv == LoopInv /\ FRTypeOK

LEMMA CloseKeeps ==
  ASSUME FRInv, CloseFlights
  PROVE  LoopInv' /\ ToldStays /\ scan' = {}
<1> DEFINE jobs == {e[2] : e \in {f \in scan : ~Eligible(f[2])}}
<1>1. LoopInv /\ UNCHANGED vars
  BY DEF FRInv, CloseFlights
<1>2. IInv' /\ RowsEvolve
  BY <1>1, StutterStep DEF LoopInv
<1>3. UNCHANGED <<dl, up>> /\ RowsKept
  BY <1>1, SameRows DEF vars
<1>4. jobs \in SUBSET Job
  <2>1. scan \subseteq Nat \X Job
    BY DEF FRInv, FRTypeOK
  <2>2. QED
    BY <2>1
<1>5. sub' = [j \in Job |-> IF j \in jobs THEN Resolved(sub[j], Outcome(dl'[j], up'[j]))
                            ELSE sub[j]]
  BY <1>3 DEF CloseFlights
<1>6. /\ flight' \in [Job -> Nat]
      /\ \A j \in Job : flight[j] = 0 => flight'[j] = 0
  BY <1>1 DEF CloseFlights, LoopInv, SFTypeOK
<1>7. Tells(dl', up')
  BY <1>4, <1>5, <1>6 DEF Tells, CloseFlights
<1>8. QED
  BY <1>1, <1>2, <1>3, <1>7, TellsKeeps DEF CloseFlights

LEMMA FRInvKept ==
  ASSUME FRInv, [FRNext]_frvars
  PROVE  FRInv' /\ ToldStays
<1>1. CASE SFNext /\ scan' = IF mode' = "up" THEN scan ELSE {}
  BY <1>1, LoopInvKept DEF FRInv, FRTypeOK, LoopInv
<1>2. CASE ReadFlights
  <2>1. scan' \subseteq Nat \X Job
    BY <1>2 DEF ReadFlights, FRInv, LoopInv, SFTypeOK
  <2>2. QED
    BY <1>2, <2>1, LoopInvKept DEF ReadFlights, FRInv, FRTypeOK, LoopInv
<1>3. CASE SkipFlight
  <2>1. scan' \subseteq Nat \X Job
    BY <1>3 DEF SkipFlight, FRInv, FRTypeOK
  <2>2. QED
    BY <1>3, <2>1, LoopInvKept DEF SkipFlight, FRInv, FRTypeOK, LoopInv
<1>4. CASE CloseFlights
  BY <1>4, CloseKeeps DEF FRInv, FRTypeOK, LoopInv
<1>5. CASE UNCHANGED frvars
  BY <1>5, LoopInvKept DEF frvars, FRInv, FRTypeOK, LoopInv
<1>6. QED
  BY <1>1, <1>2, <1>3, <1>4, <1>5 DEF FRNext

\* The invariant that survives the loop.
THEOREM LoopInductive == FRSpec => []FRInv
<1>1. FRInit => FRInv
  BY InitLoopInv DEF FRInit, FRInv, FRTypeOK, LoopInv
<1>2. QED
  BY <1>1, FRInvKept, PTL DEF FRSpec

\* Flights, subscribers and the list of the loop stay well typed.
THEOREM FlightsTyped == FRSpec => []FRTypeOK
<1>1. FRInv => FRTypeOK
  BY DEF FRInv
<1>2. QED
  BY <1>1, LoopInductive, PTL

\* However old the list of the loop is and whatever rowid it deletes, READY
\* is told only for an upload that succeeded.
THEOREM ReadyIsTrue == FRSpec => []ReadyIsUploaded
<1>1. FRInv => ReadyIsUploaded
  BY DEF FRInv, LoopInv
<1>2. QED
  BY <1>1, LoopInductive, PTL

\* Nor is anything a request was told ever replaced: not by the loop, not by
\* a cancellation that comes late, not by a new flight.
THEOREM ToldOnce == FRSpec => ToldIsFinal
<1>1. FRInv /\ [FRNext]_frvars =>
        [\A j \in Job, r \in Request :
           sub[j][r] \in {"READY", "FAILED", "CANCELLED"} => sub'[j][r] = sub[j][r]]_frvars
  BY FRInvKept DEF ToldStays
<1>2. QED
  BY <1>1, LoopInductive, PTL DEF FRSpec, ToldIsFinal

-----------------------------------------------------------------------------
(* With every caller inside the write lock.                                *)

FlightsKeyed == \A j \in Job : flight[j] # 0 => key[j] \in Key

OneFlightPerKey ==
  \A i, j \in Job : flight[i] # 0 /\ flight[j] # 0 /\ key[i] = key[j] => i = j

\* Work that is open and not being cancelled.
Wanted(j) ==
  \/ dl[j].status \in Active /\ ~dl[j].cancel
  \/ up[j].status \in Active /\ ~up[j].cancel

WantedHasWaiter == \A j \in Job : Wanted(j) => Waiters(j) # {}

LockedInv ==
  /\ LoopInv
  /\ FlightsKeyed
  /\ OneFlightPerKey
  /\ WaiterHasFlight
  /\ OpenFlightIsLive
  /\ WantedHasWaiter

\* The outcome of wanted work is WAITING: an upload comes after a download
\* that succeeded and was not cancelled.
LEMMA WantedIsEligible ==
  ASSUME NEW d, NEW u,
         u.status # "NONE" => d.status = "SUCCEEDED",
         d.cancel => d.status \in {"RUNNING", "CANCELLED"},
         \/ d.status \in Active /\ ~d.cancel
         \/ u.status \in Active /\ ~u.cancel
  PROVE  Outcome(d, u) = "WAITING"
<1>1. CASE d.status \in Active /\ ~d.cancel
  BY <1>1, OutcomeCases
<1>2. CASE u.status \in Active /\ ~u.cancel
  BY <1>2, OutcomeCases DEF Active
<1>3. QED
  BY <1>1, <1>2

LEMMA WantedBefore ==
  ASSUME RowsKept, NEW j \in Job, Wanted(j)'
  PROVE  Wanted(j)
  BY DEF RowsKept, Keeps, Wanted

LEMMA SettlesLocked ==
  ASSUME LockedInv, LoopInv', Settles
  PROVE  LockedInv'
<1>1. PICK S \in SUBSET Job : Reconciles(S) /\ Reconcile(S)
  BY DEF Settles
<1> DEFINE closed == {j \in S : flight[j] # 0 /\ Outcome(dl'[j], up'[j]) # "WAITING"}
<1>2. /\ \A j \in Job : flight'[j] = IF j \in closed THEN 0 ELSE flight[j]
      /\ \A j \in Job : sub'[j] = IF j \in closed
                                  THEN Resolved(sub[j], Outcome(dl'[j], up'[j])) ELSE sub[j]
      /\ key' = key
  BY <1>1 DEF Reconcile
<1>3. FlightsKeyed' /\ OneFlightPerKey'
  BY <1>2 DEF LockedInv, FlightsKeyed, OneFlightPerKey
<1>4. \A j \in closed : Waiters(j)' = {}
  <2>1. SUFFICES ASSUME NEW j \in closed, NEW r \in Request
                 PROVE  sub'[j][r] # "WAITING"
    BY DEF Waiters
  <2>2. /\ sub[j] \in [Request -> SubscriberStatus]
        /\ Outcome(dl'[j], up'[j]) \in SubscriberStatus
        /\ Outcome(dl'[j], up'[j]) # "WAITING"
    BY <1>1, OutcomeCases DEF LockedInv, LoopInv, SFTypeOK, SubscriberStatus
  <2>3. sub'[j] = Resolved(sub[j], Outcome(dl'[j], up'[j])) /\ j \in Job
    BY <1>2
  <2>4. QED
    BY <2>2, <2>3, ResolvedFacts
<1>5. \A j \in Job : j \notin closed => Waiters(j)' = Waiters(j) /\ flight'[j] = flight[j]
  BY <1>2 DEF Waiters
<1>6. WaiterHasFlight'
  BY <1>4, <1>5 DEF LockedInv, WaiterHasFlight
<1>7. OpenFlightIsLive'
  <2>1. SUFFICES ASSUME mode' # "down", NEW j \in Job, flight'[j] # 0
                 PROVE  Outcome(dl'[j], up'[j]) = "WAITING"
    BY DEF OpenFlightIsLive, Eligible
  <2>2. flight[j] # 0 /\ j \notin closed
    BY <1>2, <2>1
  <2>3. CASE j \in S
    BY <2>2, <2>3
  <2>4. CASE j \notin S
    <3>1. mode # "down" /\ dl'[j] = dl[j] /\ up'[j] = up[j]
      BY <1>1, <2>1, <2>4 DEF Reconciles, RowsStay
    <3>2. QED
      BY <2>2, <3>1 DEF LockedInv, OpenFlightIsLive, Eligible
  <2>5. QED
    BY <2>3, <2>4
<1>8. WantedHasWaiter'
  <2>1. SUFFICES ASSUME NEW j \in Job, Wanted(j)'
                 PROVE  Waiters(j)' # {}
    BY DEF WantedHasWaiter
  <2>2. Outcome(dl'[j], up'[j]) = "WAITING"
    <3>1. /\ up'[j].status # "NONE" => dl'[j].status = "SUCCEEDED"
          /\ dl'[j].cancel => dl'[j].status \in {"RUNNING", "CANCELLED"}
      BY DEF LoopInv, IInv, UploadAfterDownload, Sound
    <3>2. QED
      BY <2>1, <3>1, WantedIsEligible DEF Wanted
  <2>3. Wanted(j)
    BY <1>1, <2>1, WantedBefore DEF Reconciles
  <2>4. QED
    BY <1>5, <2>2, <2>3 DEF LockedInv, WantedHasWaiter
<1>9. QED
  BY <1>3, <1>6, <1>7, <1>8 DEF LockedInv

LEMMA RestsLocked ==
  ASSUME LockedInv, LoopInv', Rests
  PROVE  LockedInv'
<1>1. UNCHANGED <<key, flight, sub>> /\ \A j \in Job : Waiters(j)' = Waiters(j)
  BY DEF Rests, admission, Waiters
<1>2. FlightsKeyed' /\ OneFlightPerKey' /\ WaiterHasFlight'
  BY <1>1 DEF LockedInv, FlightsKeyed, OneFlightPerKey, WaiterHasFlight
<1>3. OpenFlightIsLive'
  BY <1>1 DEF LockedInv, OpenFlightIsLive, Eligible, Rests, Quiet, OpenStays
<1>4. WantedHasWaiter'
  BY <1>1, WantedBefore DEF LockedInv, WantedHasWaiter, Rests, Quiet
<1>5. QED
  BY <1>2, <1>3, <1>4 DEF LockedInv

LEMMA JoinsLocked ==
  ASSUME LockedInv, LoopInv', Joins
  PROVE  LockedInv'
<1>1. PICK r \in Request, j \in Job :
        /\ flight[j] # 0
        /\ sub' = [sub EXCEPT ![j][r] = "WAITING"]
        /\ UNCHANGED <<dl, up, mode, key, flight>>
  BY DEF Joins, JoinFlight, FlightFor, vars
<1>2. /\ \A i \in Job : Waiters(i) \subseteq Waiters(i)'
      /\ \A i \in Job : i # j => Waiters(i)' = Waiters(i)
  BY <1>1 DEF LockedInv, LoopInv, SFTypeOK, Waiters
<1>3. FlightsKeyed' /\ OneFlightPerKey' /\ WaiterHasFlight'
  BY <1>1, <1>2 DEF LockedInv, FlightsKeyed, OneFlightPerKey, WaiterHasFlight
<1>4. OpenFlightIsLive'
  BY <1>1 DEF LockedInv, OpenFlightIsLive, Eligible
<1>5. WantedHasWaiter'
  BY <1>1, <1>2 DEF LockedInv, WantedHasWaiter, Wanted
<1>6. QED
  BY <1>3, <1>4, <1>5 DEF LockedInv

\* With every open flight live, no flight is stale when a new one is opened.
LEMMA OpensFresh ==
  ASSUME LockedInv, NEW r \in Request, NEW k \in Key, NEW j \in Job, OpenFlight(r, k, j)
  PROVE  /\ FlightFor(k) = {} /\ mode # "down"
         /\ dl[j].status = "NONE" /\ flight[j] = 0
         /\ \A q \in Request : sub[j][q] = "NONE"
         /\ key' = [key EXCEPT ![j] = k]
         /\ \E n \in Nat \ {0} : flight' = [flight EXCEPT ![j] = n]
         /\ sub' = [sub EXCEPT ![j][r] = "WAITING"]
         /\ dl' = [dl EXCEPT ![j] = NewRow] /\ UNCHANGED <<up, mode>>
<1> DEFINE stale == FlightFor(k)
           kept == [i \in Job |-> IF i \in stale THEN 0 ELSE flight[i]]
           told == [i \in Job |-> IF i \in stale
                      THEN Resolved(sub[i], Outcome(dl[i], up[i])) ELSE sub[i]]
<1>1. /\ Submit(j) /\ key' = [key EXCEPT ![j] = k]
      /\ \A i \in stale : ~Eligible(i)
      /\ \E n \in {kept[i] + 1 : i \in Job} : flight' = [kept EXCEPT ![j] = n]
      /\ sub' = [told EXCEPT ![j][r] = "WAITING"]
  BY DEF OpenFlight
<1>2. /\ mode # "down" /\ dl[j].status = "NONE"
      /\ dl' = [dl EXCEPT ![j] = NewRow] /\ UNCHANGED <<up, mode>>
  BY <1>1 DEF Submit, rows, process
<1>3. stale = {}
  BY <1>1, <1>2 DEF LockedInv, OpenFlightIsLive, FlightFor
<1>4. kept = flight /\ told = sub
  <2>1. /\ kept = [i \in Job |-> flight[i]]
        /\ told = [i \in Job |-> sub[i]]
    BY <1>3
  <2>2. QED
    BY <2>1 DEF LockedInv, LoopInv, SFTypeOK
<1>5. \E n \in Nat \ {0} : flight' = [flight EXCEPT ![j] = n]
  BY <1>1, <1>4 DEF LockedInv, LoopInv, SFTypeOK
<1>6. flight[j] = 0 /\ \A q \in Request : sub[j][q] = "NONE"
  BY <1>2 DEF LockedInv, LoopInv, NoneBeforeAdmission, Unused
<1>7. QED
  BY <1>1, <1>2, <1>3, <1>4, <1>5, <1>6

LEMMA OpensLocked ==
  ASSUME LockedInv, LoopInv', Opens
  PROVE  LockedInv'
<1>1. PICK r \in Request, k \in Key, j \in Job : OpenFlight(r, k, j)
  BY DEF Opens
<1>2. /\ FlightFor(k) = {} /\ mode # "down" /\ mode' = mode
      /\ \A i \in Job : i # j => /\ key'[i] = key[i] /\ flight'[i] = flight[i]
                                 /\ dl'[i] = dl[i] /\ sub'[i] = sub[i]
      /\ key'[j] = k /\ flight'[j] # 0 /\ sub'[j][r] = "WAITING"
      /\ dl'[j] = NewRow /\ up' = up
  BY <1>1, OpensFresh, Typed DEF LockedInv, LoopInv, SFTypeOK
<1>3. \A i \in Job : i # j => Waiters(i)' = Waiters(i) /\ (Wanted(i)' <=> Wanted(i))
  BY <1>2 DEF Waiters, Wanted
<1>4. r \in Waiters(j)'
  BY <1>2 DEF Waiters
<1>5. FlightsKeyed' /\ OneFlightPerKey'
  BY <1>2 DEF LockedInv, FlightsKeyed, OneFlightPerKey, FlightFor
<1>6. WaiterHasFlight' /\ WantedHasWaiter'
  BY <1>2, <1>3, <1>4 DEF LockedInv, WaiterHasFlight, WantedHasWaiter
<1>7. Outcome(dl'[j], up'[j]) = "WAITING"
  BY <1>2, OutcomeCases DEF NewRow, NoRow, Active
<1>8. OpenFlightIsLive'
  BY <1>2, <1>7 DEF LockedInv, OpenFlightIsLive, Eligible
<1>9. QED
  BY <1>5, <1>6, <1>8 DEF LockedInv

\* The withdrawal of the last waiter reaches the work at whatever stage it is.
LEMMA WithdrawnWork ==
  ASSUME IInv, NEW j \in Job, WithdrawLast(j)
  PROVE  ~Wanted(j)'
<1>1. dl[j].status # "SUCCEEDED" => up[j].status = "NONE"
  BY DEF IInv, UploadAfterDownload
<1>2. CASE dl[j].status \in Active /\ CancelDownload(j)
  <2>1. up' = up /\ dl'[j] = CancelRequested(dl[j]) /\ up[j].status = "NONE"
    BY <1>1, <1>2, Typed DEF CancelDownload, Active
  <2>2. CancelRequested(dl[j]).cancel = TRUE
    BY <1>2, CancelRecorded, Typed
  <2>3. QED
    BY <2>1, <2>2 DEF Wanted, Active
<1>3. CASE dl[j].status = "SUCCEEDED" /\ CancelUpload(j)
  <2>1. dl' = dl /\ up'[j] = CancelRequested(up[j]) /\ up[j].status \in Active
    BY <1>3, Typed DEF CancelUpload
  <2>2. CancelRequested(up[j]).cancel = TRUE
    BY <2>1, CancelRecorded, Typed
  <2>3. QED
    BY <1>3, <2>1, <2>2 DEF Wanted, Active
<1>4. CASE /\ dl[j].status \notin Active /\ UNCHANGED vars
           /\ dl[j].status = "SUCCEEDED" => up[j].status \notin Active
  BY <1>1, <1>4 DEF Wanted, Active, vars
<1>5. QED
  BY <1>2, <1>3, <1>4 DEF WithdrawLast

LEMMA WithdrawsLocked ==
  ASSUME LockedInv, LoopInv', Withdraws
  PROVE  LockedInv'
<1>1. PICK j \in Job, r \in Request : CancelSubscriber(j, r)
  BY DEF Withdraws
<1>2. /\ mode # "down" /\ mode' = mode
      /\ \A i \in Job : i # j => sub'[i] = sub[i] /\ flight'[i] = flight[i]
      /\ Waiters(j)' = Waiters(j) \ {r}
      /\ r \in Waiters(j) /\ key' = key
  BY <1>1, CancelKept DEF CancelSubscriber, WithdrawLast, LockedInv, LoopInv, SFTypeOK,
                          Waiters, vars, SubscriberStatus
<1>3. \A i \in Job : i # j => Waiters(i)' = Waiters(i)
  BY <1>2 DEF Waiters
<1>4. CASE Waiters(j) # {r}
  <2>1. UNCHANGED <<dl, up, flight>> /\ Waiters(j)' # {}
    BY <1>1, <1>2, <1>4 DEF CancelSubscriber, vars
  <2>2. FlightsKeyed' /\ OneFlightPerKey' /\ WaiterHasFlight'
    BY <1>2, <1>3, <2>1 DEF LockedInv, FlightsKeyed, OneFlightPerKey, WaiterHasFlight
  <2>3. OpenFlightIsLive' /\ WantedHasWaiter'
    BY <1>2, <1>3, <2>1 DEF LockedInv, OpenFlightIsLive, Eligible, WantedHasWaiter, Wanted
  <2>4. QED
    BY <2>2, <2>3 DEF LockedInv
<1>5. CASE Waiters(j) = {r}
  <2>1. flight' = [flight EXCEPT ![j] = 0] /\ WithdrawLast(j) /\ Waiters(j)' = {}
    BY <1>1, <1>2, <1>5 DEF CancelSubscriber
  <2>2. flight'[j] = 0
    BY <2>1 DEF LockedInv, LoopInv, SFTypeOK
  <2>3. RowsStay({j}) /\ RowsKept
    BY <2>1, CancelKept, SameRows DEF WithdrawLast, LockedInv, LoopInv, vars
  <2>4. ~Wanted(j)'
    BY <2>1, WithdrawnWork DEF LockedInv, LoopInv
  <2>5. FlightsKeyed' /\ OneFlightPerKey' /\ WaiterHasFlight'
    BY <1>2, <1>3, <2>1, <2>2 DEF LockedInv, FlightsKeyed, OneFlightPerKey, WaiterHasFlight
  <2>6. OpenFlightIsLive'
    BY <1>2, <2>2, <2>3 DEF LockedInv, OpenFlightIsLive, Eligible, RowsStay
  <2>7. WantedHasWaiter'
    BY <1>3, <2>3, <2>4, WantedBefore DEF LockedInv, WantedHasWaiter
  <2>8. QED
    BY <2>5, <2>6, <2>7 DEF LockedInv
<1>6. QED
  BY <1>4, <1>5

LEMMA LockedInvKept ==
  ASSUME LockedInv, [SFNext]_sfvars
  PROVE  LockedInv'
<1>1. LoopInv' /\ Kinds
  BY LoopInvKept, StepKinds DEF LockedInv, LoopInv
<1>2. QED
  BY <1>1, SettlesLocked, RestsLocked, JoinsLocked, OpensLocked, WithdrawsLocked DEF Kinds

LEMMA InitLockedInv == SFInit => LockedInv
<1> SUFFICES ASSUME SFInit PROVE LockedInv
  OBVIOUS
<1>1. LoopInv
  BY InitLoopInv
<1>2. \A j \in Job : flight[j] = 0 /\ Waiters(j) = {} /\ ~Wanted(j)
  BY DEF SFInit, Init, Waiters, Wanted, NoRow, Active
<1>3. QED
  BY <1>1, <1>2 DEF LockedInv, FlightsKeyed, OneFlightPerKey, WaiterHasFlight,
                    OpenFlightIsLive, WantedHasWaiter

\* The invariant of the locked callers.
THEOREM LockedInductive == SFSpec => []LockedInv
  BY InitLockedInv, LockedInvKept, PTL DEF SFSpec

PartInv == part = "locked" => LockedInv

LEMMA FlightsInvariant == FlightsSpec => []PartInv
<1>1. FlightsInit => PartInv
  BY InitLockedInv DEF FlightsInit, FRInit, PartInv
<1>2. PartInv /\ [FlightsNext]_<<frvars, part>> => PartInv'
  BY LockedInvKept DEF FlightsNext, frvars, PartInv
<1>3. QED
  BY <1>1, <1>2, PTL DEF FlightsSpec

LEMMA LockedPromises ==
  LockedInv => WaiterHasFlight /\ OpenFlightIsLive /\ WorkHasWaiter /\ OneJobPerKey
<1> SUFFICES ASSUME LockedInv
             PROVE  WaiterHasFlight /\ OpenFlightIsLive /\ WorkHasWaiter /\ OneJobPerKey
  OBVIOUS
<1>1. \A j \in Job : dl[j].status = "QUEUED" \/ up[j].status = "QUEUED" => Wanted(j)
  BY DEF LockedInv, LoopInv, IInv, Sound, Wanted, Active
<1>2. WorkHasWaiter
  BY <1>1 DEF LockedInv, WantedHasWaiter, WorkHasWaiter
<1>3. OneJobPerKey
  BY DEF LockedInv, WaiterHasFlight, OneFlightPerKey, OneJobPerKey
<1>4. QED
  BY <1>2, <1>3 DEF LockedInv

\* Who waits has a flight that will tell them, and no transaction leaves a
\* flight over work that has ended, for any number of jobs and workers.
THEOREM NobodyWaitsInVain == FlightsSpec => []FlightsAreKept
<1>1. PartInv => FlightsAreKept
  BY LockedPromises DEF PartInv, FlightsAreKept
<1>2. QED
  BY <1>1, FlightsInvariant, PTL

\* No open work is left for nobody, and a key has one job at a time.
THEOREM NoWorkForNobody == FlightsSpec => []WorkIsShared
<1>1. PartInv => WorkIsShared
  BY LockedPromises DEF PartInv, WorkIsShared
<1>2. QED
  BY <1>1, FlightsInvariant, PTL

-----------------------------------------------------------------------------
(* The locked callers implement SharedResult.                              *)

\* The open flight of a key is its current group.
CurrentOK ==
  \A k \in Key :
    \/ FlightFor(k) = {} /\ CurrentJob[k] = 0
    \/ CurrentJob[k] \in Job /\ FlightFor(k) = {CurrentJob[k]}

LEMMA CurrentFlight == LockedInv => CurrentOK
<1> SUFFICES ASSUME LockedInv, NEW k \in Key
             PROVE  \/ FlightFor(k) = {} /\ CurrentJob[k] = 0
                    \/ CurrentJob[k] \in Job /\ FlightFor(k) = {CurrentJob[k]}
  BY DEF CurrentOK
<1>1. CurrentJob[k] = IF FlightFor(k) = {} THEN 0 ELSE CHOOSE j \in FlightFor(k) : TRUE
  BY DEF CurrentJob
<1>2. CASE FlightFor(k) # {}
  <2>1. CurrentJob[k] \in FlightFor(k)
    BY <1>1, <1>2
  <2>2. \A i, j \in FlightFor(k) : i = j
    BY DEF FlightFor, LockedInv, OneFlightPerKey
  <2>3. QED
    BY <2>1, <2>2 DEF FlightFor
<1>3. QED
  BY <1>1, <1>2

LEMMA CurrentIsFunction ==
  /\ CurrentJob = [k \in Key |-> CurrentJob[k]]
  /\ CurrentJob' = [k \in Key |-> CurrentJob'[k]]
<1>1. CurrentJob = [k \in Key |-> CurrentJob[k]]
  BY DEF CurrentJob
<1>2. CurrentJob' = [k \in Key |-> CurrentJob'[k]]
  BY DEF CurrentJob
<1>3. QED
  BY <1>1, <1>2

LEMMA CurrentKept ==
  ASSUME NEW k \in Key, FlightFor(k)' = FlightFor(k)
  PROVE  CurrentJob'[k] = CurrentJob[k]
  BY DEF CurrentJob

Implemented ==
  [Shared!Next]_<<SharedCurrent, SharedResults>>

Locked == LockedInv /\ CurrentOK /\ part = "locked"

LEMMA Mapping ==
  ASSUME Locked, Locked'
  PROVE  /\ SharedCurrent = CurrentJob /\ SharedCurrent' = CurrentJob'
         /\ SharedResults = sub /\ SharedResults' = sub'
         /\ DOMAIN CurrentJob = Key
  BY DEF Locked, SharedCurrent, SharedResults, CurrentJob

LEMMA RestsImplemented ==
  ASSUME Locked, Locked', Rests
  PROVE  Implemented
<1>1. \A k \in Key : FlightFor(k)' = FlightFor(k)
  BY DEF Rests, admission, FlightFor
<1>2. CurrentJob' = CurrentJob
  BY <1>1, CurrentKept, CurrentIsFunction
<1>3. QED
  BY <1>2, Mapping DEF Rests, admission, Implemented

LEMMA JoinsImplemented ==
  ASSUME Locked, Locked', Joins
  PROVE  Implemented
<1>1. PICK r \in Request, k \in Key, j \in Job :
        /\ j \in FlightFor(k) /\ sub[j][r] = "NONE"
        /\ sub' = [sub EXCEPT ![j][r] = "WAITING"]
        /\ UNCHANGED <<key, flight>>
  BY DEF Joins, JoinFlight, FlightFor
<1>2. CurrentJob[k] = j /\ j # 0
  BY <1>1, JobAssumption DEF Locked, CurrentOK, FlightFor
<1>3. CurrentJob' = CurrentJob
  <2>1. \A i \in Key : FlightFor(i)' = FlightFor(i)
    BY <1>1 DEF FlightFor
  <2>2. QED
    BY <2>1, CurrentKept, CurrentIsFunction
<1>4. Shared!Join(r, k)
  BY <1>1, <1>2, <1>3, Mapping DEF Shared!Join
<1>5. QED
  BY <1>4 DEF Implemented, Shared!Next

LEMMA OpensImplemented ==
  ASSUME Locked, Locked', Opens
  PROVE  Implemented
<1>1. PICK r \in Request, k \in Key, j \in Job : OpenFlight(r, k, j)
  BY DEF Opens
<1>2. PICK n \in Nat \ {0} :
        /\ FlightFor(k) = {} /\ flight[j] = 0 /\ \A q \in Request : sub[j][q] = "NONE"
        /\ key' = [key EXCEPT ![j] = k] /\ flight' = [flight EXCEPT ![j] = n]
        /\ sub' = [sub EXCEPT ![j][r] = "WAITING"]
  BY <1>1, OpensFresh DEF Locked
<1>3. \A i \in Key : FlightFor(i)' = IF i = k THEN {j} ELSE FlightFor(i)
  BY <1>2 DEF FlightFor, Locked, LockedInv, LoopInv, SFTypeOK
<1>4. CurrentJob[k] = 0 /\ CurrentJob'[k] = j
  BY <1>2, <1>3, JobAssumption DEF Locked, CurrentOK
<1>5. \A i \in Key : i # k => CurrentJob'[i] = CurrentJob[i]
  BY <1>3, CurrentKept
<1>6. CurrentJob' = [CurrentJob EXCEPT ![k] = j]
  BY <1>4, <1>5, CurrentIsFunction
<1>7. Shared!Open(r, k, j)
  BY <1>2, <1>4, <1>6, Mapping DEF Shared!Open
<1>8. QED
  BY <1>7 DEF Implemented, Shared!Next

LEMMA WithdrawsImplemented ==
  ASSUME Locked, Locked', Withdraws
  PROVE  Implemented
<1>1. PICK j \in Job, r \in Request : CancelSubscriber(j, r)
  BY DEF Withdraws
<1> DEFINE k == key[j]
<1>2. /\ sub[j][r] = "WAITING" /\ sub' = [sub EXCEPT ![j][r] = "CANCELLED"]
      /\ flight' = IF Waiters(j) = {r} THEN [flight EXCEPT ![j] = 0] ELSE flight
      /\ key' = key
  BY <1>1 DEF CancelSubscriber
<1>3. flight[j] # 0 /\ k \in Key
  BY <1>2 DEF Locked, LockedInv, WaiterHasFlight, FlightsKeyed, Waiters
<1>4. CurrentJob[k] = j /\ j # 0
  BY <1>3, JobAssumption DEF Locked, CurrentOK, FlightFor
<1>5. \A i \in Key : FlightFor(i)' = IF Waiters(j) = {r} THEN FlightFor(i) \ {j}
                                     ELSE FlightFor(i)
  BY <1>2 DEF FlightFor, Locked, LockedInv, LoopInv, SFTypeOK
<1>6. \A i \in Key : i # k => CurrentJob'[i] = CurrentJob[i]
  <2>1. \A i \in Key : i # k => FlightFor(i)' = FlightFor(i)
    BY <1>5 DEF FlightFor
  <2>2. QED
    BY <2>1, CurrentKept
<1>7. CurrentJob' = IF Waiters(j) = {r} THEN [CurrentJob EXCEPT ![k] = 0] ELSE CurrentJob
  <2>1. CASE Waiters(j) = {r}
    <3>1. CurrentJob'[k] = 0
      BY <1>3, <1>4, <1>5, <2>1 DEF Locked, CurrentOK
    <3>2. QED
      BY <1>6, <2>1, <3>1 DEF CurrentJob
  <2>2. CASE Waiters(j) # {r}
    <3>1. CurrentJob'[k] = CurrentJob[k]
      BY <1>3, <1>5, <2>2, CurrentKept
    <3>2. QED
      BY <1>6, <2>2, <3>1 DEF CurrentJob
  <2>3. QED
    BY <2>1, <2>2
<1>8. Shared!Leave(r, k)
  BY <1>2, <1>4, <1>7, Mapping DEF Shared!Leave, Shared!Waiting, Waiters
<1>9. QED
  BY <1>3, <1>8 DEF Implemented, Shared!Next

LEMMA SettlesImplemented ==
  ASSUME Locked, Locked', Settles
  PROVE  Implemented
<1>1. PICK S \in SUBSET Job : Reconcile(S)
  BY DEF Settles
<1> DEFINE closed == {j \in S : flight[j] # 0 /\ Outcome(dl'[j], up'[j]) # "WAITING"}
           K == {key[j] : j \in closed}
           outcome == [j \in Job |-> IF Outcome(dl'[j], up'[j]) = "WAITING"
                                     THEN "FAILED" ELSE Outcome(dl'[j], up'[j])]
<1>2. /\ flight' = [j \in Job |-> IF j \in closed THEN 0 ELSE flight[j]]
      /\ sub' = [j \in Job |-> IF j \in closed
                   THEN Resolved(sub[j], Outcome(dl'[j], up'[j])) ELSE sub[j]]
      /\ key' = key
  BY <1>1 DEF Reconcile
<1>3. \A j \in closed : key[j] \in Key /\ CurrentJob[key[j]] = j /\ j \in Job /\ j # 0
  BY JobAssumption DEF Locked, LockedInv, FlightsKeyed, CurrentOK, FlightFor
<1>4. K \in SUBSET Key /\ \A k \in K : CurrentJob[k] # 0
  BY <1>3
<1>5. \A g \in Job : (\E k \in K : CurrentJob[k] = g) <=> g \in closed
  BY <1>3
<1>6. outcome \in [Job -> Shared!Result]
  BY OutcomeCases DEF Shared!Result
<1>7. sub' = [g \in Job |->
               IF \E k \in K : CurrentJob[k] = g
               THEN [r \in Request |-> IF r \in Waiters(g) THEN outcome[g] ELSE sub[g][r]]
               ELSE sub[g]]
  <2>1. ASSUME NEW g \in Job
        PROVE  sub'[g] = IF \E k \in K : CurrentJob[k] = g
                         THEN [r \in Request |-> IF r \in Waiters(g) THEN outcome[g]
                                                                    ELSE sub[g][r]]
                         ELSE sub[g]
    <3>1. CASE g \in closed
      <4>1. sub'[g] = Resolved(sub[g], outcome[g])
        BY <1>2, <3>1
      <4>2. Resolved(sub[g], outcome[g]) =
              [r \in Request |-> IF r \in Waiters(g) THEN outcome[g] ELSE sub[g][r]]
        BY DEF Resolved, Waiters
      <4>3. QED
        BY <1>5, <3>1, <4>1, <4>2
    <3>2. CASE g \notin closed
      BY <1>2, <1>5, <3>2
    <3>3. QED
      BY <3>1, <3>2
  <2>2. sub' = [g \in Job |-> sub'[g]]
    BY <1>2
  <2>3. QED
    BY <2>1, <2>2
<1>8. \A k \in Key : FlightFor(k)' = FlightFor(k) \ closed
  BY <1>2 DEF FlightFor
<1>9. ASSUME NEW k \in Key
      PROVE  CurrentJob'[k] = IF k \in K THEN 0 ELSE CurrentJob[k]
  <2>1. CASE k \in K
    <3>1. PICK j \in closed : k = key[j]
      BY <2>1
    <3>2. FlightFor(k) = {j}
      BY <1>3, <3>1 DEF Locked, CurrentOK
    <3>3. FlightFor(k)' = {}
      BY <1>8, <3>1, <3>2
    <3>4. QED
      BY <2>1, <3>3 DEF Locked, CurrentOK
  <2>2. CASE k \notin K
    <3>1. FlightFor(k)' = FlightFor(k)
      BY <1>8, <2>2 DEF FlightFor
    <3>2. QED
      BY <2>2, <3>1, CurrentKept
  <2>3. QED
    BY <2>1, <2>2
<1>10. CurrentJob' = [k \in Key |-> IF k \in K THEN 0 ELSE CurrentJob[k]]
  BY <1>9 DEF CurrentJob
<1> HIDE DEF K, outcome, closed
<1>11. Shared!Finish(K, outcome)
  BY <1>4, <1>7, <1>10, Mapping DEF Shared!Finish, Shared!Waiting, Waiters
<1>12. QED
  BY <1>4, <1>6, <1>11 DEF Implemented, Shared!Next

PartOK == part = "locked" => LockedInv /\ CurrentOK

\* All who ask for one key while its work is open share it and learn the same
\* result at once; a result stays, and the last to leave takes the work away.
THEOREM ImplementsSharedResult == FlightsSpec => SharesResult
<1>1. FlightsInit => Shared!Init
  BY DEF FlightsInit, FRInit, SFInit, Shared!Init, SharedCurrent, SharedResults,
         CurrentJob, FlightFor
<1>2. ASSUME LockedInv, LockedInv', CurrentOK, CurrentOK', part = "locked",
             FlightsNext
      PROVE  Implemented
  <2>1. SFNext /\ Locked /\ Locked'
    BY <1>2 DEF FlightsNext, Locked
  <2>2. Kinds
    BY <2>1, StepKinds DEF Locked, LockedInv, LoopInv
  <2>3. QED
    BY <2>1, <2>2, RestsImplemented, JoinsImplemented, OpensImplemented,
       WithdrawsImplemented, SettlesImplemented DEF Kinds
<1>3. ASSUME part # "locked", FlightsNext
      PROVE  Implemented
  BY <1>3 DEF FlightsNext, Implemented, SharedCurrent, SharedResults
<1>4. UNCHANGED <<frvars, part>> => Implemented
  BY DEF frvars, sfvars, Implemented, SharedCurrent, SharedResults, CurrentJob, FlightFor
<1>5. PartOK /\ PartOK' /\ [FlightsNext]_<<frvars, part>> => Implemented
  BY <1>2, <1>3, <1>4 DEF FlightsNext, PartOK
<1>6. PartInv => PartOK
  BY CurrentFlight DEF PartInv, PartOK
<1>7. QED
  BY <1>1, <1>5, <1>6, FlightsInvariant, PTL
     DEF FlightsSpec, SharesResult, Shared!Spec, Implemented

=============================================================================
