--------------------------- MODULE JobQueueProofs ---------------------------
(***************************************************************************)
(* Theorems about JobQueue, for any number of jobs, workers, users and     *)
(* stops and any limits: its type invariant, AttemptFence, AttemptsBounded,*)
(* CancelIsFinal and TerminalIsFinal.                                      *)
(*                                                                         *)
(* The argument is about single rows first: every update the repositories  *)
(* make is Good.  Then one step per action shows that the action applies   *)
(* Good updates to the rows and leaves each worker on the attempt it had.  *)
(***************************************************************************)
EXTENDS JobQueue, TLAPS
\* What is always true of one row, beyond its type.
Sound(r, max) ==
  /\ r.attempts <= max
  /\ r.status = "QUEUED" => r.attempts < max
  /\ r.status = "NONE" => r.attempts = 0
  /\ r.cancel => r.status \in {"RUNNING", "CANCELLED"}
  /\ r.delayed => r.status = "QUEUED"

\* What may become of a row in one step.
Evolves(r, s) ==
  /\ r.cancel => /\ s.cancel /\ s.attempts = r.attempts
                 /\ s.status \in {r.status, "CANCELLED"}
  /\ r.status \in Terminal => s = r
  /\ r.attempts <= s.attempts

\* The update starts no attempt and gives the lease to nobody.
KeepsLease(r, s) ==
  s.status = "RUNNING" =>
    r.status = "RUNNING" /\ s.owner = r.owner /\ s.attempts = r.attempts

Good(r, s, W, max) ==
  /\ s \in Row(W) /\ Sound(s, max)
  /\ Evolves(r, s)
  /\ KeepsLease(r, s)
  /\ r.status = "NONE" => s.status = "NONE"

GoodTable(t, s, W, max) ==
  /\ s \in [Job -> Row(W)]
  /\ \A j \in Job : Good(t[j], s[j], W, max)

SoundTable(t, W, max) ==
  /\ t \in [Job -> Row(W)]
  /\ \A j \in Job : Sound(t[j], max)

\* A worker that is not idle works on a job.
WorkOK ==
  /\ \A w \in DownloadWorker : dWork[w].phase # "idle" => dWork[w].job \in Job
  /\ \A w \in UploadWorker : uWork[w].phase # "idle" => uWork[w].job \in Job

\* There is no upload before its download has succeeded.
UploadAfterDownload ==
  \A j \in Job : dl[j].status # "SUCCEEDED" => up[j].status = "NONE"

\* The inductive invariant.
IInv ==
  /\ TypeOK
  /\ \A j \in Job : Sound(dl[j], DownloadMax) /\ Sound(up[j], UploadMax)
  /\ UploadAfterDownload
  /\ WorkOK
  /\ AttemptFence

-----------------------------------------------------------------------------
(* Rows.                                                                   *)

LEMMA SameEvolves ==
  ASSUME NEW W, NEW r \in Row(W)
  PROVE  Evolves(r, r)
  BY DEF Evolves, Row

LEMMA GoodSame ==
  ASSUME NEW W, NEW max \in Nat, NEW r \in Row(W), Sound(r, max)
  PROVE  Good(r, r, W, max)
  BY SameEvolves DEF Good, KeepsLease

LEMMA GoodTrans ==
  ASSUME NEW W, NEW max \in Nat,
         NEW r \in Row(W), NEW s \in Row(W), NEW t \in Row(W),
         Good(r, s, W, max), Good(s, t, W, max)
  PROVE  Good(r, t, W, max)
<1>1. Evolves(r, t)
  <2>1. r.attempts \in Nat /\ s.attempts \in Nat /\ t.attempts \in Nat
    BY DEF Row
  <2>2. QED
    BY <2>1 DEF Good, Evolves
<1>2. KeepsLease(r, t)
  BY DEF Good, KeepsLease
<1>3. QED
  BY <1>1, <1>2 DEF Good

LEMMA FailedRow ==
  ASSUME NEW W, NEW max \in Nat, NEW r \in Row(W), Sound(r, max),
         r.status \in Active
  PROVE  Good(r, Failed(r), W, max)
<1> DEFINE s == Failed(r)
<1>1. s \in Row(W)
  BY DEF Failed, Ended, Row, Terminal, Status
<1>2. s.status \in {"CANCELLED", "FAILED"} /\ s.attempts = r.attempts
      /\ s.cancel = r.cancel /\ s.delayed = FALSE
      /\ (r.cancel => s.status = "CANCELLED")
  BY DEF Failed, Ended, Row
<1>3. Sound(s, max)
  BY <1>2 DEF Sound, Row
<1>4. Evolves(r, s) /\ KeepsLease(r, s)
  BY <1>2 DEF Evolves, KeepsLease, Terminal, Active, Row
<1>5. QED
  BY <1>1, <1>3, <1>4 DEF Good, Active

LEMMA RequeuedRow ==
  ASSUME NEW W, NEW max \in Nat, NEW r \in Row(W), Sound(r, max),
         r.status = "RUNNING", ~r.cancel, ~(r.attempts >= max),
         NEW backoff \in BOOLEAN
  PROVE  Good(r, Requeued(r, backoff), W, max)
<1> DEFINE s == Requeued(r, backoff)
<1>1. s \in Row(W)
  BY DEF Requeued, Row, Terminal, Status
<1>2. s.status = "QUEUED" /\ s.attempts = r.attempts /\ s.cancel = FALSE
  BY DEF Requeued, Row
<1>3. r.attempts < max
  BY DEF Row
<1>4. Sound(s, max)
  BY <1>2, <1>3 DEF Sound
<1>5. Evolves(r, s) /\ KeepsLease(r, s)
  BY <1>2 DEF Evolves, KeepsLease, Terminal, Row
<1>6. QED
  BY <1>1, <1>4, <1>5 DEF Good

LEMMA SucceededRow ==
  ASSUME NEW W, NEW max \in Nat, NEW r \in Row(W), Sound(r, max),
         r.status \in Active, ~r.cancel
  PROVE  Good(r, Ended(r, "SUCCEEDED"), W, max)
<1> DEFINE s == Ended(r, "SUCCEEDED")
<1>1. s \in Row(W)
  BY DEF Ended, Row, Terminal, Status
<1>2. s.status = "SUCCEEDED" /\ s.attempts = r.attempts
      /\ s.cancel = FALSE /\ s.delayed = FALSE
  BY DEF Ended, Row
<1>3. Sound(s, max) /\ Evolves(r, s) /\ KeepsLease(r, s)
  BY <1>2 DEF Sound, Evolves, KeepsLease, Terminal, Active, Row
<1>4. QED
  BY <1>1, <1>2, <1>3 DEF Good, Active

LEMMA RecoveredRow ==
  ASSUME NEW W, NEW max \in Nat, NEW r \in Row(W), Sound(r, max)
  PROVE  Good(r, Recovered(r, max), W, max)
<1>1. CASE ~(r.status = "RUNNING" /\ r.expired)
  <2>1. Recovered(r, max) = r
    BY <1>1 DEF Recovered
  <2>2. QED
    BY <2>1, GoodSame
<1>2. CASE r.status = "RUNNING" /\ r.expired /\ (r.cancel \/ r.attempts >= max)
  <2>1. Good(r, Failed(r), W, max)
    BY <1>2, FailedRow DEF Active
  <2>2. Recovered(r, max) = Failed(r)
    BY <1>2 DEF Recovered
  <2>3. QED
    BY <2>1, <2>2
<1>3. CASE r.status = "RUNNING" /\ r.expired /\ ~(r.cancel \/ r.attempts >= max)
  <2>1. Good(r, Requeued(r, FALSE), W, max)
    BY <1>3, RequeuedRow
  <2>2. Recovered(r, max) = Requeued(r, FALSE)
    BY <1>3 DEF Recovered
  <2>3. QED
    BY <2>1, <2>2
<1>4. QED
  BY <1>1, <1>2, <1>3

LEMMA SettledRow ==
  ASSUME NEW W, NEW max \in Nat, NEW r \in Row(W), Sound(r, max),
         NEW w, NEW retryable \in BOOLEAN
  PROVE  Good(r, Settled(r, w, max, retryable), W, max)
<1>1. CASE ~Owned(r, w)
  <2>1. Settled(r, w, max, retryable) = r
    BY <1>1 DEF Settled
  <2>2. QED
    BY <2>1, GoodSame
<1>2. CASE Owned(r, w) /\ (r.cancel \/ r.attempts >= max \/ ~retryable)
  <2>1. Good(r, Failed(r), W, max)
    BY <1>2, FailedRow DEF Active, Owned
  <2>2. Settled(r, w, max, retryable) = Failed(r)
    BY <1>2 DEF Settled
  <2>3. QED
    BY <2>1, <2>2
<1>3. CASE Owned(r, w) /\ ~(r.cancel \/ r.attempts >= max \/ ~retryable)
  <2>1. Good(r, Requeued(r, TRUE), W, max)
    BY <1>3, RequeuedRow DEF Owned
  <2>2. Settled(r, w, max, retryable) = Requeued(r, TRUE)
    BY <1>3 DEF Settled
  <2>3. QED
    BY <2>1, <2>2
<1>4. QED
  BY <1>1, <1>2, <1>3

LEMMA CancelRequestedRow ==
  ASSUME NEW W, NEW max \in Nat, NEW r \in Row(W), Sound(r, max),
         r.status \in Active
  PROVE  Good(r, CancelRequested(r), W, max)
<1> DEFINE s == CancelRequested(r)
<1>1. s \in Row(W)
  BY DEF CancelRequested, Ended, Row, Terminal, Status, Active
<1>2. /\ s.attempts = r.attempts /\ s.cancel = TRUE
      /\ \/ r.status = "QUEUED" /\ s.status = "CANCELLED" /\ s.delayed = FALSE
         \/ /\ r.status = "RUNNING" /\ s.status = "RUNNING"
            /\ s.owner = r.owner /\ s.delayed = r.delayed
  BY DEF CancelRequested, Ended, Row, Active
<1>3. Sound(s, max) /\ Evolves(r, s) /\ KeepsLease(r, s)
  BY <1>2 DEF Sound, Evolves, KeepsLease, Terminal, Row
<1>4. QED
  BY <1>1, <1>2, <1>3 DEF Good

LEMMA LeasedRow ==
  ASSUME NEW W, NEW r \in Row(W), NEW w \in W
  PROVE  /\ Leased(r, w) \in Row(W)
         /\ Leased(r, w).status = "RUNNING" /\ Leased(r, w).owner = w
         /\ Leased(r, w).attempts = r.attempts + 1
         /\ Leased(r, w).cancel = r.cancel /\ Leased(r, w).delayed = r.delayed
<1> DEFINE n == r.attempts + 1
<1>1. n \in Nat
  BY DEF Row
<1>2. Leased(r, w) = [r EXCEPT !.status = "RUNNING", !.attempts = n, !.owner = w]
  BY DEF Leased, Row
<1> HIDE DEF n
<1>3. Leased(r, w) \in Row(W)
  BY <1>1, <1>2 DEF Row, Status, Terminal
<1>4. /\ Leased(r, w).status = "RUNNING" /\ Leased(r, w).owner = w
      /\ Leased(r, w).attempts = n
      /\ Leased(r, w).cancel = r.cancel /\ Leased(r, w).delayed = r.delayed
  BY <1>2 DEF Row
<1>5. QED
  BY <1>3, <1>4 DEF n

LEMMA ExpiryRow ==
  ASSUME NEW W, NEW max \in Nat, NEW r \in Row(W), Sound(r, max),
         r.status = "RUNNING", NEW b \in BOOLEAN
  PROVE  Good(r, [r EXCEPT !.expired = b], W, max)
  BY DEF Good, Row, Sound, Evolves, KeepsLease, Terminal, Status

LEMMA BackoffRow ==
  ASSUME NEW W, NEW max \in Nat, NEW r \in Row(W), Sound(r, max), r.delayed
  PROVE  Good(r, [r EXCEPT !.delayed = FALSE], W, max)
<1> DEFINE s == [r EXCEPT !.delayed = FALSE]
<1>1. s \in Row(W)
  BY DEF Row
<1>2. /\ s.status = r.status /\ s.attempts = r.attempts /\ s.cancel = r.cancel
      /\ s.owner = r.owner /\ s.delayed = FALSE
  BY DEF Row
<1>3. Sound(s, max) /\ Evolves(r, s) /\ KeepsLease(r, s)
  BY <1>2 DEF Sound, Evolves, KeepsLease, Terminal, Row
<1>4. QED
  BY <1>1, <1>2, <1>3 DEF Good

LEMMA StartupRowGood ==
  ASSUME NEW W, NEW max \in Nat, NEW r \in Row(W), Sound(r, max),
         NEW cached \in BOOLEAN, NEW present \in BOOLEAN
  PROVE  Good(r, StartupRow(r, cached, present), W, max)
<1>1. CASE r.status \notin Active
  <2>1. StartupRow(r, cached, present) = r
    BY <1>1 DEF StartupRow
  <2>2. QED
    BY <2>1, GoodSame
<1>2. CASE r.status \in Active /\ cached /\ ~r.cancel
  <2>1. Good(r, Ended(r, "SUCCEEDED"), W, max)
    BY <1>2, SucceededRow
  <2>2. StartupRow(r, cached, present) = Ended(r, "SUCCEEDED")
    BY <1>2 DEF StartupRow
  <2>3. QED
    BY <2>1, <2>2
<1>3. CASE r.status \in Active /\ ~(cached /\ ~r.cancel) /\ ~present
  <2>1. Good(r, Failed(r), W, max)
    BY <1>3, FailedRow
  <2>2. StartupRow(r, cached, present) = Failed(r)
    BY <1>3 DEF StartupRow
  <2>3. QED
    BY <2>1, <2>2
<1>4. CASE r.status \in Active /\ ~(cached /\ ~r.cancel) /\ present
  <2>1. StartupRow(r, cached, present) = r
    BY <1>4 DEF StartupRow
  <2>2. QED
    BY <2>1, GoodSame
<1>5. QED
  BY <1>1, <1>2, <1>3, <1>4

-----------------------------------------------------------------------------
(* Tables.                                                                 *)

LEMMA TableSame ==
  ASSUME NEW W, NEW max \in Nat, NEW t, SoundTable(t, W, max)
  PROVE  GoodTable(t, t, W, max)
<1>1. ASSUME NEW j \in Job
      PROVE  Good(t[j], t[j], W, max)
  BY GoodSame DEF SoundTable
<1>2. QED
  BY <1>1 DEF GoodTable, SoundTable

LEMMA TableOneRow ==
  ASSUME NEW W, NEW max \in Nat, NEW t, SoundTable(t, W, max),
         NEW j \in Job, NEW r, Good(t[j], r, W, max)
  PROVE  GoodTable(t, [t EXCEPT ![j] = r], W, max)
<1> DEFINE s == [t EXCEPT ![j] = r]
<1>1. s \in [Job -> Row(W)]
  BY DEF SoundTable, Good
<1>2. ASSUME NEW i \in Job
      PROVE  Good(t[i], s[i], W, max)
  <2>1. CASE i = j
    BY <2>1 DEF SoundTable
  <2>2. CASE i # j
    <3>1. s[i] = t[i]
      BY <2>2 DEF SoundTable
    <3>2. QED
      BY <3>1, GoodSame DEF SoundTable
  <2>3. QED
    BY <2>1, <2>2
<1>3. QED
  BY <1>1, <1>2 DEF GoodTable

LEMMA TableRecovered ==
  ASSUME NEW W, NEW max \in Nat, NEW t, SoundTable(t, W, max)
  PROVE  GoodTable(t, RecoveredRows(t, max), W, max)
<1>1. ASSUME NEW j \in Job
      PROVE  Good(t[j], Recovered(t[j], max), W, max)
  BY RecoveredRow DEF SoundTable
<1>2. RecoveredRows(t, max) \in [Job -> Row(W)]
  BY <1>1 DEF RecoveredRows, Good
<1>3. QED
  BY <1>1, <1>2 DEF GoodTable, RecoveredRows

LEMMA TableGoodSound ==
  ASSUME NEW W, NEW max, NEW t, NEW s, GoodTable(t, s, W, max)
  PROVE  SoundTable(s, W, max)
  BY DEF GoodTable, Good, SoundTable

\* A claim: recovered rows, one of which a worker then leases.
Claimed(t, s, w, j, max) ==
  LET rec == RecoveredRows(t, max) IN
  j \in Due(rec) /\ s = [rec EXCEPT ![j] = Leased(rec[j], w)]

ClaimedWell(t, s, w, j, W, max) ==
  /\ SoundTable(s, W, max)
  /\ \A i \in Job : Evolves(t[i], s[i])
  /\ \A i \in Job : t[i].status = "NONE" => s[i].status = "NONE"
  /\ \A i \in Job \ {j} : KeepsLease(t[i], s[i])
  /\ s[j].owner = w /\ s[j].attempts = RecoveredRows(t, max)[j].attempts + 1

LEMMA TableClaimed ==
  ASSUME NEW W, NEW max \in Nat, NEW t, NEW s, NEW j, NEW w \in W,
         SoundTable(t, W, max), Claimed(t, s, w, j, max)
  PROVE  ClaimedWell(t, s, w, j, W, max)
<1> DEFINE rec == RecoveredRows(t, max)
<1>0. j \in Due(rec) /\ s = [rec EXCEPT ![j] = Leased(rec[j], w)]
  BY DEF Claimed
<1> HIDE DEF rec
<1>1. GoodTable(t, rec, W, max)
  BY TableRecovered DEF rec
<1>2. /\ j \in Job /\ rec[j].status = "QUEUED" /\ ~rec[j].cancel /\ ~rec[j].delayed
  BY <1>0 DEF Due
<1>3. /\ rec \in [Job -> Row(W)] /\ rec[j] \in Row(W)
      /\ rec[j].attempts \in Nat /\ rec[j].attempts < max
  <2>1. rec \in [Job -> Row(W)] /\ Good(t[j], rec[j], W, max)
    BY <1>1, <1>2 DEF GoodTable
  <2>2. rec[j] \in Row(W) /\ Sound(rec[j], max)
    BY <2>1 DEF Good
  <2>3. QED
    BY <1>2, <2>1, <2>2 DEF Sound, Row
<1>4. s[j] = Leased(rec[j], w)
  BY <1>0, <1>2, <1>3
<1>5. /\ s[j] \in Row(W)
      /\ s[j].status = "RUNNING" /\ s[j].owner = w
      /\ s[j].attempts = rec[j].attempts + 1
      /\ ~s[j].cancel /\ ~s[j].delayed
  <2> DEFINE r == rec[j]
  <2>1. /\ r \in Row(W) /\ r.status = "QUEUED" /\ ~r.cancel /\ ~r.delayed
        /\ s[j] = Leased(r, w) /\ r.attempts \in Nat
    BY <1>2, <1>3, <1>4
  <2> HIDE DEF r
  <2>2. QED
    BY <2>1, LeasedRow DEF r
<1>6. Sound(s[j], max)
  BY <1>3, <1>5 DEF Sound
<1>7. Evolves(t[j], s[j]) /\ t[j].status # "NONE"
  <2>1. Good(t[j], rec[j], W, max)
    BY <1>1, <1>2 DEF GoodTable
  <2>2. /\ t[j].status # "NONE" /\ t[j].status \notin Terminal /\ ~t[j].cancel
        /\ t[j].attempts <= rec[j].attempts
    BY <2>1, <1>2 DEF Good, Evolves, Terminal
  <2>3. t[j].attempts \in Nat
    BY <1>2 DEF SoundTable, Row
  <2>4. t[j].attempts <= s[j].attempts
    BY <1>3, <1>5, <2>2, <2>3
  <2>5. QED
    BY <2>2, <2>4 DEF Evolves
<1>8. ASSUME NEW i \in Job, i # j
      PROVE  s[i] = rec[i] /\ Good(t[i], s[i], W, max)
  BY <1>0, <1>1, <1>3, <1>8 DEF GoodTable
<1>9. SoundTable(s, W, max)
  <2>1. s \in [Job -> Row(W)]
    BY <1>0, <1>3, <1>4, <1>5
  <2>2. ASSUME NEW i \in Job PROVE Sound(s[i], max)
    BY <1>6, <1>8 DEF Good
  <2>3. QED
    BY <2>1, <2>2 DEF SoundTable
<1>10. ASSUME NEW i \in Job
       PROVE  Evolves(t[i], s[i]) /\ (t[i].status = "NONE" => s[i].status = "NONE")
  <2>1. CASE i = j
    BY <2>1, <1>7
  <2>2. CASE i # j
    BY <2>2, <1>8 DEF Good
  <2>3. QED
    BY <2>1, <2>2
<1>11. ASSUME NEW i \in Job \ {j} PROVE KeepsLease(t[i], s[i])
  BY <1>8 DEF Good
<1>12. QED
  BY <1>5, <1>9, <1>10, <1>11 DEF ClaimedWell, rec

-----------------------------------------------------------------------------
(* Steps.  Most actions leave every worker on its attempt and make only    *)
(* Good updates; Preserve says that this is enough.                        *)

DownloadWorkType ==
  [DownloadWorker -> [job : Job \cup {0}, attempt : Nat, phase : DownloadPhase]]

UploadWorkType == [UploadWorker -> [job : Job \cup {0}, phase : UploadPhase]]

DownloadWorkKept ==
  /\ dWork' \in DownloadWorkType
  /\ \A w \in DownloadWorker : dWork'[w].phase # "idle" =>
       /\ dWork[w].phase # "idle"
       /\ dWork'[w].job = dWork[w].job /\ dWork'[w].attempt = dWork[w].attempt

UploadWorkKept ==
  /\ uWork' \in UploadWorkType
  /\ \A w \in UploadWorker : uWork'[w].phase # "idle" =>
       /\ uWork[w].phase # "idle"
       /\ uWork'[w].job = uWork[w].job

OtherTypes ==
  /\ artifact \in [Job -> Nat]
  /\ requesters \in [Job -> SUBSET User]
  /\ disk \subseteq Job \X Nat
  /\ mode \in {"up", "stopping", "draining", "down"}
  /\ stops \in Nat

RowsEvolve ==
  \A j \in Job : Evolves(dl[j], dl'[j]) /\ Evolves(up[j], up'[j])

DownloadRowsGood == GoodTable(dl, dl', DownloadWorker, DownloadMax)
UploadRowsGood == GoodTable(up, up', UploadWorker, UploadMax)

LEMMA MaxNat == DownloadMax \in Nat /\ UploadMax \in Nat
  BY LimitAssumption

LEMMA RowsSound ==
  ASSUME IInv
  PROVE  /\ SoundTable(dl, DownloadWorker, DownloadMax)
         /\ SoundTable(up, UploadWorker, UploadMax)
  BY DEF IInv, TypeOK, SoundTable

LEMMA RowsUnchanged ==
  ASSUME IInv
  PROVE  /\ dl' = dl => DownloadRowsGood
         /\ up' = up => UploadRowsGood
  BY RowsSound, TableSame, MaxNat DEF DownloadRowsGood, UploadRowsGood

LEMMA OneDownloadRow ==
  ASSUME IInv, NEW j \in Job, NEW r, Good(dl[j], r, DownloadWorker, DownloadMax),
         dl' = [dl EXCEPT ![j] = r]
  PROVE  DownloadRowsGood
  BY RowsSound, TableOneRow, MaxNat DEF DownloadRowsGood

LEMMA OneUploadRow ==
  ASSUME IInv, NEW j \in Job, NEW r, Good(up[j], r, UploadWorker, UploadMax),
         up' = [up EXCEPT ![j] = r]
  PROVE  UploadRowsGood
  BY RowsSound, TableOneRow, MaxNat DEF UploadRowsGood

LEMMA WorkUnchanged ==
  ASSUME IInv
  PROVE  /\ dWork' = dWork => DownloadWorkKept
         /\ uWork' = uWork => UploadWorkKept
  BY DEF IInv, TypeOK, DownloadWorkKept, UploadWorkKept, DownloadWorkType, UploadWorkType

LEMMA DownloadPhaseStep ==
  ASSUME IInv, NEW w \in DownloadWorker, NEW phase \in DownloadPhase,
         dWork[w].phase # "idle", DownloadStep(w, phase)
  PROVE  DownloadWorkKept
  BY DEF IInv, TypeOK, DownloadStep, DownloadWorkKept, DownloadWorkType

LEMMA DownloadIdleStep ==
  ASSUME IInv, NEW w \in DownloadWorker,
         dWork' = [dWork EXCEPT ![w] = IdleDownload]
  PROVE  DownloadWorkKept
  BY DEF IInv, TypeOK, DownloadWorkKept, DownloadWorkType, IdleDownload, DownloadPhase

LEMMA UploadPhaseStep ==
  ASSUME IInv, NEW w \in UploadWorker, NEW phase \in UploadPhase,
         uWork[w].phase # "idle", UploadStep(w, phase)
  PROVE  UploadWorkKept
  BY DEF IInv, TypeOK, UploadStep, UploadWorkKept, UploadWorkType

LEMMA UploadIdleStep ==
  ASSUME IInv, NEW w \in UploadWorker,
         uWork' = [uWork EXCEPT ![w] = IdleUpload]
  PROVE  UploadWorkKept
  BY DEF IInv, TypeOK, UploadWorkKept, UploadWorkType, IdleUpload, UploadPhase

LEMMA Preserve ==
  ASSUME IInv, DownloadRowsGood, UploadRowsGood,
         DownloadWorkKept, UploadWorkKept, OtherTypes'
  PROVE  IInv' /\ RowsEvolve
<1>1. /\ SoundTable(dl', DownloadWorker, DownloadMax)
      /\ SoundTable(up', UploadWorker, UploadMax)
  BY TableGoodSound DEF DownloadRowsGood, UploadRowsGood
<1>2. TypeOK'
  BY <1>1 DEF SoundTable, OtherTypes, DownloadWorkKept, UploadWorkKept,
              DownloadWorkType, UploadWorkType, TypeOK
<1>3. RowsEvolve
  BY DEF RowsEvolve, DownloadRowsGood, UploadRowsGood, GoodTable, Good
<1>4. UploadAfterDownload'
  <2>1. SUFFICES ASSUME NEW j \in Job, dl'[j].status # "SUCCEEDED"
                 PROVE  up'[j].status = "NONE"
    BY DEF UploadAfterDownload
  <2>2. dl[j].status # "SUCCEEDED"
    BY <1>3, <2>1 DEF RowsEvolve, Evolves, Terminal
  <2>3. up[j].status = "NONE"
    BY <2>2 DEF IInv, UploadAfterDownload
  <2>4. QED
    BY <2>3 DEF UploadRowsGood, GoodTable, Good
<1>5. WorkOK'
  BY DEF IInv, WorkOK, DownloadWorkKept, UploadWorkKept
<1>6. AttemptFence'
  <2>1. SUFFICES ASSUME NEW w \in DownloadWorker, dWork'[w].phase # "idle",
                        Owned(dl'[dWork'[w].job], w)
                 PROVE  dWork'[w].attempt = dl'[dWork'[w].job].attempts
    BY DEF AttemptFence
  <2> DEFINE j == dWork[w].job
  <2>2. /\ dWork[w].phase # "idle" /\ j \in Job
        /\ dWork'[w].job = j /\ dWork'[w].attempt = dWork[w].attempt
    BY <2>1 DEF IInv, WorkOK, DownloadWorkKept
  <2>3. KeepsLease(dl[j], dl'[j])
    BY <2>2 DEF DownloadRowsGood, GoodTable, Good
  <2>4. Owned(dl[j], w) /\ dl'[j].attempts = dl[j].attempts
    BY <2>1, <2>2, <2>3 DEF KeepsLease, Owned
  <2>5. QED
    BY <2>2, <2>4 DEF IInv, AttemptFence
<1>7. QED
  BY <1>1, <1>2, <1>3, <1>4, <1>5, <1>6 DEF IInv, SoundTable

\* A hired job's number is a job: what a busy worker's updates are about.
LEMMA BusyWorker ==
  ASSUME IInv
  PROVE  /\ \A w \in DownloadWorker : dWork[w].phase # "idle" =>
              dWork[w].job \in Job /\ Produced(w) \in Job \X Nat
         /\ \A w \in UploadWorker : uWork[w].phase # "idle" => uWork[w].job \in Job
  BY DEF IInv, TypeOK, WorkOK, Produced

LEMMA RowsTyped ==
  ASSUME IInv, NEW j \in Job
  PROVE  /\ dl[j] \in Row(DownloadWorker) /\ Sound(dl[j], DownloadMax)
         /\ up[j] \in Row(UploadWorker) /\ Sound(up[j], UploadMax)
  BY DEF IInv, TypeOK

LEMMA TypesUnchanged ==
  ASSUME IInv
  PROVE  OtherTypes /\ (\A S : (disk' = disk \ S) => disk' \subseteq Job \X Nat)
  BY DEF IInv, TypeOK, OtherTypes

LEMMA SubmitStep ==
  ASSUME IInv, NEW j \in Job, Submit(j)
  PROVE  IInv' /\ RowsEvolve
<1>1. /\ dl[j].status = "NONE" /\ dl' = [dl EXCEPT ![j] = NewRow]
      /\ UNCHANGED <<up, artifact, requesters, disk, dWork, uWork, mode, stops>>
  BY DEF Submit, work, process
<1>2. /\ NewRow \in Row(DownloadWorker)
      /\ NewRow.status = "QUEUED" /\ NewRow.attempts = 0
      /\ NewRow.cancel = FALSE /\ NewRow.delayed = FALSE
  BY DEF NewRow, NoRow, Row, Status, Terminal
<1>3. Sound(NewRow, DownloadMax) /\ Evolves(dl[j], NewRow)
  <2>1. ~dl[j].cancel /\ dl[j].attempts = 0
    BY <1>1, RowsTyped DEF Sound
  <2>2. QED
    BY <1>1, <1>2, <2>1, LimitAssumption DEF Sound, Evolves, Terminal
<1>4. dl' \in [Job -> Row(DownloadWorker)]
  BY <1>1, <1>2 DEF IInv, TypeOK
<1>5. /\ dl'[j] = NewRow
      /\ \A i \in Job : i # j => dl'[i] = dl[i]
  BY <1>1 DEF IInv, TypeOK
<1>6. TypeOK'
  BY <1>1, <1>4 DEF IInv, TypeOK
<1>7. \A i \in Job : Sound(dl'[i], DownloadMax) /\ Sound(up'[i], UploadMax)
  BY <1>1, <1>3, <1>5 DEF IInv
<1>8. UploadAfterDownload'
  <2>1. ASSUME NEW i \in Job, dl'[i].status # "SUCCEEDED"
        PROVE  up[i].status = "NONE"
    BY <1>1, <1>5, <2>1 DEF IInv, UploadAfterDownload
  <2>2. QED
    BY <1>1, <2>1 DEF UploadAfterDownload
<1>9. WorkOK'
  BY <1>1 DEF IInv, WorkOK
<1>10. AttemptFence'
  <2>1. ASSUME NEW w \in DownloadWorker, dWork[w].phase # "idle",
               Owned(dl'[dWork[w].job], w)
        PROVE  dWork[w].attempt = dl'[dWork[w].job].attempts
    <3>1. dWork[w].job \in Job
      BY <2>1, BusyWorker
    <3>2. dWork[w].job # j
      BY <1>2, <1>5, <2>1 DEF Owned
    <3>3. dl'[dWork[w].job] = dl[dWork[w].job]
      BY <1>5, <3>1, <3>2
    <3>4. QED
      BY <2>1, <3>3 DEF IInv, AttemptFence
  <2>2. QED
    BY <1>1, <2>1 DEF AttemptFence
<1>11. RowsEvolve
  <2>1. ASSUME NEW i \in Job
        PROVE  Evolves(dl[i], dl'[i]) /\ Evolves(up[i], up'[i])
    <3>1. Evolves(up[i], up'[i])
      BY <1>1, RowsTyped, SameEvolves
    <3>2. CASE i = j
      BY <1>3, <1>5, <3>1, <3>2
    <3>3. CASE i # j
      BY <1>5, <3>1, <3>3, RowsTyped, SameEvolves
    <3>4. QED
      BY <3>2, <3>3
  <2>2. QED
    BY <2>1 DEF RowsEvolve
<1>12. QED
  BY <1>6, <1>7, <1>8, <1>9, <1>10, <1>11 DEF IInv

LEMMA UserSteps ==
  ASSUME IInv, UserStep
  PROVE  IInv' /\ RowsEvolve
<1>1. ASSUME NEW j \in Job, CancelDownload(j)
      PROVE  IInv' /\ RowsEvolve
  <2>1. DownloadRowsGood
    BY <1>1, RowsTyped, CancelRequestedRow, OneDownloadRow, MaxNat DEF CancelDownload
  <2>2. UNCHANGED <<up, artifact, requesters, disk, dWork, uWork, mode, stops>>
    BY <1>1 DEF CancelDownload, work, process
  <2>3. QED
    BY <2>1, <2>2, RowsUnchanged, WorkUnchanged, TypesUnchanged, Preserve DEF OtherTypes
<1>2. ASSUME NEW j \in Job, CancelUpload(j)
      PROVE  IInv' /\ RowsEvolve
  <2>1. UploadRowsGood
    BY <1>2, RowsTyped, CancelRequestedRow, OneUploadRow, MaxNat DEF CancelUpload
  <2>2. /\ UNCHANGED <<dl, artifact, requesters, dWork, uWork, mode, stops>>
        /\ disk' \subseteq disk
    BY <1>2 DEF CancelUpload, work, process
  <2>3. QED
    BY <2>1, <2>2, RowsUnchanged, WorkUnchanged, TypesUnchanged, Preserve DEF OtherTypes
<1>3. ASSUME NEW j \in Job, NEW u \in User, Attribute(j, u)
      PROVE  IInv' /\ RowsEvolve
  <2>1. /\ requesters' = [requesters EXCEPT ![j] = @ \cup {u}]
        /\ UNCHANGED <<dl, up, artifact, disk, dWork, uWork, mode, stops>>
    BY <1>3 DEF Attribute, rows, work, process
  <2>2. OtherTypes'
    BY <2>1, TypesUnchanged DEF OtherTypes
  <2>3. QED
    BY <2>1, <2>2, RowsUnchanged, WorkUnchanged, Preserve
<1>4. QED
  BY <1>1, <1>2, <1>3, SubmitStep DEF UserStep

LEMMA ClockSteps ==
  ASSUME IInv, ClockStep
  PROVE  IInv' /\ RowsEvolve
<1>1. ASSUME NEW j \in Job, LeaseExpires(j)
      PROVE  IInv' /\ RowsEvolve
  <2>1. UNCHANGED <<artifact, requesters, disk, dWork, uWork, mode, stops>>
    BY <1>1 DEF LeaseExpires, work, process
  <2>2. DownloadRowsGood /\ UploadRowsGood
    <3>1. CASE /\ dl[j].status = "RUNNING" /\ up' = up
               /\ dl' = [dl EXCEPT ![j].expired = TRUE]
      BY <3>1, RowsTyped, ExpiryRow, OneDownloadRow, RowsUnchanged, MaxNat
    <3>2. CASE /\ up[j].status = "RUNNING" /\ dl' = dl
               /\ up' = [up EXCEPT ![j].expired = TRUE]
      BY <3>2, RowsTyped, ExpiryRow, OneUploadRow, RowsUnchanged, MaxNat
    <3>3. QED
      BY <1>1, <3>1, <3>2 DEF LeaseExpires
  <2>3. QED
    BY <2>1, <2>2, WorkUnchanged, TypesUnchanged, Preserve DEF OtherTypes
<1>2. ASSUME NEW j \in Job, BackoffElapses(j)
      PROVE  IInv' /\ RowsEvolve
  <2>1. UNCHANGED <<artifact, requesters, disk, dWork, uWork, mode, stops>>
    BY <1>2 DEF BackoffElapses, work, process
  <2>2. DownloadRowsGood /\ UploadRowsGood
    <3>1. CASE /\ dl[j].delayed /\ up' = up
               /\ dl' = [dl EXCEPT ![j].delayed = FALSE]
      BY <3>1, RowsTyped, BackoffRow, OneDownloadRow, RowsUnchanged, MaxNat
    <3>2. CASE /\ up[j].delayed /\ dl' = dl
               /\ up' = [up EXCEPT ![j].delayed = FALSE]
      BY <3>2, RowsTyped, BackoffRow, OneUploadRow, RowsUnchanged, MaxNat
    <3>3. QED
      BY <1>2, <3>1, <3>2 DEF BackoffElapses
  <2>3. QED
    BY <2>1, <2>2, WorkUnchanged, TypesUnchanged, Preserve DEF OtherTypes
<1>3. QED
  BY <1>1, <1>2 DEF ClockStep

\* The fence at a claim: the claimed row now names w, which works on the
\* attempt it just started; every other lease is what it was.
LEMMA ClaimDownloadStep ==
  ASSUME IInv, NEW w \in DownloadWorker, ClaimDownload(w)
  PROVE  IInv' /\ RowsEvolve
<1> DEFINE rec == RecoveredRows(dl, DownloadMax)
<1> DEFINE ready == {i \in Due(rec) : UnderUserLimit(rec, i)}
<1>1. UNCHANGED <<up, artifact, requesters, disk, uWork, mode, stops>>
  BY DEF ClaimDownload, process
<1>2. CASE dl' = rec /\ dWork' = dWork
  <2>1. DownloadRowsGood
    BY <1>2, RowsSound, TableRecovered, MaxNat DEF DownloadRowsGood
  <2>2. QED
    BY <1>1, <1>2, <2>1, RowsUnchanged, WorkUnchanged, TypesUnchanged, Preserve
       DEF OtherTypes
<1>3. ASSUME NEW j \in First(ready),
             dl' = [rec EXCEPT ![j] = Leased(@, w)],
             dWork' = [dWork EXCEPT ![w] =
               [job |-> j, attempt |-> rec[j].attempts + 1, phase |-> "working"]]
      PROVE  IInv' /\ RowsEvolve
  <2>1. j \in Due(rec) /\ j \in Job
    BY <1>3 DEF First, Due
  <2>2. /\ SoundTable(dl', DownloadWorker, DownloadMax)
        /\ \A i \in Job : Evolves(dl[i], dl'[i])
        /\ \A i \in Job \ {j} : KeepsLease(dl[i], dl'[i])
        /\ dl'[j].owner = w /\ dl'[j].attempts = rec[j].attempts + 1
    <3>1. Claimed(dl, dl', w, j, DownloadMax)
      BY <1>3, <2>1 DEF Claimed
    <3>2. ClaimedWell(dl, dl', w, j, DownloadWorker, DownloadMax)
      BY <3>1, RowsSound, TableClaimed, MaxNat
    <3>3. QED
      BY <3>2 DEF ClaimedWell
  <2>3. rec[j].attempts + 1 \in Nat
    BY <2>1, <2>2 DEF SoundTable, Row
  <2> DEFINE new == [job |-> j, attempt |-> rec[j].attempts + 1, phase |-> "working"]
  <2> HIDE DEF rec, ready
  <2>4. /\ new \in [job : Job \cup {0}, attempt : Nat, phase : DownloadPhase]
        /\ new.job = j /\ new.attempt = rec[j].attempts + 1
    BY <2>1, <2>3 DEF DownloadPhase
  <2> HIDE DEF new
  <2>5. /\ dWork' \in DownloadWorkType
        /\ dWork'[w] = new
        /\ \A v \in DownloadWorker : v # w => dWork'[v] = dWork[v]
    BY <1>3, <2>4 DEF IInv, TypeOK, DownloadWorkType, new
  <2>6. TypeOK'
    BY <1>1, <2>2, <2>5 DEF IInv, TypeOK, SoundTable, DownloadWorkType
  <2>7. \A i \in Job : Sound(dl'[i], DownloadMax) /\ Sound(up'[i], UploadMax)
    BY <1>1, <2>2 DEF IInv, SoundTable
  <2>8. RowsEvolve
    BY <1>1, <2>2, RowsTyped, SameEvolves DEF RowsEvolve
  <2>9. UploadAfterDownload'
    BY <1>1, <2>2 DEF IInv, UploadAfterDownload, Evolves, Terminal
  <2>10. WorkOK'
    BY <1>1, <2>1, <2>4, <2>5 DEF IInv, WorkOK
  <2>11. AttemptFence'
    <3>1. SUFFICES ASSUME NEW v \in DownloadWorker, dWork'[v].phase # "idle",
                          Owned(dl'[dWork'[v].job], v)
                   PROVE  dWork'[v].attempt = dl'[dWork'[v].job].attempts
      BY DEF AttemptFence
    <3>2. CASE v = w
      BY <2>2, <2>4, <2>5, <3>2
    <3>3. CASE v # w
      <4> DEFINE i == dWork[v].job
      <4>1. dWork'[v] = dWork[v] /\ i \in Job /\ dWork[v].phase # "idle"
        BY <2>5, <3>1, <3>3, BusyWorker
      <4>2. i # j
        BY <2>2, <3>1, <3>3, <4>1 DEF Owned
      <4>3. KeepsLease(dl[i], dl'[i])
        BY <2>2, <4>1, <4>2
      <4>4. Owned(dl[i], v) /\ dl'[i].attempts = dl[i].attempts
        BY <3>1, <4>1, <4>3 DEF KeepsLease, Owned
      <4>5. QED
        BY <4>1, <4>4 DEF IInv, AttemptFence
    <3>4. QED
      BY <3>2, <3>3
  <2>12. QED
    BY <2>6, <2>7, <2>8, <2>9, <2>10, <2>11 DEF IInv
<1>4. QED
  BY <1>2, <1>3 DEF ClaimDownload

\* The handoff ends the download and creates the upload in one transaction.
LEMMA HandoffStep ==
  ASSUME IInv, NEW w \in DownloadWorker, HandoffCommit(w), DownloadWorkKept,
         disk' \subseteq disk, UNCHANGED <<requesters, uWork, mode, stops>>
  PROVE  IInv' /\ RowsEvolve
<1> DEFINE j == dWork[w].job
<1>1. /\ dWork[w].phase = "produced" /\ j \in Job
      /\ dl[j].status = "RUNNING" /\ ~dl[j].cancel
      /\ dl' = [dl EXCEPT ![j] = Ended(@, "SUCCEEDED")]
      /\ up' = [up EXCEPT ![j] = NewRow]
      /\ artifact' = [artifact EXCEPT ![j] = dWork[w].attempt]
  BY BusyWorker DEF HandoffCommit, HandoffAccepted, Owned
<1>2. DownloadRowsGood
  <2>1. Good(dl[j], Ended(dl[j], "SUCCEEDED"), DownloadWorker, DownloadMax)
    BY <1>1, RowsTyped, SucceededRow, MaxNat DEF Active
  <2>2. QED
    BY <1>1, <2>1, OneDownloadRow
<1>3. /\ NewRow \in Row(UploadWorker)
      /\ NewRow.status = "QUEUED" /\ NewRow.attempts = 0
      /\ NewRow.cancel = FALSE /\ NewRow.delayed = FALSE
  BY DEF NewRow, NoRow, Row, Status, Terminal
<1>4. up[j].status = "NONE" /\ ~up[j].cancel /\ up[j].attempts = 0
  BY <1>1, RowsTyped DEF IInv, UploadAfterDownload, Sound
<1>5. Sound(NewRow, UploadMax) /\ Evolves(up[j], NewRow)
  BY <1>3, <1>4, LimitAssumption DEF Sound, Evolves, Terminal
<1>6. /\ up' \in [Job -> Row(UploadWorker)] /\ up'[j] = NewRow
      /\ \A i \in Job : i # j => up'[i] = up[i]
  BY <1>1, <1>3 DEF IInv, TypeOK
<1>7. SoundTable(dl', DownloadWorker, DownloadMax)
  BY <1>2, TableGoodSound DEF DownloadRowsGood
<1>8. artifact' \in [Job -> Nat]
  BY <1>1 DEF IInv, TypeOK
<1>9. TypeOK'
  BY <1>6, <1>7, <1>8 DEF IInv, TypeOK, SoundTable, DownloadWorkKept, DownloadWorkType
<1>10. \A i \in Job : Sound(dl'[i], DownloadMax) /\ Sound(up'[i], UploadMax)
  BY <1>5, <1>6, <1>7 DEF IInv, SoundTable
<1>11. RowsEvolve
  <2>1. ASSUME NEW i \in Job PROVE Evolves(up[i], up'[i])
    BY <1>5, <1>6, RowsTyped, SameEvolves
  <2>2. QED
    BY <1>2, <2>1 DEF RowsEvolve, DownloadRowsGood, GoodTable, Good
<1>12. UploadAfterDownload'
  <2>1. SUFFICES ASSUME NEW i \in Job, dl'[i].status # "SUCCEEDED"
                 PROVE  up'[i].status = "NONE"
    BY DEF UploadAfterDownload
  <2>2. dl'[j].status = "SUCCEEDED"
    BY <1>1, RowsTyped DEF Ended, Row, IInv, TypeOK
  <2>3. i # j /\ dl[i].status # "SUCCEEDED"
    BY <1>11, <2>1, <2>2 DEF RowsEvolve, Evolves, Terminal
  <2>4. QED
    BY <1>6, <2>3 DEF IInv, UploadAfterDownload
<1>13. WorkOK'
  BY DEF IInv, WorkOK, DownloadWorkKept
<1>14. AttemptFence'
  <2>1. SUFFICES ASSUME NEW v \in DownloadWorker, dWork'[v].phase # "idle",
                        Owned(dl'[dWork'[v].job], v)
                 PROVE  dWork'[v].attempt = dl'[dWork'[v].job].attempts
    BY DEF AttemptFence
  <2> DEFINE i == dWork[v].job
  <2>2. /\ dWork[v].phase # "idle" /\ i \in Job
        /\ dWork'[v].job = i /\ dWork'[v].attempt = dWork[v].attempt
    BY <2>1, BusyWorker DEF DownloadWorkKept
  <2>3. KeepsLease(dl[i], dl'[i])
    BY <1>2, <2>2 DEF DownloadRowsGood, GoodTable, Good
  <2>4. Owned(dl[i], v) /\ dl'[i].attempts = dl[i].attempts
    BY <2>1, <2>2, <2>3 DEF KeepsLease, Owned
  <2>5. QED
    BY <2>2, <2>4 DEF IInv, AttemptFence
<1>15. QED
  BY <1>9, <1>10, <1>11, <1>12, <1>13, <1>14 DEF IInv

\* A worker step that leaves the rows alone and only moves its own phase.
LEMMA DownloadPhaseOnly ==
  ASSUME IInv, NEW w \in DownloadWorker, NEW phase \in DownloadPhase,
         dWork[w].phase # "idle", DownloadStep(w, phase),
         disk' \subseteq disk \cup {Produced(w)},
         UNCHANGED <<dl, up, artifact, requesters, uWork, mode, stops>>
  PROVE  IInv' /\ RowsEvolve
<1>1. DownloadWorkKept
  BY DownloadPhaseStep
<1>2. OtherTypes'
  BY BusyWorker, TypesUnchanged DEF OtherTypes
<1>3. QED
  BY <1>1, <1>2, RowsUnchanged, WorkUnchanged, Preserve

LEMMA DownloadSteps ==
  ASSUME IInv, NEW w \in DownloadWorker, DownloadWorkerStep(w)
  PROVE  IInv' /\ RowsEvolve
<1>1. CASE HeartbeatDownload(w)
  <2> DEFINE j == dWork[w].job
  <2>1. /\ j \in Job /\ dl[j].status = "RUNNING"
        /\ dl' = [dl EXCEPT ![j] = [dl[j] EXCEPT !.expired = FALSE]]
        /\ UNCHANGED <<up, artifact, requesters, disk, dWork, uWork, mode, stops>>
    BY <1>1, BusyWorker DEF HeartbeatDownload, Owned, work, process
  <2>2. DownloadRowsGood
    BY <2>1, RowsTyped, ExpiryRow, OneDownloadRow, MaxNat
  <2>3. QED
    BY <2>1, <2>2, RowsUnchanged, WorkUnchanged, TypesUnchanged, Preserve DEF OtherTypes
<1>2. CASE DownloadReturns(w)
  BY <1>2, DownloadPhaseOnly DEF DownloadReturns, DownloadPhase, rows, process
<1>3. CASE DownloadErrors(w)
  BY <1>3, DownloadPhaseOnly DEF DownloadErrors, DownloadPhase, rows, process
<1>4. CASE ResultInvalid(w)
  BY <1>4, DownloadPhaseOnly DEF ResultInvalid, DownloadPhase, rows, process
<1>5. CASE HandoffFails(w)
  BY <1>5, DownloadPhaseOnly DEF HandoffFails, DownloadPhase, rows, process
<1>6. CASE InterruptDownload(w)
  BY <1>6, DownloadPhaseOnly DEF InterruptDownload, DownloadPhase, rows, process
<1>7. CASE Handoff(w)
  <2>1. dWork[w].phase # "idle" /\ HandoffCommit(w) /\ UNCHANGED <<requesters, uWork, mode, stops>>
    BY <1>7 DEF Handoff, HandoffCommit, process
  <2>2. CASE disk' = disk /\ dWork' = [dWork EXCEPT ![w] = IdleDownload]
    BY <2>1, <2>2, DownloadIdleStep, HandoffStep
  <2>3. CASE disk' = disk \ {Produced(w)} /\ DownloadStep(w, "retrying")
    BY <2>1, <2>3, DownloadPhaseStep, HandoffStep DEF DownloadPhase
  <2>4. QED
    BY <1>7, <2>2, <2>3 DEF Handoff
<1>8. CASE SettleDownload(w)
  <2> DEFINE j == dWork[w].job
  <2> DEFINE retryable == dWork[w].phase = "retrying"
  <2>1. /\ j \in Job /\ retryable \in BOOLEAN
        /\ dl' = [dl EXCEPT ![j] = Settled(dl[j], w, DownloadMax, retryable)]
        /\ dWork' = [dWork EXCEPT ![w] = IdleDownload]
        /\ UNCHANGED <<up, artifact, requesters, disk, uWork, mode, stops>>
    BY <1>8, BusyWorker DEF SettleDownload, process
  <2> HIDE DEF retryable
  <2>2. DownloadRowsGood
    BY <2>1, RowsTyped, SettledRow, OneDownloadRow, MaxNat
  <2>3. QED
    BY <2>1, <2>2, DownloadIdleStep, RowsUnchanged, WorkUnchanged, TypesUnchanged,
       Preserve DEF OtherTypes
<1>9. CASE AbandonDownload(w)
  <2>1. /\ dWork' = [dWork EXCEPT ![w] = IdleDownload]
        /\ UNCHANGED <<dl, up, artifact, requesters, disk, uWork, mode, stops>>
    BY <1>9 DEF AbandonDownload, rows, process
  <2>2. QED
    BY <2>1, DownloadIdleStep, RowsUnchanged, WorkUnchanged, TypesUnchanged, Preserve
       DEF OtherTypes
<1>10. QED
  BY <1>1, <1>2, <1>3, <1>4, <1>5, <1>6, <1>7, <1>8, <1>9, ClaimDownloadStep
     DEF DownloadWorkerStep

LEMMA UploadPhaseOnly ==
  ASSUME IInv, NEW w \in UploadWorker, NEW phase \in UploadPhase,
         uWork[w].phase # "idle", UploadStep(w, phase),
         UNCHANGED <<dl, up, artifact, requesters, disk, dWork, mode, stops>>
  PROVE  IInv' /\ RowsEvolve
  BY UploadPhaseStep, RowsUnchanged, WorkUnchanged, TypesUnchanged, Preserve DEF OtherTypes

LEMMA ClaimUploadStep ==
  ASSUME IInv, NEW w \in UploadWorker, ClaimUpload(w)
  PROVE  IInv' /\ RowsEvolve
<1> DEFINE rec == RecoveredRows(up, UploadMax)
<1>1. /\ UNCHANGED <<dl, artifact, requesters, dWork, mode, stops>>
      /\ disk' \subseteq disk
  BY DEF ClaimUpload, process
<1>2. OtherTypes'
  BY <1>1, TypesUnchanged DEF OtherTypes
<1>3. CASE up' = rec /\ uWork' = uWork
  <2>1. UploadRowsGood
    BY <1>3, RowsSound, TableRecovered, MaxNat DEF UploadRowsGood
  <2>2. QED
    BY <1>1, <1>2, <1>3, <2>1, RowsUnchanged, WorkUnchanged, Preserve
<1>4. ASSUME NEW j \in First(Due(rec)),
             up' = [rec EXCEPT ![j] = Leased(@, w)],
             uWork' = [uWork EXCEPT ![w] = [job |-> j, phase |-> "claimed"]]
      PROVE  IInv' /\ RowsEvolve
  <2>1. j \in Due(rec) /\ j \in Job
    BY <1>4 DEF First, Due
  <2>2. Claimed(up, up', w, j, UploadMax)
    BY <1>4, <2>1 DEF Claimed
  <2>3. ClaimedWell(up, up', w, j, UploadWorker, UploadMax)
    BY <2>2, RowsSound, TableClaimed, MaxNat
  <2> DEFINE new == [job |-> j, phase |-> "claimed"]
  <2> HIDE DEF rec
  <2>4. new \in [job : Job \cup {0}, phase : UploadPhase] /\ new.job = j
    BY <2>1 DEF UploadPhase
  <2> HIDE DEF new
  <2>5. /\ uWork' \in UploadWorkType
        /\ uWork'[w] = new
        /\ \A v \in UploadWorker : v # w => uWork'[v] = uWork[v]
    BY <1>4, <2>4 DEF IInv, TypeOK, UploadWorkType, new
  <2>6. TypeOK'
    BY <1>1, <1>2, <2>3, <2>5
       DEF IInv, TypeOK, OtherTypes, ClaimedWell, SoundTable, UploadWorkType
  <2>7. \A i \in Job : Sound(dl'[i], DownloadMax) /\ Sound(up'[i], UploadMax)
    BY <1>1, <2>3 DEF IInv, ClaimedWell, SoundTable
  <2>8. RowsEvolve
    BY <1>1, <2>3, RowsTyped, SameEvolves DEF RowsEvolve, ClaimedWell
  <2>9. UploadAfterDownload'
    BY <1>1, <2>3 DEF IInv, UploadAfterDownload, ClaimedWell
  <2>10. WorkOK'
    BY <1>1, <2>1, <2>4, <2>5 DEF IInv, WorkOK
  <2>11. AttemptFence'
    BY <1>1 DEF IInv, AttemptFence
  <2>12. QED
    BY <2>6, <2>7, <2>8, <2>9, <2>10, <2>11 DEF IInv
<1>5. QED
  BY <1>3, <1>4 DEF ClaimUpload

LEMMA UploadSteps ==
  ASSUME IInv, NEW w \in UploadWorker, UploadWorkerStep(w)
  PROVE  IInv' /\ RowsEvolve
<1> DEFINE j == uWork[w].job
<1>1. CASE HeartbeatUpload(w)
  <2>1. /\ j \in Job /\ up[j].status = "RUNNING"
        /\ up' = [up EXCEPT ![j] = [up[j] EXCEPT !.expired = FALSE]]
        /\ UNCHANGED <<dl, artifact, requesters, disk, dWork, uWork, mode, stops>>
    BY <1>1, BusyWorker DEF HeartbeatUpload, Owned, work, process
  <2>2. UploadRowsGood
    BY <2>1, RowsTyped, ExpiryRow, OneUploadRow, MaxNat
  <2>3. QED
    BY <2>1, <2>2, RowsUnchanged, WorkUnchanged, TypesUnchanged, Preserve DEF OtherTypes
<1>2. CASE StartUpload(w)
  BY <1>2, UploadPhaseOnly DEF StartUpload, UploadPhase, rows, process
<1>3. CASE UploadReturns(w)
  BY <1>3, UploadPhaseOnly DEF UploadReturns, UploadPhase, rows, process
<1>4. CASE UploadErrors(w)
  BY <1>4, UploadPhaseOnly DEF UploadErrors, UploadPhase, rows, process
<1>5. CASE UploadRefused(w)
  BY <1>5, UploadPhaseOnly DEF UploadRefused, UploadPhase, rows, process
<1>6. CASE UploadCommitFails(w)
  BY <1>6, UploadPhaseOnly DEF UploadCommitFails, UploadPhase, rows, process
<1>7. CASE InterruptUpload(w)
  BY <1>7, UploadPhaseOnly DEF InterruptUpload, UploadPhase, rows, process
<1>8. CASE UploadSucceeds(w)
  <2>1. /\ uWork[w].phase # "idle" /\ j \in Job
        /\ up[j].status \in Active /\ ~up[j].cancel
        /\ up' = [up EXCEPT ![j] = Ended(up[j], "SUCCEEDED")]
        /\ UNCHANGED <<dl, artifact, requesters, dWork, mode, stops>>
        /\ disk' \subseteq disk
        /\ uWork' = [uWork EXCEPT ![w] = IdleUpload] \/ UploadStep(w, "retrying")
    BY <1>8, BusyWorker DEF UploadSucceeds, UploadAccepted, Owned, Active, process
  <2>2. UploadRowsGood
    BY <2>1, RowsTyped, SucceededRow, OneUploadRow, MaxNat
  <2>3. UploadWorkKept
    BY <2>1, UploadIdleStep, UploadPhaseStep DEF UploadPhase
  <2>4. QED
    BY <2>1, <2>2, <2>3, RowsUnchanged, WorkUnchanged, TypesUnchanged, Preserve
       DEF OtherTypes
<1>9. CASE SettleUpload(w)
  <2> DEFINE retryable == uWork[w].phase = "retrying"
  <2>1. /\ j \in Job /\ retryable \in BOOLEAN
        /\ up' = [up EXCEPT ![j] = Settled(up[j], w, UploadMax, retryable)]
        /\ uWork' = [uWork EXCEPT ![w] = IdleUpload]
        /\ disk' \subseteq disk
        /\ UNCHANGED <<dl, artifact, requesters, dWork, mode, stops>>
    BY <1>9, BusyWorker DEF SettleUpload, process
  <2> HIDE DEF retryable
  <2>2. UploadRowsGood
    BY <2>1, RowsTyped, SettledRow, OneUploadRow, MaxNat
  <2>3. QED
    BY <2>1, <2>2, UploadIdleStep, RowsUnchanged, WorkUnchanged, TypesUnchanged,
       Preserve DEF OtherTypes
<1>10. CASE AbandonUpload(w)
  <2>1. /\ uWork' = [uWork EXCEPT ![w] = IdleUpload]
        /\ UNCHANGED <<dl, up, artifact, requesters, disk, dWork, mode, stops>>
    BY <1>10 DEF AbandonUpload, rows, process
  <2>2. QED
    BY <2>1, UploadIdleStep, RowsUnchanged, WorkUnchanged, TypesUnchanged, Preserve
       DEF OtherTypes
<1>11. QED
  BY <1>1, <1>2, <1>3, <1>4, <1>5, <1>6, <1>7, <1>8, <1>9, <1>10, ClaimUploadStep
     DEF UploadWorkerStep

LEMMA RestartStep ==
  ASSUME IInv, NEW cached \in SUBSET Job, NEW seen \in SUBSET Job,
         Restart(cached, seen)
  PROVE  IInv' /\ RowsEvolve
<1> DEFINE rec == RecoveredRows(up, UploadMax)
<1>1. /\ dl' = RecoveredRows(dl, DownloadMax)
      /\ up' = [j \in Job |-> IF j \in seen
           THEN StartupRow(rec[j], j \in cached, Dir(j) \in disk) ELSE rec[j]]
      /\ disk' \subseteq disk /\ mode' \in {"up", "down"}
      /\ stops' \in {stops, stops + 1}
      /\ UNCHANGED <<artifact, requesters, dWork, uWork>>
  BY DEF Restart, work
<1>2. DownloadRowsGood
  BY <1>1, RowsSound, TableRecovered, MaxNat DEF DownloadRowsGood
<1>3. GoodTable(up, rec, UploadWorker, UploadMax)
  BY RowsSound, TableRecovered, MaxNat
<1> HIDE DEF rec
<1>4. ASSUME NEW j \in Job
      PROVE  Good(up[j], up'[j], UploadWorker, UploadMax)
  <2>1. /\ rec[j] \in Row(UploadWorker) /\ Sound(rec[j], UploadMax)
        /\ Good(up[j], rec[j], UploadWorker, UploadMax)
    BY <1>3 DEF GoodTable, Good
  <2>2. CASE j \in seen
    <3> DEFINE hit == j \in cached
    <3> DEFINE present == Dir(j) \in disk
    <3> DEFINE r == StartupRow(rec[j], hit, present)
    <3>1. hit \in BOOLEAN /\ present \in BOOLEAN
      OBVIOUS
    <3>2. up'[j] = r
      BY <1>1, <2>2
    <3> HIDE DEF hit, present
    <3>3. Good(rec[j], r, UploadWorker, UploadMax)
      BY <2>1, <3>1, StartupRowGood, MaxNat
    <3>4. r \in Row(UploadWorker)
      BY <3>3 DEF Good
    <3> HIDE DEF r
    <3>5. up[j] \in Row(UploadWorker)
      BY RowsTyped
    <3>6. QED
      BY <2>1, <3>3, <3>4, <3>2, <3>5, GoodTrans, MaxNat
  <2>3. CASE j \notin seen
    <3>1. up'[j] = rec[j]
      BY <1>1, <2>3
    <3>2. QED
      BY <2>1, <3>1
  <2>4. QED
    BY <2>2, <2>3
<1>5. UploadRowsGood
  <2>1. up' \in [Job -> Row(UploadWorker)]
    BY <1>1, <1>4 DEF Good
  <2>2. QED
    BY <1>4, <2>1 DEF UploadRowsGood, GoodTable
<1>6. OtherTypes'
  BY <1>1, TypesUnchanged DEF OtherTypes
<1>7. QED
  BY <1>1, <1>2, <1>5, <1>6, WorkUnchanged, Preserve

LEMMA ProcessSteps ==
  ASSUME IInv, ProcessStep
  PROVE  IInv' /\ RowsEvolve
<1>1. CASE StopDownloads \/ StopUploads \/ Exit
  <2>1. /\ UNCHANGED <<dl, up, artifact, requesters, disk, dWork, uWork>>
        /\ mode' \in {"stopping", "draining", "down"} /\ stops' \in {stops, stops + 1}
    BY <1>1 DEF StopDownloads, StopUploads, Exit, rows, work
  <2>2. OtherTypes'
    BY <2>1, TypesUnchanged DEF OtherTypes
  <2>3. QED
    BY <2>1, <2>2, RowsUnchanged, WorkUnchanged, Preserve
<1>2. CASE Crash
  <2>1. /\ UNCHANGED <<dl, up, artifact, requesters, disk>>
        /\ mode' = "down" /\ stops' = stops + 1
        /\ dWork' = [w \in DownloadWorker |-> IdleDownload]
        /\ uWork' = [w \in UploadWorker |-> IdleUpload]
    BY <1>2 DEF Crash, rows
  <2>2. OtherTypes'
    BY <2>1, TypesUnchanged DEF OtherTypes
  <2>3. DownloadWorkKept
    BY <2>1 DEF DownloadWorkKept, DownloadWorkType, IdleDownload, DownloadPhase
  <2>4. UploadWorkKept
    BY <2>1 DEF UploadWorkKept, UploadWorkType, IdleUpload, UploadPhase
  <2>5. QED
    BY <2>1, <2>2, <2>3, <2>4, RowsUnchanged, Preserve
<1>3. QED
  BY <1>1, <1>2, RestartStep DEF ProcessStep

-----------------------------------------------------------------------------
(* The theorems.                                                           *)

LEMMA InitIInv == Init => IInv
<1> SUFFICES ASSUME Init PROVE IInv
  OBVIOUS
<1>1. /\ NoRow \in Row(DownloadWorker) /\ NoRow \in Row(UploadWorker)
      /\ NoRow.status = "NONE" /\ NoRow.attempts = 0
      /\ NoRow.cancel = FALSE /\ NoRow.delayed = FALSE
  BY DEF NoRow, Row, Status
<1>2. TypeOK
  BY <1>1 DEF Init, TypeOK, IdleDownload, IdleUpload, DownloadPhase, UploadPhase
<1>3. \A j \in Job : Sound(dl[j], DownloadMax) /\ Sound(up[j], UploadMax)
  BY <1>1, LimitAssumption DEF Init, Sound
<1>4. UploadAfterDownload
  BY <1>1 DEF Init, UploadAfterDownload
<1>5. WorkOK /\ AttemptFence
  BY DEF Init, WorkOK, AttemptFence, IdleDownload, IdleUpload
<1>6. QED
  BY <1>2, <1>3, <1>4, <1>5 DEF IInv

LEMMA StutterStep ==
  ASSUME IInv, UNCHANGED vars
  PROVE  IInv' /\ RowsEvolve
<1>1. UNCHANGED <<dl, up, artifact, requesters, disk, dWork, uWork, mode, stops>>
  BY DEF vars
<1>2. QED
  BY <1>1, RowsUnchanged, WorkUnchanged, TypesUnchanged, Preserve DEF OtherTypes

LEMMA NextIInv ==
  ASSUME IInv, [Next]_vars
  PROVE  IInv' /\ RowsEvolve
  BY UserSteps, ClockSteps, DownloadSteps, UploadSteps, ProcessSteps, StutterStep
     DEF Next

\* The inductive invariant of the queues.
THEOREM Inductive == Spec => []IInv
  BY InitIInv, NextIInv, PTL DEF Spec

\* Every reachable state is well typed, for any number of jobs and workers.
THEOREM TypeCorrect == Spec => []TypeOK
<1>1. IInv => TypeOK
  BY DEF IInv
<1>2. QED
  BY <1>1, Inductive, PTL

\* The lease fence of queue.py, which compares only lease_owner, never lets a
\* worker act on an attempt other than the one it is executing.
THEOREM FenceSound == Spec => []AttemptFence
<1>1. IInv => AttemptFence
  BY DEF IInv
<1>2. QED
  BY <1>1, Inductive, PTL

\* No mix of retries, expired leases, crashes and lost workers starts a job
\* more often than its limit.
THEOREM AttemptsAreBounded == Spec => []AttemptsBounded
<1>1. IInv => AttemptsBounded
  BY DEF IInv, AttemptsBounded, Sound
<1>2. QED
  BY <1>1, Inductive, PTL

\* A job whose cancellation is recorded is never started again and never
\* succeeds, whatever its worker is doing.
THEOREM CancellationIsFinal == Spec => CancelIsFinal
<1>1. IInv /\ [Next]_vars =>
        [\A j \in Job :
           /\ dl[j].cancel => /\ dl'[j].attempts = dl[j].attempts
                              /\ dl'[j].status \in {dl[j].status, "CANCELLED"}
           /\ up[j].cancel => /\ up'[j].attempts = up[j].attempts
                              /\ up'[j].status \in {up[j].status, "CANCELLED"}]_vars
  BY NextIInv DEF RowsEvolve, Evolves
<1>2. QED
  BY <1>1, Inductive, PTL DEF Spec, CancelIsFinal

\* A terminal row never changes again, whoever still holds an old claim.
THEOREM TerminalRowsAreFinal == Spec => TerminalIsFinal
<1>1. IInv /\ [Next]_vars =>
        [\A j \in Job :
           /\ dl[j].status \in Terminal => dl'[j] = dl[j]
           /\ up[j].status \in Terminal => up'[j] = up[j]]_vars
  BY NextIInv DEF RowsEvolve, Evolves
<1>2. QED
  BY <1>1, Inductive, PTL DEF Spec, TerminalIsFinal

-----------------------------------------------------------------------------
(***************************************************************************)
(* OpenUploadHasArtifact for any number of jobs, workers and stops, when   *)
(* no cancel reaches a task whose commit took effect (~LateCancel).        *)
(*                                                                         *)
(* Workers release directories they name by job and attempt.  The argument *)
(* is that attempts are never reused: two tasks on one job are on          *)
(* different attempts, and no live task is on the attempt that became the  *)
(* artifact.  Then no release can hit a directory another task or an open  *)
(* upload needs.                                                           *)
(***************************************************************************)
Busy(w) == dWork[w].phase # "idle"

\* A busy worker's attempt was counted when it was started.
AttemptCounted ==
  \A w \in DownloadWorker : Busy(w) => dWork[w].attempt <= dl[dWork[w].job].attempts

\* Two tasks on the same job are on different attempts.
AttemptsDiffer ==
  \A v, w \in DownloadWorker : Busy(v) /\ Busy(w) /\ v # w => Produced(v) # Produced(w)

\* A task is never on the attempt whose result the upload took over.
ArtifactHandedOver ==
  \A w \in DownloadWorker :
    Busy(w) /\ up[dWork[w].job].status # "NONE" => Produced(w) # Dir(dWork[w].job)

\* A result that waits to be handed off is still on disk.
ProducedOnDisk ==
  \A w \in DownloadWorker : dWork[w].phase = "produced" => Produced(w) \in disk

AInv ==
  /\ AttemptCounted
  /\ AttemptsDiffer
  /\ ArtifactHandedOver
  /\ ProducedOnDisk
  /\ OpenUploadHasArtifact

NoUploadOpened == \A j \in Job : up[j].status = "NONE" => up'[j].status = "NONE"

\* What NextIInv gives for the step at hand.
StepOK == IInv /\ IInv' /\ RowsEvolve

-----------------------------------------------------------------------------
(* Steps that start no attempt and hand nothing off.                       *)

LEMMA OpenStaysOpen ==
  ASSUME StepOK, NoUploadOpened, NEW j \in Job, up'[j].status \in Active
  PROVE  up[j].status \in Active
<1>1. up[j].status # "NONE"
  BY DEF NoUploadOpened, Active
<1>2. up[j].status \notin Terminal
  BY DEF StepOK, RowsEvolve, Evolves, Active, Terminal
<1>3. up[j].status \in Status
  BY DEF StepOK, IInv, TypeOK, Row
<1>4. QED
  BY <1>1, <1>2, <1>3 DEF Status, Active

\* Attempts already started, and who is on them, are disturbed by no such step.
LEMMA AttemptsKept ==
  ASSUME StepOK, AInv, NoUploadOpened, DownloadWorkKept, artifact' = artifact
  PROVE  AttemptCounted' /\ AttemptsDiffer' /\ ArtifactHandedOver'
<1>1. ASSUME NEW w \in DownloadWorker, Busy(w)'
      PROVE  /\ Busy(w) /\ dWork[w].job \in Job
             /\ dWork'[w].job = dWork[w].job /\ dWork'[w].attempt = dWork[w].attempt
  BY <1>1 DEF Busy, DownloadWorkKept, StepOK, IInv, WorkOK
<1>2. AttemptCounted'
  <2>1. SUFFICES ASSUME NEW w \in DownloadWorker, Busy(w)'
                 PROVE  dWork'[w].attempt <= dl'[dWork'[w].job].attempts
    BY DEF AttemptCounted
  <2> DEFINE j == dWork[w].job
  <2>2. /\ Busy(w) /\ j \in Job
        /\ dWork'[w].job = j /\ dWork'[w].attempt = dWork[w].attempt
    BY <1>1, <2>1
  <2>3. dWork[w].attempt \in Nat /\ dl[j].attempts \in Nat /\ dl'[j].attempts \in Nat
    BY <2>2 DEF StepOK, IInv, TypeOK, Row
  <2>4. dWork[w].attempt <= dl[j].attempts /\ dl[j].attempts <= dl'[j].attempts
    BY <2>2 DEF AInv, AttemptCounted, StepOK, RowsEvolve, Evolves
  <2>5. QED
    BY <2>2, <2>3, <2>4
<1>3. AttemptsDiffer'
  BY <1>1 DEF AInv, AttemptsDiffer, Produced
<1>4. ArtifactHandedOver'
  BY <1>1 DEF AInv, ArtifactHandedOver, NoUploadOpened, Produced, Dir
<1>5. QED
  BY <1>2, <1>3, <1>4

LEMMA NothingReleased ==
  ASSUME StepOK, AInv, NoUploadOpened, DownloadWorkKept, artifact' = artifact,
         disk \subseteq disk',
         \A w \in DownloadWorker :
           dWork'[w].phase = "produced" => dWork[w].phase = "produced" \/ Produced(w) \in disk'
  PROVE  AInv'
<1>1. ProducedOnDisk'
  BY DEF AInv, ProducedOnDisk, Produced, DownloadWorkKept
<1>2. OpenUploadHasArtifact'
  BY OpenStaysOpen DEF AInv, OpenUploadHasArtifact, Dir
<1>3. QED
  BY <1>1, <1>2, AttemptsKept DEF AInv

\* Releasing the directories of uploads that are over.
LEMMA UploadsReleased ==
  ASSUME StepOK, AInv, NoUploadOpened, DownloadWorkKept, artifact' = artifact,
         NEW S \in SUBSET Job, disk' = disk \ {Dir(j) : j \in S},
         \A j \in S : up[j].status # "NONE" /\ up'[j].status \notin Active,
         \A w \in DownloadWorker : dWork'[w].phase = "produced" => dWork[w].phase = "produced"
  PROVE  AInv'
<1>1. ProducedOnDisk'
  <2>1. SUFFICES ASSUME NEW w \in DownloadWorker, dWork'[w].phase = "produced"
                 PROVE  Produced(w)' \in disk'
    BY DEF ProducedOnDisk
  <2>2. /\ dWork[w].phase = "produced" /\ Produced(w)' = Produced(w)
        /\ Produced(w) \in disk
    BY <2>1 DEF AInv, ProducedOnDisk, Produced, DownloadWorkKept
  <2>3. ASSUME NEW j \in S PROVE Produced(w) # Dir(j)
    <3>1. CASE dWork[w].job = j
      BY <2>2, <2>3, <3>1 DEF AInv, ArtifactHandedOver, Busy
    <3>2. CASE dWork[w].job # j
      BY <3>2 DEF Produced, Dir
    <3>3. QED
      BY <3>1, <3>2
  <2>4. QED
    BY <2>2, <2>3
<1>2. OpenUploadHasArtifact'
  <2>1. SUFFICES ASSUME NEW i \in Job, up'[i].status \in Active
                 PROVE  Dir(i)' \in disk'
    BY DEF OpenUploadHasArtifact
  <2>2. Dir(i)' = Dir(i) /\ Dir(i) \in disk
    BY <2>1, OpenStaysOpen DEF AInv, OpenUploadHasArtifact, Dir
  <2>3. ASSUME NEW j \in S PROVE Dir(i) # Dir(j)
    BY <2>1, <2>3 DEF Dir
  <2>4. QED
    BY <2>2, <2>3
<1>3. QED
  BY <1>1, <1>2, AttemptsKept DEF AInv

LEMMA UploadReleased ==
  ASSUME StepOK, AInv, NoUploadOpened, UNCHANGED <<artifact, dWork>>,
         NEW j \in Job, disk' = disk \ {Dir(j)},
         up[j].status # "NONE", up'[j].status \notin Active
  PROVE  AInv'
<1> DEFINE S == {j}
<1>1. S \in SUBSET Job /\ disk' = disk \ {Dir(i) : i \in S}
  OBVIOUS
<1>2. \A i \in S : up[i].status # "NONE" /\ up'[i].status \notin Active
  OBVIOUS
<1>3. DownloadWorkKept
  BY WorkUnchanged DEF StepOK
<1> HIDE DEF S
<1>4. QED
  BY <1>1, <1>2, <1>3, UploadsReleased

\* A download task releasing its own directory.
LEMMA DownloadReleased ==
  ASSUME StepOK, AInv, NEW w \in DownloadWorker, Busy(w),
         NEW phase \in DownloadPhase, phase # "produced", DownloadStep(w, phase),
         disk' = disk \ {Produced(w)}, UNCHANGED <<up, artifact>>
  PROVE  AInv'
<1>1. DownloadWorkKept /\ NoUploadOpened
  BY DownloadPhaseStep DEF StepOK, Busy, NoUploadOpened
<1>2. dWork[w].job \in Job
  BY DEF StepOK, IInv, WorkOK, Busy
<1>3. /\ dWork'[w].phase = phase
      /\ \A v \in DownloadWorker : v # w => dWork'[v] = dWork[v]
  BY DEF DownloadStep, StepOK, IInv, TypeOK
<1>4. ProducedOnDisk'
  <2>1. SUFFICES ASSUME NEW v \in DownloadWorker, dWork'[v].phase = "produced"
                 PROVE  Produced(v)' \in disk'
    BY DEF ProducedOnDisk
  <2>2. v # w /\ dWork'[v] = dWork[v]
    BY <1>3, <2>1
  <2>3. Produced(v)' = Produced(v) /\ Produced(v) \in disk /\ Busy(v)
    BY <2>1, <2>2 DEF AInv, ProducedOnDisk, Produced, Busy
  <2>4. Produced(v) # Produced(w)
    BY <2>2, <2>3 DEF AInv, AttemptsDiffer
  <2>5. QED
    BY <2>3, <2>4
<1>5. OpenUploadHasArtifact'
  <2>1. SUFFICES ASSUME NEW i \in Job, up[i].status \in Active
                 PROVE  Dir(i)' \in disk'
    BY DEF OpenUploadHasArtifact
  <2>2. Dir(i)' = Dir(i) /\ Dir(i) \in disk
    BY <2>1 DEF AInv, OpenUploadHasArtifact, Dir
  <2>3. CASE i = dWork[w].job
    BY <2>1, <2>2, <2>3 DEF AInv, ArtifactHandedOver, Active
  <2>4. CASE i # dWork[w].job
    BY <2>2, <2>4 DEF Produced, Dir
  <2>5. QED
    BY <2>3, <2>4
<1>6. QED
  BY <1>1, <1>4, <1>5, AttemptsKept DEF AInv

\* Recovery and settling open no upload and release what they end.
LEMMA RowsNotOpened ==
  ASSUME NEW r, r.status = "NONE"
  PROVE  /\ \A max : Recovered(r, max) = r
         /\ \A w, max, retryable : Settled(r, w, max, retryable) = r
         /\ CancelRequested(r) = r
         /\ \A cached, present : StartupRow(r, cached, present) = r
  BY DEF Recovered, Settled, Owned, CancelRequested, StartupRow, Active

-----------------------------------------------------------------------------
(* One step per action.                                                    *)

\* Steps that leave the tasks, the artifacts and the files alone.
LEMMA QuietStep ==
  ASSUME StepOK, AInv, NoUploadOpened, UNCHANGED <<artifact, disk, dWork>>
  PROVE  AInv'
  BY WorkUnchanged, NothingReleased DEF StepOK

LEMMA UploadTyped ==
  ASSUME StepOK
  PROVE  up \in [Job -> Row(UploadWorker)]
  BY DEF StepOK, IInv, TypeOK

LEMMA UserStepsArtifact ==
  ASSUME StepOK, AInv, UserStep
  PROVE  AInv'
<1>1. CASE \E j \in Job : Submit(j) \/ CancelDownload(j) \/ \E u \in User : Attribute(j, u)
  <2>1. UNCHANGED <<up, artifact, disk, dWork>>
    BY <1>1 DEF Submit, CancelDownload, Attribute, work, rows
  <2>2. QED
    BY <2>1, QuietStep DEF NoUploadOpened
<1>2. ASSUME NEW j \in Job, CancelUpload(j)
      PROVE  AInv'
  <2>1. /\ up[j].status \in Active
        /\ up' = [up EXCEPT ![j] = CancelRequested(up[j])]
        /\ UNCHANGED <<artifact, dWork>>
    BY <1>2 DEF CancelUpload, work
  <2>2. NoUploadOpened
    BY <2>1, UploadTyped DEF NoUploadOpened, Active
  <2>3. CASE disk' = disk
    BY <2>1, <2>2, <2>3, QuietStep
  <2>4. CASE up[j].status = "QUEUED" /\ disk' = disk \ {Dir(j)}
    <3>1. up'[j].status = "CANCELLED"
      BY <2>1, <2>4, UploadTyped DEF CancelRequested, Ended, Row
    <3>2. QED
      BY <2>1, <2>2, <2>4, <3>1, UploadReleased DEF Active
  <2>5. QED
    BY <1>2, <2>3, <2>4 DEF CancelUpload
<1>3. QED
  BY <1>1, <1>2 DEF UserStep

LEMMA ClockStepsArtifact ==
  ASSUME StepOK, AInv, ClockStep
  PROVE  AInv'
<1>1. UNCHANGED <<artifact, disk, dWork>>
  BY DEF ClockStep, LeaseExpires, BackoffElapses, work
<1>2. NoUploadOpened
  <2>1. ASSUME NEW j \in Job, up' = [up EXCEPT ![j].expired = TRUE]
        PROVE  NoUploadOpened
    BY <2>1, UploadTyped DEF NoUploadOpened, Row
  <2>2. ASSUME NEW j \in Job, up' = [up EXCEPT ![j].delayed = FALSE]
        PROVE  NoUploadOpened
    BY <2>2, UploadTyped DEF NoUploadOpened, Row
  <2>3. QED
    BY <2>1, <2>2 DEF ClockStep, LeaseExpires, BackoffElapses, NoUploadOpened
<1>3. QED
  BY <1>1, <1>2, QuietStep

\* A claim starts an attempt with a number no task on the job has.
LEMMA ClaimDownloadArtifact ==
  ASSUME StepOK, AInv, NEW w \in DownloadWorker, ClaimDownload(w)
  PROVE  AInv'
<1> DEFINE rec == RecoveredRows(dl, DownloadMax)
<1> DEFINE ready == {i \in Due(rec) : UnderUserLimit(rec, i)}
<1>1. UNCHANGED <<up, artifact, disk>>
  BY DEF ClaimDownload
<1>2. CASE dWork' = dWork
  BY <1>1, <1>2, QuietStep DEF NoUploadOpened
<1>3. ASSUME NEW j \in First(ready),
             dl' = [rec EXCEPT ![j] = Leased(@, w)],
             dWork' = [dWork EXCEPT ![w] =
               [job |-> j, attempt |-> rec[j].attempts + 1, phase |-> "working"]]
      PROVE  AInv'
  <2>1. /\ j \in Job /\ rec[j].status = "QUEUED"
        /\ rec[j] = Recovered(dl[j], DownloadMax)
    BY <1>3 DEF First, Due, RecoveredRows
  <2>2. Good(dl[j], rec[j], DownloadWorker, DownloadMax)
    BY <2>1, RowsTyped, RecoveredRow, MaxNat DEF StepOK
  <2>3. /\ dl[j].attempts <= rec[j].attempts
        /\ dl[j].status # "NONE" /\ dl[j].status \notin Terminal
        /\ rec[j] \in Row(DownloadWorker)
    BY <2>1, <2>2 DEF Good, Evolves, Terminal
  <2>4. up[j].status = "NONE"
    BY <2>1, <2>3 DEF StepOK, IInv, UploadAfterDownload, Terminal
  <2>5. dl'[j] = Leased(rec[j], w)
    BY <1>3, <2>1 DEF RecoveredRows
  <2> DEFINE n == rec[j].attempts + 1
  <2> HIDE DEF rec, ready
  <2>6. /\ dWork'[w] = [job |-> j, attempt |-> n, phase |-> "working"]
        /\ \A v \in DownloadWorker : v # w => dWork'[v] = dWork[v]
    BY <1>3 DEF StepOK, IInv, TypeOK
  <2>7. /\ dl[j].attempts \in Nat /\ rec[j].attempts \in Nat /\ n \in Nat
        /\ dl[j].attempts < n
    BY <2>1, <2>3, RowsTyped DEF StepOK, Row
  <2>8. dl'[j].attempts = n
    BY <2>3, <2>5, LeasedRow
  <2> HIDE DEF n
  <2>9. dWork'[w].job = j /\ dWork'[w].attempt = n /\ dWork'[w].phase = "working"
    BY <2>6
  <2>10. ASSUME NEW v \in DownloadWorker, v # w, Busy(v)'
         PROVE  /\ Busy(v) /\ dWork'[v] = dWork[v] /\ dWork[v].job \in Job
                /\ dWork[v].attempt \in Nat
                /\ dWork[v].attempt <= dl[dWork[v].job].attempts
    BY <2>6, <2>10 DEF Busy, StepOK, IInv, TypeOK, WorkOK, AInv, AttemptCounted
  <2>11. AttemptCounted'
    <3>1. SUFFICES ASSUME NEW v \in DownloadWorker, Busy(v)'
                   PROVE  dWork'[v].attempt <= dl'[dWork'[v].job].attempts
      BY DEF AttemptCounted
    <3>2. CASE v = w
      BY <2>7, <2>8, <2>9, <3>2
    <3>3. CASE v # w
      <4> DEFINE i == dWork[v].job
      <4>1. /\ i \in Job /\ dWork'[v] = dWork[v]
            /\ dWork[v].attempt \in Nat /\ dWork[v].attempt <= dl[i].attempts
        BY <2>10, <3>1, <3>3
      <4>2. /\ dl[i].attempts \in Nat /\ dl'[i].attempts \in Nat
            /\ dl[i].attempts <= dl'[i].attempts
        BY <4>1 DEF StepOK, IInv, TypeOK, Row, RowsEvolve, Evolves
      <4>3. QED
        BY <4>1, <4>2
    <3>4. QED
      BY <3>2, <3>3
  <2>12. ASSUME NEW v \in DownloadWorker, v # w, Busy(v)'
         PROVE  Produced(v)' # Produced(w)'
    <3>1. CASE dWork[v].job = j
      <4>1. dWork[v].attempt < n
        BY <2>7, <2>10, <2>12, <3>1
      <4>2. dWork'[v].attempt # dWork'[w].attempt
        BY <2>7, <2>9, <2>10, <2>12, <4>1
      <4>3. QED
        BY <4>2 DEF Produced
    <3>2. CASE dWork[v].job # j
      BY <2>9, <2>10, <2>12, <3>2 DEF Produced
    <3>3. QED
      BY <3>1, <3>2
  <2>13. AttemptsDiffer'
    <3>1. SUFFICES ASSUME NEW u \in DownloadWorker, NEW v \in DownloadWorker,
                          Busy(u)', Busy(v)', u # v
                   PROVE  Produced(u)' # Produced(v)'
      BY DEF AttemptsDiffer
    <3>2. CASE u = w \/ v = w
      BY <2>12, <3>1, <3>2
    <3>3. CASE u # w /\ v # w
      BY <2>10, <3>1, <3>3 DEF AInv, AttemptsDiffer, Produced
    <3>4. QED
      BY <3>2, <3>3
  <2>14. ArtifactHandedOver'
    <3>1. SUFFICES ASSUME NEW v \in DownloadWorker, Busy(v)',
                          up'[dWork'[v].job].status # "NONE"
                   PROVE  Produced(v)' # Dir(dWork[v].job)' /\ v # w
      BY <2>6 DEF ArtifactHandedOver
    <3>2. v # w
      BY <1>1, <2>4, <2>9, <3>1
    <3>3. QED
      BY <1>1, <2>10, <3>1, <3>2 DEF AInv, ArtifactHandedOver, Produced, Dir
  <2>15. ProducedOnDisk'
    <3>1. SUFFICES ASSUME NEW v \in DownloadWorker, dWork'[v].phase = "produced"
                   PROVE  Produced(v)' \in disk'
      BY DEF ProducedOnDisk
    <3>2. v # w
      BY <2>9, <3>1
    <3>3. QED
      BY <1>1, <2>6, <3>1, <3>2 DEF AInv, ProducedOnDisk, Produced
  <2>16. OpenUploadHasArtifact'
    BY <1>1 DEF AInv, OpenUploadHasArtifact, Dir
  <2>17. QED
    BY <2>11, <2>13, <2>14, <2>15, <2>16 DEF AInv
<1>4. QED
  BY <1>2, <1>3 DEF ClaimDownload

\* The handoff makes the attempt of w the artifact and ends the task of w.
LEMMA HandoffArtifact ==
  ASSUME ~LateCancel, StepOK, AInv, NEW w \in DownloadWorker, Handoff(w)
  PROVE  AInv'
<1>0. PICK j \in Job : j = dWork[w].job
  BY BusyWorker DEF Handoff, HandoffCommit, StepOK
<1>1. /\ dWork[w].phase = "produced" /\ UNCHANGED disk
      /\ up' = [up EXCEPT ![j] = NewRow]
      /\ artifact' = [artifact EXCEPT ![j] = dWork[w].attempt]
      /\ dWork' = [dWork EXCEPT ![w] = IdleDownload]
  BY <1>0 DEF Handoff, HandoffCommit
<1>2. /\ dWork'[w].phase = "idle"
      /\ \A v \in DownloadWorker : v # w => dWork'[v] = dWork[v]
      /\ Dir(j)' = Produced(w)
      /\ \A i \in Job : i # j => up'[i] = up[i] /\ Dir(i)' = Dir(i)
  BY <1>0, <1>1 DEF StepOK, IInv, TypeOK, IdleDownload, Dir, Produced
<1>3. ASSUME NEW v \in DownloadWorker, Busy(v)'
      PROVE  v # w /\ Busy(v) /\ dWork'[v] = dWork[v] /\ dWork[v].job \in Job
  BY <1>2, <1>3 DEF Busy, StepOK, IInv, WorkOK
<1>4. AttemptCounted'
  <2>1. SUFFICES ASSUME NEW v \in DownloadWorker, Busy(v)'
                 PROVE  dWork'[v].attempt <= dl'[dWork'[v].job].attempts
    BY DEF AttemptCounted
  <2> DEFINE i == dWork[v].job
  <2>2. i \in Job /\ dWork'[v] = dWork[v] /\ Busy(v)
    BY <1>3, <2>1
  <2>3. /\ dWork[v].attempt \in Nat /\ dl[i].attempts \in Nat /\ dl'[i].attempts \in Nat
        /\ dl[i].attempts <= dl'[i].attempts
    BY <2>2 DEF StepOK, IInv, TypeOK, Row, RowsEvolve, Evolves
  <2>4. QED
    BY <2>2, <2>3 DEF AInv, AttemptCounted
<1>5. AttemptsDiffer'
  BY <1>3 DEF AInv, AttemptsDiffer, Produced
<1>6. ArtifactHandedOver'
  <2>1. SUFFICES ASSUME NEW v \in DownloadWorker, Busy(v)',
                        up'[dWork'[v].job].status # "NONE"
                 PROVE  Produced(v)' # Dir(dWork[v].job)'
    BY <1>3 DEF ArtifactHandedOver
  <2>2. v # w /\ Busy(v) /\ Produced(v)' = Produced(v) /\ dWork'[v] = dWork[v]
    BY <1>3, <2>1 DEF Produced
  <2>3. CASE dWork[v].job = j
    BY <1>1, <1>2, <2>2, <2>3 DEF AInv, AttemptsDiffer, Busy
  <2>4. CASE dWork[v].job # j
    BY <1>2, <1>3, <2>1, <2>2, <2>4 DEF AInv, ArtifactHandedOver
  <2>5. QED
    BY <2>3, <2>4
<1>7. ProducedOnDisk'
  BY <1>1, <1>2 DEF AInv, ProducedOnDisk, Produced
<1>8. OpenUploadHasArtifact'
  <2>1. SUFFICES ASSUME NEW i \in Job, up'[i].status \in Active
                 PROVE  Dir(i)' \in disk
    BY <1>1 DEF OpenUploadHasArtifact
  <2>2. CASE i = j
    BY <1>1, <1>2, <2>2 DEF AInv, ProducedOnDisk
  <2>3. CASE i # j
    BY <1>2, <2>1, <2>3 DEF AInv, OpenUploadHasArtifact
  <2>4. QED
    BY <2>2, <2>3
<1>9. QED
  BY <1>4, <1>5, <1>6, <1>7, <1>8 DEF AInv

LEMMA DownloadStepsArtifact ==
  ASSUME ~LateCancel, StepOK, AInv, NEW w \in DownloadWorker, DownloadWorkerStep(w)
  PROVE  AInv'
<1>1. CASE HeartbeatDownload(w)
  BY <1>1, QuietStep DEF HeartbeatDownload, NoUploadOpened, work
<1>2. CASE DownloadReturns(w)
  <2>1. /\ DownloadWorkKept /\ NoUploadOpened /\ artifact' = artifact
        /\ disk \subseteq disk' /\ Produced(w) \in disk'
    BY <1>2, DownloadPhaseStep
       DEF StepOK, DownloadReturns, DownloadPhase, NoUploadOpened, rows
  <2>2. \A v \in DownloadWorker : v # w => dWork'[v] = dWork[v]
    BY <1>2 DEF DownloadReturns, DownloadStep, StepOK, IInv, TypeOK
  <2>3. QED
    BY <2>1, <2>2, NothingReleased
<1>3. CASE DownloadErrors(w)
  <2>1. PICK phase \in {"retrying", "failing"} : DownloadStep(w, phase)
    BY <1>3 DEF DownloadErrors
  <2>2. /\ DownloadWorkKept /\ NoUploadOpened /\ artifact' = artifact /\ disk' = disk
    BY <1>3, <2>1, DownloadPhaseStep
       DEF StepOK, DownloadErrors, DownloadPhase, NoUploadOpened, rows
  <2>3. \A v \in DownloadWorker :
          dWork'[v].phase = "produced" => dWork[v].phase = "produced"
    BY <2>1 DEF DownloadStep, StepOK, IInv, TypeOK
  <2>4. QED
    BY <2>2, <2>3, NothingReleased
<1>4. CASE ResultInvalid(w)
  BY <1>4, DownloadReleased DEF ResultInvalid, DownloadPhase, Busy, rows
<1>5. CASE HandoffFails(w)
  BY <1>5, DownloadReleased DEF HandoffFails, DownloadPhase, Busy, rows
<1>6. CASE InterruptDownload(w)
  BY <1>6, DownloadReleased DEF InterruptDownload, DownloadPhase, Busy, rows
<1>7. CASE SettleDownload(w) \/ AbandonDownload(w)
  <2>1. /\ dWork' = [dWork EXCEPT ![w] = IdleDownload]
        /\ UNCHANGED <<up, artifact, disk>>
    BY <1>7 DEF SettleDownload, AbandonDownload, rows
  <2>2. DownloadWorkKept /\ NoUploadOpened
    BY <2>1, DownloadIdleStep DEF StepOK, NoUploadOpened
  <2>3. \A v \in DownloadWorker :
          dWork'[v].phase = "produced" => dWork[v].phase = "produced"
    BY <2>1 DEF StepOK, IInv, TypeOK, IdleDownload
  <2>4. QED
    BY <2>1, <2>2, <2>3, NothingReleased
<1>8. QED
  BY <1>1, <1>2, <1>3, <1>4, <1>5, <1>6, <1>7, ClaimDownloadArtifact,
     HandoffArtifact DEF DownloadWorkerStep

LEMMA ClaimUploadArtifact ==
  ASSUME StepOK, AInv, NEW w \in UploadWorker, ClaimUpload(w)
  PROVE  AInv'
<1> DEFINE rec == RecoveredRows(up, UploadMax)
<1> DEFINE S == {j \in Job : rec[j].status \in Terminal /\ up[j].status \notin Terminal}
<1>1. /\ UNCHANGED <<artifact, dWork>> /\ disk' = disk \ {Dir(j) : j \in S}
      /\ \/ up' = rec
         \/ \E j \in First(Due(rec)) : up' = [rec EXCEPT ![j] = Leased(@, w)]
  BY DEF ClaimUpload
<1>2. \A j \in Job : /\ up[j].status = "NONE" => rec[j] = up[j]
                     /\ rec[j].status \in Terminal => rec[j].status \notin Active
  BY RowsNotOpened DEF RecoveredRows, Terminal, Active
<1>3. \A j \in Job : up'[j] = rec[j] \/ (rec[j].status = "QUEUED")
  BY <1>1 DEF RecoveredRows, First, Due
<1> HIDE DEF rec
<1>4. NoUploadOpened
  BY <1>2, <1>3 DEF NoUploadOpened
<1>5. \A j \in S : up[j].status # "NONE" /\ up'[j].status \notin Active
  BY <1>2, <1>3 DEF Terminal
<1>6. DownloadWorkKept /\ S \in SUBSET Job
  BY <1>1, WorkUnchanged DEF StepOK
<1> HIDE DEF S
<1>7. QED
  BY <1>1, <1>4, <1>5, <1>6, UploadsReleased

LEMMA UploadStepsArtifact ==
  ASSUME StepOK, AInv, NEW w \in UploadWorker, UploadWorkerStep(w)
  PROVE  AInv'
<1> DEFINE j == uWork[w].job
<1>1. CASE \/ StartUpload(w) \/ UploadReturns(w) \/ UploadErrors(w) \/ UploadRefused(w)
           \/ UploadCommitFails(w) \/ InterruptUpload(w) \/ AbandonUpload(w)
  <2>1. UNCHANGED <<up, artifact, disk, dWork>>
    BY <1>1 DEF StartUpload, UploadReturns, UploadErrors, UploadRefused,
                UploadCommitFails, InterruptUpload, AbandonUpload, rows
  <2>2. QED
    BY <2>1, QuietStep DEF NoUploadOpened
<1>2. CASE HeartbeatUpload(w)
  <2>1. NoUploadOpened
    BY <1>2, UploadTyped DEF HeartbeatUpload, NoUploadOpened, Owned, Row
  <2>2. QED
    BY <1>2, <2>1, QuietStep DEF HeartbeatUpload, work
<1>3. CASE UploadSucceeds(w)
  <2>1. /\ j \in Job /\ up[j].status = "RUNNING"
        /\ up' = [up EXCEPT ![j] = Ended(up[j], "SUCCEEDED")]
        /\ UNCHANGED <<artifact, dWork>>
        /\ disk' = disk \ {Dir(j)} \/ disk' = disk
    BY <1>3, BusyWorker DEF StepOK, UploadSucceeds, UploadAccepted, Owned
  <2>2. NoUploadOpened /\ up'[j].status = "SUCCEEDED"
    BY <2>1, UploadTyped DEF NoUploadOpened, Ended, Row
  <2>3. QED
    BY <2>1, <2>2, UploadReleased, QuietStep DEF Active
<1>4. CASE SettleUpload(w)
  <2> DEFINE row == Settled(up[j], w, UploadMax, uWork[w].phase = "retrying")
  <2>1. /\ j \in Job /\ up' = [up EXCEPT ![j] = row]
        /\ UNCHANGED <<artifact, dWork>>
        /\ disk' = IF Owned(up[j], w) /\ row.status \in Terminal
                   THEN disk \ {Dir(j)} ELSE disk
    BY <1>4, BusyWorker DEF StepOK, SettleUpload
  <2>2. up[j].status = "NONE" => row = up[j]
    BY RowsNotOpened
  <2> HIDE DEF row
  <2>3. up'[j] = row /\ \A i \in Job : i # j => up'[i] = up[i]
    BY <2>1, UploadTyped
  <2>4. NoUploadOpened
    BY <2>1, <2>2, <2>3 DEF NoUploadOpened
  <2>5. CASE Owned(up[j], w) /\ row.status \in Terminal
    BY <2>1, <2>3, <2>4, <2>5, UploadReleased DEF Owned, Terminal, Active
  <2>6. CASE ~(Owned(up[j], w) /\ row.status \in Terminal)
    BY <2>1, <2>4, <2>6, QuietStep
  <2>7. QED
    BY <2>5, <2>6
<1>5. QED
  BY <1>1, <1>2, <1>3, <1>4, ClaimUploadArtifact DEF UploadWorkerStep

LEMMA ProcessStepsArtifact ==
  ASSUME StepOK, AInv, ProcessStep
  PROVE  AInv'
<1>1. CASE StopDownloads \/ StopUploads \/ Exit
  BY <1>1, QuietStep DEF StopDownloads, StopUploads, Exit, NoUploadOpened, rows, work
<1>2. CASE Crash
  <2>1. /\ UNCHANGED <<up, artifact, disk>>
        /\ dWork' = [w \in DownloadWorker |-> IdleDownload]
    BY <1>2 DEF Crash, rows
  <2>2. DownloadWorkKept /\ NoUploadOpened
    BY <2>1 DEF DownloadWorkKept, DownloadWorkType, IdleDownload, DownloadPhase,
                NoUploadOpened
  <2>3. \A w \in DownloadWorker : dWork'[w].phase # "produced"
    BY <2>1 DEF IdleDownload
  <2>4. QED
    BY <2>1, <2>2, <2>3, NothingReleased
<1>3. ASSUME NEW cached \in SUBSET Job, NEW seen \in SUBSET Job, Restart(cached, seen)
      PROVE  AInv'
  <2> DEFINE rec == RecoveredRows(up, UploadMax)
  <2> DEFINE S == {i \in Job : up'[i].status \in Terminal /\ up[i].status \notin Terminal}
  <2>1. /\ UNCHANGED <<artifact, dWork>> /\ disk' = disk \ {Dir(j) : j \in S}
        /\ up' = [j \in Job |-> IF j \in seen
             THEN StartupRow(rec[j], j \in cached, Dir(j) \in disk) ELSE rec[j]]
    BY <1>3 DEF Restart, work
  <2>2. ASSUME NEW j \in Job, up[j].status = "NONE"
        PROVE  up'[j] = up[j]
    <3>1. rec[j] = up[j]
      BY <2>2, RowsNotOpened DEF RecoveredRows
    <3>2. StartupRow(rec[j], j \in cached, Dir(j) \in disk) = up[j]
      BY <2>2, <3>1, RowsNotOpened
    <3>3. QED
      BY <2>1, <3>1, <3>2
  <2>3. NoUploadOpened
    BY <2>2 DEF NoUploadOpened
  <2>4. \A j \in S : up[j].status # "NONE" /\ up'[j].status \notin Active
    BY <2>2 DEF Terminal, Active
  <2>5. DownloadWorkKept /\ S \in SUBSET Job
    BY <2>1, WorkUnchanged DEF StepOK
  <2> HIDE DEF S
  <2>6. QED
    BY <2>1, <2>3, <2>4, <2>5, UploadsReleased
<1>4. QED
  BY <1>1, <1>2, <1>3 DEF ProcessStep

-----------------------------------------------------------------------------
LEMMA InitAInv == Init => AInv
<1> SUFFICES ASSUME Init PROVE AInv
  OBVIOUS
<1>1. \A w \in DownloadWorker : dWork[w].phase = "idle"
  BY DEF Init, IdleDownload
<1>2. \A j \in Job : up[j].status = "NONE"
  BY DEF Init, NoRow
<1>3. QED
  BY <1>1, <1>2 DEF AInv, AttemptCounted, AttemptsDiffer, ArtifactHandedOver,
                    ProducedOnDisk, OpenUploadHasArtifact, Busy, Active

LEMMA NextAInv ==
  ASSUME ~LateCancel, IInv, AInv, [Next]_vars
  PROVE  AInv'
<1>1. StepOK
  BY NextIInv DEF StepOK
<1>2. CASE UNCHANGED vars
  BY <1>1, <1>2, QuietStep DEF vars, NoUploadOpened
<1>3. CASE Next
  BY <1>1, <1>3, UserStepsArtifact, ClockStepsArtifact, DownloadStepsArtifact,
     UploadStepsArtifact, ProcessStepsArtifact DEF Next
<1>4. QED
  BY <1>2, <1>3

\* Unless a cancel reaches a task whose commit took effect, an upload that may
\* still run has its artifact on disk: no release by a stale worker, a
\* cancelled attempt, a cancelled upload or startup recovery takes it away.
THEOREM ArtifactKept ==
  ASSUME ~LateCancel
  PROVE  Spec => []OpenUploadHasArtifact
<1>1. IInv /\ AInv /\ [Next]_vars => AInv'
  BY NextAInv
<1>2. AInv => OpenUploadHasArtifact
  BY DEF AInv
<1>3. QED
  BY <1>1, <1>2, InitAInv, Inductive, PTL DEF Spec
=============================================================================
