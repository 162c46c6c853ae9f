------------------------------ MODULE JobQueue ------------------------------
(***************************************************************************)
(* The durable download and upload queues and the two worker pools that    *)
(* serve them: app/storage/repositories/queue.py (the row transitions),    *)
(* app/services/workers.py (claim, process, heartbeat, shutdown),          *)
(* app/services/queues.py (cancellation) and the queue part of             *)
(* app/services/crash_recovery.py (startup recovery).                      *)
(*                                                                         *)
(* One action is one SQLite transaction, or one step of a worker between   *)
(* two awaits.  A lease is abstracted to a flag: at any moment the clock   *)
(* may pass lease_expires_at (LeaseExpires), and a heartbeat clears it.    *)
(***************************************************************************)
EXTENDS Naturals, FiniteSets

CONSTANTS
  Job,            (* download job ids, in insertion order                  *)
  DownloadWorker, (* worker ids of the download pool                       *)
  UploadWorker,   (* worker ids of the upload pool                         *)
  User,           (* Telegram users                                        *)
  NoWorker,       (* lease_owner NULL                                      *)
  DownloadMax,    (* DOWNLOAD_JOB_MAX_ATTEMPTS                             *)
  UploadMax,      (* UPLOAD_JOB_MAX_ATTEMPTS                               *)
  MaxActive,      (* capacity of the download queue                        *)
  UserLimit,      (* PER_USER_ACTIVE_DOWNLOAD_LIMIT                        *)
  LateCancel,     (* may a cancel reach a task whose commit took effect?   *)
  MaxStops        (* bound: how often the process stops or crashes         *)

ASSUME JobAssumption == Job \subseteq Nat \ {0}
ASSUME WorkerAssumption == NoWorker \notin DownloadWorker \cup UploadWorker
ASSUME LimitAssumption ==
  /\ DownloadMax \in Nat \ {0} /\ UploadMax \in Nat \ {0}
  /\ MaxActive \in Nat \ {0} /\ UserLimit \in Nat \ {0}
  /\ LateCancel \in BOOLEAN /\ MaxStops \in Nat

VARIABLES
  dl,         (* download_jobs rows                                        *)
  up,         (* upload_jobs rows, keyed by their unique download_job_id   *)
  artifact,   (* UploadJob.artifact_job_id: the attempt that produced it   *)
  requesters, (* users whose delivery request names the job's subscriber   *)
  disk,       (* artifact directories under TEMP_DIR, <<job, attempt>>     *)
  dWork,      (* what each download worker's operation task is doing       *)
  uWork,      (* what each upload worker's operation task is doing         *)
  mode,       (* the process: "up", stopping the download pool, then the   *)
              (* upload pool ("draining"), or "down"                       *)
  stops       (* how often it has stopped; bounded by MaxStops             *)

rows == <<dl, up, artifact>>
work == <<dWork, uWork>>
process == <<mode, stops>>
vars == <<dl, up, artifact, requesters, disk, dWork, uWork, mode, stops>>

-----------------------------------------------------------------------------
(* Rows of the two tables and the updates the repositories make to them.   *)

Terminal == {"SUCCEEDED", "FAILED", "CANCELLED"}
Status == Terminal \cup {"NONE", "QUEUED", "RUNNING"}
Active == {"QUEUED", "RUNNING"}

Row(W) == [status : Status, attempts : Nat, owner : W \cup {NoWorker},
           expired : BOOLEAN, cancel : BOOLEAN, delayed : BOOLEAN]

NoRow == [status |-> "NONE", attempts |-> 0, owner |-> NoWorker,
          expired |-> FALSE, cancel |-> FALSE, delayed |-> FALSE]

\* Mutant of NewRow: a status of another table.
NewRowWaiting == [NoRow EXCEPT !.status = "WAITING"]

NewRow == [NoRow EXCEPT !.status = "QUEUED"]

Ended(r, s) ==
  [r EXCEPT !.status = s, !.owner = NoWorker, !.expired = FALSE, !.delayed = FALSE]

Requeued(r, backoff) ==
  [r EXCEPT !.status = "QUEUED", !.owner = NoWorker, !.expired = FALSE,
            !.delayed = backoff]

Leased(r, w) ==
  [r EXCEPT !.status = "RUNNING", !.attempts = @ + 1, !.owner = w]

Failed(r) == Ended(r, IF r.cancel THEN "CANCELLED" ELSE "FAILED")

\* Mutants of Recovered: the lost attempt is charged but its lease kept; the
\* attempt limit is not looked at; an exhausted row is left alone.
RecoveredInPlace(r, max) ==
  IF r.status = "RUNNING" /\ r.expired
  THEN [r EXCEPT !.attempts = @ + 1, !.expired = FALSE] ELSE r

RecoveredUnbounded(r, max) ==
  IF ~(r.status = "RUNNING" /\ r.expired) THEN r
  ELSE IF r.cancel THEN Failed(r)
  ELSE Requeued(r, FALSE)

RecoveredUnexhausted(r, max) ==
  IF r.status = "RUNNING" /\ r.expired /\ r.attempts < max
  THEN Requeued(r, FALSE) ELSE r

\* recover_expired: an expired lease is cancelled, exhausted or requeued.
Recovered(r, max) ==
  IF ~(r.status = "RUNNING" /\ r.expired) THEN r
  ELSE IF r.cancel \/ r.attempts >= max THEN Failed(r)
  ELSE Requeued(r, FALSE)

Owned(r, w) == r.status = "RUNNING" /\ r.owner = w

\* Mutant of Settled: the lease is not checked.
SettledUnfenced(r, w, max, retryable) ==
  IF r.cancel \/ r.attempts >= max \/ ~retryable THEN Failed(r) ELSE Requeued(r, TRUE)

\* retry_or_fail and fail: no effect unless w still holds the lease.
Settled(r, w, max, retryable) ==
  IF ~Owned(r, w) THEN r
  ELSE IF r.cancel \/ r.attempts >= max \/ ~retryable THEN Failed(r)
  ELSE Requeued(r, TRUE)

\* cancel: a queued row ends at once, a running one is only marked.
CancelRequested(r) ==
  CASE r.status = "QUEUED" -> [Ended(r, "CANCELLED") EXCEPT !.cancel = TRUE]
    [] r.status = "RUNNING" -> [r EXCEPT !.cancel = TRUE]
    [] OTHER -> r

RecoveredRows(tbl, max) == [j \in Job |-> Recovered(tbl[j], max)]

Due(tbl) ==
  {j \in Job : tbl[j].status = "QUEUED" /\ ~tbl[j].cancel /\ ~tbl[j].delayed}

UnderUserLimit(tbl, j) ==
  \A u \in requesters[j] :
    Cardinality({i \in Job : tbl[i].status = "RUNNING" /\ u \in requesters[i]})
      < UserLimit

\* FIFO: queued_at then id, over the candidates a claim may take.
First(S) == {j \in S : \A i \in S : j <= i}

Dir(j) == <<j, artifact[j]>>

-----------------------------------------------------------------------------
(* Worker-local state.                                                     *)

DownloadPhase == {"idle", "working", "produced", "retrying", "failing"}
UploadPhase == {"idle", "claimed", "uploading", "delivered", "retrying", "failing"}

IdleDownload == [job |-> 0, attempt |-> 0, phase |-> "idle"]
IdleUpload == [job |-> 0, phase |-> "idle"]

Produced(w) == <<dWork[w].job, dWork[w].attempt>>

Init ==
  /\ dl = [j \in Job |-> NoRow]
  /\ up = [j \in Job |-> NoRow]
  /\ artifact = [j \in Job |-> 0]
  /\ requesters = [j \in Job |-> {}]
  /\ disk = {}
  /\ dWork = [w \in DownloadWorker |-> IdleDownload]
  /\ uWork = [w \in UploadWorker |-> IdleUpload]
  /\ mode = "up"
  /\ stops = 0

-----------------------------------------------------------------------------
(* Users: admission, attribution and cancellation.                         *)

Submit(j) ==
  /\ mode # "down"
  /\ dl[j].status = "NONE"
  /\ \A i \in Job : i < j => dl[i].status # "NONE"
  /\ Cardinality({i \in Job : dl[i].status \in Active}) < MaxActive
  /\ dl' = [dl EXCEPT ![j] = NewRow]
  /\ UNCHANGED <<up, artifact, requesters, disk, work, process>>

\* The delivery worker stores subscriber_id on the request row, in a
\* transaction of its own after the admission has committed.
Attribute(j, u) ==
  /\ mode # "down"
  /\ dl[j].status # "NONE"
  /\ requesters' = [requesters EXCEPT ![j] = @ \cup {u}]
  /\ UNCHANGED <<rows, disk, work, process>>

CancelDownload(j) ==
  /\ mode # "down"
  /\ dl[j].status \in Active
  /\ dl' = [dl EXCEPT ![j] = CancelRequested(@)]
  /\ UNCHANGED <<up, artifact, requesters, disk, work, process>>

\* UploadQueueService.cancel reads the status before it updates the row and
\* releases the artifact only if that read said QUEUED: a row it read as
\* RUNNING that a retry requeued meanwhile is cancelled and its file kept.
CancelUpload(j) ==
  /\ mode # "down"
  /\ up[j].status \in Active
  /\ up' = [up EXCEPT ![j] = CancelRequested(@)]
  /\ \/ up[j].status = "QUEUED" /\ disk' = disk \ {Dir(j)}
     \/ (up[j].status = "RUNNING" \/ up[j].attempts > 0) /\ disk' = disk
  /\ UNCHANGED <<dl, artifact, requesters, work, process>>

-----------------------------------------------------------------------------
(* The clock.                                                              *)

LeaseExpires(j) ==
  /\ \/ /\ dl[j].status = "RUNNING" /\ ~dl[j].expired
        /\ dl' = [dl EXCEPT ![j].expired = TRUE]
        /\ up' = up
     \/ /\ up[j].status = "RUNNING" /\ ~up[j].expired
        /\ up' = [up EXCEPT ![j].expired = TRUE]
        /\ dl' = dl
  /\ UNCHANGED <<artifact, requesters, disk, work, process>>

BackoffElapses(j) ==
  /\ \/ dl[j].delayed /\ dl' = [dl EXCEPT ![j].delayed = FALSE] /\ up' = up
     \/ up[j].delayed /\ up' = [up EXCEPT ![j].delayed = FALSE] /\ dl' = dl
  /\ UNCHANGED <<artifact, requesters, disk, work, process>>

-----------------------------------------------------------------------------
(* Download workers: DownloadWorkerBackend and AsyncWorkerPool.            *)

\* operation.cancel() is called for a cancelled job, by a heartbeat that no
\* longer finds its lease, and by pool.stop once the grace period is over.
Cancelling(r, w, stop) == r.cancel \/ ~Owned(r, w) \/ mode = stop

DownloadStep(w, phase) ==
  dWork' = [dWork EXCEPT ![w].phase = phase]

\* One BEGIN IMMEDIATE transaction: recover expired leases, then claim.
ClaimDownload(w) ==
  LET rec == RecoveredRows(dl, DownloadMax)
      ready == {j \in Due(rec) : UnderUserLimit(rec, j)}
  IN
  /\ mode = "up"
  /\ dWork[w].phase = "idle"
  /\ \/ ready = {} /\ dl' = rec /\ dWork' = dWork
     \/ \E j \in First(ready) :
          /\ dl' = [rec EXCEPT ![j] = Leased(@, w)]
          /\ dWork' = [dWork EXCEPT ![w] =
               [job |-> j, attempt |-> rec[j].attempts + 1, phase |-> "working"]]
  /\ UNCHANGED <<up, artifact, requesters, disk, uWork, process>>

HeartbeatDownload(w) ==
  /\ dWork[w].phase # "idle"
  /\ Owned(dl[dWork[w].job], w)
  /\ dl' = [dl EXCEPT ![dWork[w].job].expired = FALSE]
  /\ UNCHANGED <<up, artifact, requesters, disk, work, process>>

DownloadReturns(w) ==
  /\ dWork[w].phase = "working"
  /\ disk' = disk \cup {Produced(w)}
  /\ DownloadStep(w, "produced")
  /\ UNCHANGED <<rows, requesters, uWork, process>>

DownloadErrors(w) ==
  /\ dWork[w].phase = "working"
  /\ \E phase \in {"retrying", "failing"} : DownloadStep(w, phase)
  /\ UNCHANGED <<rows, requesters, disk, uWork, process>>

\* _validate_result refuses the result: release, then fail for good.
ResultInvalid(w) ==
  /\ dWork[w].phase = "produced"
  /\ disk' = disk \ {Produced(w)}
  /\ DownloadStep(w, "failing")
  /\ UNCHANGED <<rows, requesters, uWork, process>>

\* Mutant of HandoffAccepted: a requested cancellation is not looked at.
HandoffOwned(w) == Owned(dl[dWork[w].job], w)

HandoffAccepted(w) ==
  Owned(dl[dWork[w].job], w) /\ ~dl[dWork[w].job].cancel

HandoffCommit(w) ==
  LET j == dWork[w].job IN
  /\ dWork[w].phase = "produced"
  /\ HandoffAccepted(w)
  /\ dl' = [dl EXCEPT ![j] = Ended(@, "SUCCEEDED")]
  /\ up' = [up EXCEPT ![j] = NewRow]
  /\ artifact' = [artifact EXCEPT ![j] = dWork[w].attempt]

\* The cancel of pool.stop, or of a heartbeat that sees the committed row,
\* may reach the task before its transaction() block is left: SQLite keeps
\* the handoff, the task sees CancelledError and releases the artifact.
Handoff(w) ==
  /\ HandoffCommit(w)
  /\ \/ disk' = disk /\ dWork' = [dWork EXCEPT ![w] = IdleDownload]
     \/ LateCancel /\ disk' = disk \ {Produced(w)} /\ DownloadStep(w, "retrying")
  /\ UNCHANGED <<requesters, uWork, process>>

\* The handoff is refused, or its transaction raises and rolls back.
HandoffFails(w) ==
  /\ dWork[w].phase = "produced"
  /\ disk' = disk \ {Produced(w)}
  /\ DownloadStep(w, "retrying")
  /\ UNCHANGED <<rows, requesters, uWork, process>>

InterruptDownload(w) ==
  /\ dWork[w].phase \in {"working", "produced"}
  /\ Cancelling(dl[dWork[w].job], w, "stopping")
  /\ disk' = disk \ {Produced(w)}
  /\ DownloadStep(w, "retrying")
  /\ UNCHANGED <<rows, requesters, uWork, process>>

\* _retry and _fail.
SettleDownload(w) ==
  /\ dWork[w].phase \in {"retrying", "failing"}
  /\ dl' = [dl EXCEPT ![dWork[w].job] =
              Settled(@, w, DownloadMax, dWork[w].phase = "retrying")]
  /\ dWork' = [dWork EXCEPT ![w] = IdleDownload]
  /\ UNCHANGED <<up, artifact, requesters, disk, uWork, process>>

\* The settling transaction raises, or a second cancel arrives before it
\* commits, or a cancel arrives before the task's first step: the worker
\* moves on and leaves the row RUNNING.
AbandonDownload(w) ==
  /\ \/ dWork[w].phase \in {"retrying", "failing"}
     \/ dWork[w].phase = "working" /\ Cancelling(dl[dWork[w].job], w, "stopping")
  /\ dWork' = [dWork EXCEPT ![w] = IdleDownload]
  /\ UNCHANGED <<rows, requesters, disk, uWork, process>>

-----------------------------------------------------------------------------
(* Upload workers: UploadWorkerBackend and AsyncWorkerPool.                *)

UploadStep(w, phase) ==
  uWork' = [uWork EXCEPT ![w].phase = phase]

\* One transaction that starts with the recovery UPDATE (so it holds the
\* write lock throughout), then the release of the rows it ended.
ClaimUpload(w) ==
  LET rec == RecoveredRows(up, UploadMax)
      ended == {j \in Job : rec[j].status \in Terminal /\ up[j].status \notin Terminal}
  IN
  /\ mode \in {"up", "stopping"}
  /\ uWork[w].phase = "idle"
  /\ \/ Due(rec) = {} /\ up' = rec /\ uWork' = uWork
     \/ \E j \in First(Due(rec)) :
          /\ up' = [rec EXCEPT ![j] = Leased(@, w)]
          /\ uWork' = [uWork EXCEPT ![w] = [job |-> j, phase |-> "claimed"]]
  /\ disk' = disk \ {Dir(j) : j \in ended}
  /\ UNCHANGED <<dl, artifact, requesters, dWork, process>>

HeartbeatUpload(w) ==
  /\ uWork[w].phase # "idle"
  /\ Owned(up[uWork[w].job], w)
  /\ up' = [up EXCEPT ![uWork[w].job].expired = FALSE]
  /\ UNCHANGED <<dl, artifact, requesters, disk, work, process>>

\* validate_artifact: a missing file is a terminal failure.
StartUpload(w) ==
  /\ uWork[w].phase = "claimed"
  /\ UploadStep(w, IF Dir(uWork[w].job) \in disk THEN "uploading" ELSE "failing")
  /\ UNCHANGED <<rows, requesters, disk, dWork, process>>

UploadReturns(w) ==
  /\ uWork[w].phase = "uploading"
  /\ UploadStep(w, "delivered")
  /\ UNCHANGED <<rows, requesters, disk, dWork, process>>

UploadErrors(w) ==
  /\ uWork[w].phase = "uploading"
  /\ \E phase \in {"retrying", "failing"} : UploadStep(w, phase)
  /\ UNCHANGED <<rows, requesters, disk, dWork, process>>

UploadAccepted(w) ==
  Owned(up[uWork[w].job], w) /\ ~up[uWork[w].job].cancel

\* upload_jobs.succeed commits, then the artifact is released; a cancel at
\* that commit leaves the directory to the stale sweep.
UploadSucceeds(w) ==
  LET j == uWork[w].job IN
  /\ uWork[w].phase = "delivered"
  /\ UploadAccepted(w)
  /\ up' = [up EXCEPT ![j] = Ended(@, "SUCCEEDED")]
  /\ \/ disk' = disk \ {Dir(j)} /\ uWork' = [uWork EXCEPT ![w] = IdleUpload]
     \/ LateCancel /\ disk' = disk /\ UploadStep(w, "retrying")
  /\ UNCHANGED <<dl, artifact, requesters, dWork, process>>

UploadRefused(w) ==
  /\ uWork[w].phase = "delivered"
  /\ ~UploadAccepted(w)
  /\ UploadStep(w, "retrying")
  /\ UNCHANGED <<rows, requesters, disk, dWork, process>>

\* The succeed transaction raises: process() treats it as an unexpected
\* error, so a file that Telegram has accepted ends in a terminal failure.
UploadCommitFails(w) ==
  /\ uWork[w].phase = "delivered"
  /\ UploadStep(w, "failing")
  /\ UNCHANGED <<rows, requesters, disk, dWork, process>>

InterruptUpload(w) ==
  /\ uWork[w].phase \in {"uploading", "delivered"}
  /\ Cancelling(up[uWork[w].job], w, "draining")
  /\ UploadStep(w, "retrying")
  /\ UNCHANGED <<rows, requesters, disk, dWork, process>>

\* Mutant of SettleUpload: the file is released before the outcome is known.
SettleUploadReleasing(w) ==
  LET j == uWork[w].job IN
  /\ uWork[w].phase \in {"retrying", "failing"}
  /\ up' = [up EXCEPT ![j] = Settled(@, w, UploadMax, uWork[w].phase = "retrying")]
  /\ disk' = disk \ {Dir(j)}
  /\ uWork' = [uWork EXCEPT ![w] = IdleUpload]
  /\ UNCHANGED <<dl, artifact, requesters, dWork, process>>

\* _transition_failure, then the release if this call ended the row.
SettleUpload(w) ==
  LET j == uWork[w].job
      row == Settled(up[j], w, UploadMax, uWork[w].phase = "retrying")
  IN
  /\ uWork[w].phase \in {"retrying", "failing"}
  /\ up' = [up EXCEPT ![j] = row]
  /\ disk' = IF Owned(up[j], w) /\ row.status \in Terminal
             THEN disk \ {Dir(j)} ELSE disk
  /\ uWork' = [uWork EXCEPT ![w] = IdleUpload]
  /\ UNCHANGED <<dl, artifact, requesters, dWork, process>>

AbandonUpload(w) ==
  /\ \/ uWork[w].phase \in {"retrying", "failing"}
     \/ uWork[w].phase = "claimed" /\ Cancelling(up[uWork[w].job], w, "draining")
  /\ uWork' = [uWork EXCEPT ![w] = IdleUpload]
  /\ UNCHANGED <<rows, requesters, disk, dWork, process>>

-----------------------------------------------------------------------------
(* The process: graceful stop, crash, and startup recovery.                *)

\* QueueManager.stop: the download pool first, the upload pool after it.
StopDownloads ==
  /\ mode = "up" /\ stops < MaxStops
  /\ mode' = "stopping" /\ stops' = stops + 1
  /\ UNCHANGED <<rows, requesters, disk, work>>

StopUploads ==
  /\ mode = "stopping"
  /\ \A w \in DownloadWorker : dWork[w].phase = "idle"
  /\ mode' = "draining"
  /\ UNCHANGED <<rows, requesters, disk, work, stops>>

Exit ==
  /\ mode = "draining"
  /\ \A w \in UploadWorker : uWork[w].phase = "idle"
  /\ mode' = "down"
  /\ UNCHANGED <<rows, requesters, disk, work, stops>>

Crash ==
  /\ mode # "down" /\ stops < MaxStops
  /\ mode' = "down" /\ stops' = stops + 1
  /\ dWork' = [w \in DownloadWorker |-> IdleDownload]
  /\ uWork' = [w \in UploadWorker |-> IdleUpload]
  /\ UNCHANGED <<rows, requesters, disk>>

\* recover_startup, per surviving upload: a cached Telegram file rescues it,
\* a missing artifact fails it.
StartupRow(r, cached, present) ==
  IF r.status \notin Active THEN r
  ELSE IF cached /\ ~r.cancel THEN Ended(r, "SUCCEEDED")
  ELSE IF ~present THEN Failed(r)
  ELSE r

\* recover_startup before any pool starts.  `cached` is what the Telegram
\* file cache answers for the open uploads.  The handler is a sequence of
\* transactions: a crash inside it has reached only the uploads in `seen`.
Restart(cached, seen) ==
  LET rec == RecoveredRows(up, UploadMax)
      new == [j \in Job |-> IF j \in seen
                THEN StartupRow(rec[j], j \in cached, Dir(j) \in disk)
                ELSE rec[j]]
  IN
  /\ mode = "down"
  /\ dl' = RecoveredRows(dl, DownloadMax)
  /\ up' = new
  /\ disk' = disk \ {Dir(j) : j \in {i \in Job :
                       new[i].status \in Terminal /\ up[i].status \notin Terminal}}
  /\ \/ seen = Job /\ mode' = "up" /\ stops' = stops
     \/ seen # Job /\ stops < MaxStops /\ mode' = "down" /\ stops' = stops + 1
  /\ UNCHANGED <<artifact, requesters, work>>

-----------------------------------------------------------------------------
UserStep ==
  \E j \in Job : \/ Submit(j) \/ CancelDownload(j) \/ CancelUpload(j)
                 \/ \E u \in User : Attribute(j, u)

ClockStep == \E j \in Job : LeaseExpires(j) \/ BackoffElapses(j)

DownloadWorkerStep(w) ==
  \/ ClaimDownload(w) \/ HeartbeatDownload(w)
  \/ DownloadReturns(w) \/ DownloadErrors(w) \/ ResultInvalid(w)
  \/ Handoff(w) \/ HandoffFails(w)
  \/ InterruptDownload(w) \/ SettleDownload(w) \/ AbandonDownload(w)

UploadWorkerStep(w) ==
  \/ ClaimUpload(w) \/ HeartbeatUpload(w) \/ StartUpload(w)
  \/ UploadReturns(w) \/ UploadErrors(w)
  \/ UploadSucceeds(w) \/ UploadRefused(w) \/ UploadCommitFails(w)
  \/ InterruptUpload(w) \/ SettleUpload(w) \/ AbandonUpload(w)

ProcessStep ==
  \/ StopDownloads \/ StopUploads \/ Exit \/ Crash
  \/ \E cached, seen \in SUBSET Job : Restart(cached, seen)

Next ==
  \/ UserStep
  \/ ClockStep
  \/ \E w \in DownloadWorker : DownloadWorkerStep(w)
  \/ \E w \in UploadWorker : UploadWorkerStep(w)
  \/ ProcessStep

Spec == Init /\ [][Next]_vars

(***************************************************************************)
(* Fairness.  Idle workers poll every second and every await inside        *)
(* process() has a finite timeout, so a worker's task always goes on.  A   *)
(* lease nobody renews runs out and a backoff ends.  The supervisor        *)
(* restarts the process.  Users, stops and crashes are not fair.           *)
(***************************************************************************)
DownloadProgress(w) ==
  \/ DownloadReturns(w) \/ DownloadErrors(w) \/ ResultInvalid(w)
  \/ Handoff(w) \/ HandoffFails(w) \/ SettleDownload(w)

UploadProgress(w) ==
  \/ StartUpload(w) \/ UploadReturns(w) \/ UploadErrors(w)
  \/ UploadSucceeds(w) \/ UploadRefused(w) \/ SettleUpload(w)

Orphaned(j) ==
  /\ \A w \in DownloadWorker : dWork[w].job # j
  /\ \A w \in UploadWorker : uWork[w].job # j

Fairness ==
  /\ \A w \in DownloadWorker : WF_vars(ClaimDownload(w)) /\ WF_vars(DownloadProgress(w))
  /\ \A w \in UploadWorker : WF_vars(ClaimUpload(w)) /\ WF_vars(UploadProgress(w))
  /\ \A j \in Job : WF_vars(BackoffElapses(j))
  /\ \A j \in Job : WF_vars(Orphaned(j) /\ LeaseExpires(j))
  /\ WF_vars(StopUploads) /\ WF_vars(Exit)
  /\ WF_vars(\E cached \in SUBSET Job : Restart(cached, Job))

FairSpec == Spec /\ Fairness

-----------------------------------------------------------------------------
(* Properties.                                                             *)

TypeOK ==
  /\ dl \in [Job -> Row(DownloadWorker)]
  /\ up \in [Job -> Row(UploadWorker)]
  /\ artifact \in [Job -> Nat]
  /\ requesters \in [Job -> SUBSET User]
  /\ disk \subseteq Job \X Nat
  /\ dWork \in [DownloadWorker ->
                 [job : Job \cup {0}, attempt : Nat, phase : DownloadPhase]]
  /\ uWork \in [UploadWorker -> [job : Job \cup {0}, phase : UploadPhase]]
  /\ mode \in {"up", "stopping", "draining", "down"}
  /\ stops \in Nat

\* The lease fence of queue.py compares lease_owner only.  It is sound
\* because the attempt a worker is executing is the attempt of the row
\* whenever the row still names that worker, so a worker whose lease was
\* recovered and given away can never settle or hand off a later attempt.
AttemptFence ==
  \A w \in DownloadWorker :
    LET j == dWork[w].job IN
    (dWork[w].phase # "idle" /\ Owned(dl[j], w)) => dWork[w].attempt = dl[j].attempts

\* While an upload job can still run, the file it names is on disk: no
\* release of a stale worker, of a cancelled attempt or of startup recovery
\* takes away the artifact of a job that will be retried.
OpenUploadHasArtifact ==
  \A j \in Job : up[j].status \in Active => Dir(j) \in disk

\* A job is started at most DownloadMax (UploadMax) times, whatever mix of
\* retries, lease expiries, crashes and abandoned tasks it goes through.
AttemptsBounded ==
  \A j \in Job : dl[j].attempts <= DownloadMax /\ up[j].attempts <= UploadMax

\* Once cancellation of a job is recorded, it is never started again and
\* never succeeds, although its worker may be past the point of success.
CancelIsFinal ==
  [][\A j \in Job :
       /\ dl[j].cancel => /\ dl'[j].attempts = dl[j].attempts
                          /\ dl'[j].status \in {dl[j].status, "CANCELLED"}
       /\ up[j].cancel => /\ up'[j].attempts = up[j].attempts
                          /\ up'[j].status \in {up[j].status, "CANCELLED"}]_vars

\* A terminal row never changes, not even by a worker that still works on it.
TerminalIsFinal ==
  [][\A j \in Job :
       /\ dl[j].status \in Terminal => dl'[j] = dl[j]
       /\ up[j].status \in Terminal => up'[j] = up[j]]_vars

\* The number of running jobs attributed to a user never exceeds the limit.
PerUserLimit ==
  \A u \in User :
    Cardinality({j \in Job : dl[j].status = "RUNNING" /\ u \in requesters[j]})
      <= UserLimit

JobDone(j) ==
  dl[j].status \in Terminal /\ up[j].status \in Terminal \cup {"NONE"}

\* Every admitted job ends, its upload included: no crash, lost worker,
\* failed transaction or expired lease leaves a row open for ever.
JobSettles == \A j \in Job : dl[j].status = "QUEUED" ~> JobDone(j)

=============================================================================
