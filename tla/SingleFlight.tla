---------------------------- MODULE SingleFlight ----------------------------
(***************************************************************************)
(* SingleFlight admission over the job queues:                             *)
(* app/storage/repositories/singleflight.py and                            *)
(* app/services/singleflight.py.  Requests for one key (track, quality,    *)
(* artifact fingerprint) share one download job through a download_flights *)
(* row and wait for it through one job_subscribers row each.               *)
(*                                                                         *)
(* Every transaction of JobQueue that ends a job also reconciles flights,  *)
(* so each action here is an action of JobQueue together with what the     *)
(* same transaction does to flights and subscribers.  The background       *)
(* reconciler, the one path without the write lock, is in FlightReconciler.*)
(***************************************************************************)
EXTENDS JobQueue

CONSTANTS
  Key,     (* (track_id, quality_profile, artifact_fingerprint)            *)
  Request, (* request keys of admissions                                   *)
  NoKey    (* the job does not exist yet                                   *)

ASSUME KeyAssumption == NoKey \notin Key

VARIABLES
  key,    (* the key a download job was admitted for                       *)
  flight, (* rowid of the job's download_flights row, 0 if it has none     *)
  sub     (* status of the subscriber a request has on a job               *)

admission == <<key, flight, sub>>
sfvars == <<vars, key, flight, sub>>

SubscriberStatus == {"NONE", "WAITING", "READY", "FAILED", "CANCELLED"}

SFInit ==
  /\ Init
  /\ key = [j \in Job |-> NoKey]
  /\ flight = [j \in Job |-> 0]
  /\ sub = [j \in Job |-> [r \in Request |-> "NONE"]]

-----------------------------------------------------------------------------
(* _reconcile_flight: what the job and its upload mean for the waiters;    *)
(* WAITING keeps the flight open.                                          *)

\* Mutant of UploadOutcome: the queue's word for success.
UploadStatusOutcome(u) ==
  IF u.status = "NONE" THEN "FAILED"
  ELSE IF u.status \in Terminal THEN u.status
  ELSE "WAITING"

UploadOutcome(u) ==
  IF u.status = "NONE" THEN "FAILED"
  ELSE IF u.cancel \/ u.status = "CANCELLED" THEN "CANCELLED"
  ELSE IF u.status = "FAILED" THEN "FAILED"
  ELSE IF u.status = "SUCCEEDED" THEN "READY"
  ELSE "WAITING"

\* Mutants of Outcome: ready once downloaded; a failed download still open.
DownloadedOutcome(d, u) ==
  IF d.cancel \/ d.status = "CANCELLED" THEN "CANCELLED"
  ELSE IF d.status = "FAILED" THEN "FAILED"
  ELSE IF d.status \in Active THEN "WAITING"
  ELSE "READY"

UnfailedOutcome(d, u) ==
  IF d.cancel \/ d.status = "CANCELLED" THEN "CANCELLED"
  ELSE IF d.status \in Active \cup {"FAILED"} THEN "WAITING"
  ELSE UploadOutcome(u)

Outcome(d, u) ==
  IF d.cancel \/ d.status = "CANCELLED" THEN "CANCELLED"
  ELSE IF d.status = "FAILED" THEN "FAILED"
  ELSE IF d.status \in Active THEN "WAITING"
  ELSE UploadOutcome(u)

\* Mutant of Resolved: every subscriber is told, not only those who wait.
ResolvedAll(subs, outcome) ==
  [r \in Request |-> IF subs[r] = "NONE" THEN "NONE" ELSE outcome]

Resolved(subs, outcome) ==
  [r \in Request |-> IF subs[r] = "WAITING" THEN outcome ELSE subs[r]]

Waiters(j) == {r \in Request : sub[j][r] = "WAITING"}

\* Mutant of Reconcile: the flight goes, its subscribers are left as they are.
ReconcileFlightsOnly(S) ==
  /\ flight' = [j \in Job |->
       IF j \in S /\ Outcome(dl'[j], up'[j]) # "WAITING" THEN 0 ELSE flight[j]]
  /\ UNCHANGED <<sub, key>>

\* reconcile_download_job / reconcile_all for the jobs in S, at the end of a
\* transaction that leaves the rows dl' and up'.
Reconcile(S) ==
  LET closed == {j \in S : flight[j] # 0 /\ Outcome(dl'[j], up'[j]) # "WAITING"} IN
  /\ flight' = [j \in Job |-> IF j \in closed THEN 0 ELSE flight[j]]
  /\ sub' = [j \in Job |-> IF j \in closed
               THEN Resolved(sub[j], Outcome(dl'[j], up'[j])) ELSE sub[j]]
  /\ key' = key

-----------------------------------------------------------------------------
(* Admission and withdrawal; both run under BEGIN IMMEDIATE.               *)

FlightFor(k) == {j \in Job : flight[j] # 0 /\ key[j] = k}

\* Mutant of Eligible: a flight is over once its download is.
EligibleDownload(j) == dl[j].status \in Active

Eligible(j) == Outcome(dl[j], up[j]) = "WAITING"

\* A request key already on the job gets its subscriber back as it is.
JoinFlight(r, k) ==
  /\ mode # "down"
  /\ \E j \in FlightFor(k) :
       /\ Eligible(j)
       /\ sub[j][r] = "NONE"
       /\ sub' = [sub EXCEPT ![j][r] = "WAITING"]
  /\ UNCHANGED <<vars, key, flight>>

\* No flight, or one that is reconciled away here; QueueFullError otherwise
\* rolls everything back.  The new row gets max(rowid) + 1, as SQLite numbers
\* a table without AUTOINCREMENT.
OpenFlight(r, k, j) ==
  LET stale == FlightFor(k)
      kept == [i \in Job |-> IF i \in stale THEN 0 ELSE flight[i]]
      told == [i \in Job |-> IF i \in stale
                 THEN Resolved(sub[i], Outcome(dl[i], up[i])) ELSE sub[i]]
  IN
  /\ \A i \in stale : ~Eligible(i)
  /\ Submit(j)
  /\ key' = [key EXCEPT ![j] = k]
  /\ \E n \in {kept[i] + 1 : i \in Job} :
       /\ \A i \in Job : kept[i] < n
       /\ flight' = [kept EXCEPT ![j] = n]
  /\ sub' = [told EXCEPT ![j][r] = "WAITING"]

\* Mutant of WithdrawLast: an upload that is still open is forgotten.
WithdrawDownloadOnly(j) ==
  IF dl[j].status \in Active THEN CancelDownload(j) ELSE UNCHANGED vars

\* cancel_subscriber.  The last waiter takes the flight away and cancels
\* the download, or the upload if the download is over.
WithdrawLast(j) ==
  \/ dl[j].status \in Active /\ CancelDownload(j)
  \/ /\ dl[j].status = "SUCCEEDED" /\ CancelUpload(j)
     /\ up[j].status = "QUEUED" => disk' = disk \ {Dir(j)}
  \/ /\ dl[j].status \notin Active
     /\ dl[j].status = "SUCCEEDED" => up[j].status \notin Active
     /\ UNCHANGED vars

CancelSubscriber(j, r) ==
  /\ mode # "down"
  /\ sub[j][r] = "WAITING"
  /\ sub' = [sub EXCEPT ![j][r] = "CANCELLED"]
  /\ IF Waiters(j) = {r}
     THEN flight' = [flight EXCEPT ![j] = 0] /\ WithdrawLast(j)
     ELSE UNCHANGED <<flight, vars>>
  /\ key' = key

\* Mutant of CancelJob: the transaction does not reconcile the flight.
CancelJobSilently(j) == (CancelDownload(j) \/ CancelUpload(j)) /\ UNCHANGED admission

\* QueueManager.cancel_download / cancel_upload, past all subscribers.
CancelJob(j) == (CancelDownload(j) \/ CancelUpload(j)) /\ Reconcile({j})

-----------------------------------------------------------------------------
(* The transactions of JobQueue, each with the flights it reconciles.      *)

SFUserStep ==
  \/ \E r \in Request, k \in Key : JoinFlight(r, k) \/ \E j \in Job : OpenFlight(r, k, j)
  \/ \E j \in Job, r \in Request : CancelSubscriber(j, r)
  \/ \E j \in Job : CancelJob(j)
  \/ \E j \in Job, u \in User : Attribute(j, u) /\ UNCHANGED admission

SFDownloadStep(w) ==
  \/ ClaimDownload(w) /\ Reconcile(Job)
  \/ SettleDownload(w) /\ Reconcile({dWork[w].job})
  \/ /\ \/ HeartbeatDownload(w) \/ DownloadReturns(w) \/ DownloadErrors(w)
        \/ ResultInvalid(w) \/ Handoff(w) \/ HandoffFails(w)
        \/ InterruptDownload(w) \/ AbandonDownload(w)
     /\ UNCHANGED admission

SFUploadStep(w) ==
  \/ ClaimUpload(w) /\ Reconcile(Job)
  \/ /\ UploadSucceeds(w) \/ UploadRefused(w) \/ SettleUpload(w)
     /\ Reconcile({uWork[w].job})
  \/ /\ \/ HeartbeatUpload(w) \/ StartUpload(w) \/ UploadReturns(w)
        \/ UploadErrors(w) \/ UploadCommitFails(w) \/ InterruptUpload(w)
        \/ AbandonUpload(w)
     /\ UNCHANGED admission

\* Startup reconciles each upload it ends and, once through, every flight.
SFRestart(cached, seen) ==
  /\ Restart(cached, seen)
  /\ Reconcile(IF mode' = "up" THEN Job ELSE {j \in seen : up'[j] # Recovered(up[j], UploadMax)})

SFProcessStep ==
  \/ (StopDownloads \/ StopUploads \/ Exit \/ Crash) /\ UNCHANGED admission
  \/ \E cached, seen \in SUBSET Job : SFRestart(cached, seen)

SFNext ==
  \/ SFUserStep
  \/ ClockStep /\ UNCHANGED admission
  \/ \E w \in DownloadWorker : SFDownloadStep(w)
  \/ \E w \in UploadWorker : SFUploadStep(w)
  \/ SFProcessStep

SFSpec == SFInit /\ [][SFNext]_sfvars

\* As for the queues: workers, the clock and restarts go on, users need not.
SFFairness ==
  /\ \A w \in DownloadWorker :
       /\ WF_sfvars(ClaimDownload(w) /\ Reconcile(Job))
       /\ WF_sfvars(DownloadProgress(w) /\ SFDownloadStep(w))
  /\ \A w \in UploadWorker :
       /\ WF_sfvars(ClaimUpload(w) /\ Reconcile(Job))
       /\ WF_sfvars(UploadProgress(w) /\ SFUploadStep(w))
  /\ \A j \in Job : WF_sfvars(BackoffElapses(j) /\ UNCHANGED admission)
  /\ \A j \in Job : WF_sfvars(Orphaned(j) /\ LeaseExpires(j) /\ UNCHANGED admission)
  /\ WF_sfvars((StopUploads \/ Exit) /\ UNCHANGED admission)
  /\ WF_sfvars(\E cached \in SUBSET Job : SFRestart(cached, Job))

SFFairSpec == SFSpec /\ SFFairness

-----------------------------------------------------------------------------
(* Properties.                                                             *)

SFTypeOK ==
  /\ TypeOK
  /\ key \in [Job -> Key \cup {NoKey}]
  /\ flight \in [Job -> Nat]
  /\ sub \in [Job -> [Request -> SubscriberStatus]]

\* A subscriber waits only on a job whose flight is still open: nothing
\* else would ever tell it the result.
WaiterHasFlight ==
  \A j \in Job : Waiters(j) # {} => flight[j] # 0

\* Outside startup every open flight belongs to a job that can still give
\* its waiters a result: no transaction ends a job, or records its
\* cancellation, and leaves the flight for others to join.
OpenFlightIsLive ==
  mode # "down" => \A j \in Job : flight[j] # 0 => Eligible(j)

\* No queued download or upload is left for nobody: withdrawing the last
\* waiter reaches the work at whatever stage it is.
WorkHasWaiter ==
  \A j \in Job :
    (dl[j].status = "QUEUED" \/ up[j].status = "QUEUED") => Waiters(j) # {}

\* All who wait for one key wait for one job.
OneJobPerKey ==
  \A i, j \in Job :
    (key[i] = key[j] /\ Waiters(i) # {} /\ Waiters(j) # {}) => i = j

\* READY is told only for an upload that succeeded.
ReadyIsUploaded ==
  \A j \in Job, r \in Request : sub[j][r] = "READY" => up[j].status = "SUCCEEDED"

\* Every subscriber is told something, whatever happens to the work.
WaiterIsTold ==
  \A j \in Job, r \in Request : sub[j][r] = "WAITING" ~> sub[j][r] # "WAITING"

\* The refinement mapping to SharedResult.
CurrentJob ==
  [k \in Key |-> IF FlightFor(k) = {} THEN 0 ELSE CHOOSE j \in FlightFor(k) : TRUE]

=============================================================================
