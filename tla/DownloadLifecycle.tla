------------------------- MODULE DownloadLifecycle -------------------------
(***************************************************************************)
(* The Stage 21 lifecycle tables: one download_requests row, its           *)
(* download_lifecycle_jobs row and its download_deliveries row for each    *)
(* confirmation token, which admit() inserts together.  A job that names a *)
(* Telegram delivery request mirrors the outbox (reconcile_telegram); the  *)
(* lease operations serve workers of the lifecycle's own, which the        *)
(* composed application does not start: LeaseWorker is empty there.        *)
(*                                                                         *)
(* Time is left out: a lease, or a persisted retry time, may be over at    *)
(* any moment.                                                             *)
(***************************************************************************)
EXTENDS Naturals, FiniteSets

CONSTANTS
  Confirmation,   \* confirmation tokens
  Message,        \* keys of Telegram delivery requests
  Title,          \* canonical tracks
  LeaseWorker,    \* workers that claim lifecycle jobs
  NoOne,          \* no lease owner, no linked request, no track
  MaxAttempts     \* max_attempts of a lifecycle job

ASSUME LifecycleAssumption ==
  /\ MaxAttempts \in Nat \ {0}
  /\ NoOne \notin LeaseWorker \cup Message \cup Title

VARIABLE life     \* confirmation |-> its three rows

EndedJob == {"SUCCEEDED", "FAILED", "CANCELLED"}
LeasedJob == {"RUNNING", "DELIVERING"}
JobStatus == {"PENDING", "QUEUED", "RETRY_WAIT"} \cup LeasedJob \cup EndedJob
DeliveryStatus == {"PENDING", "SENDING", "DELIVERED"}

NoRow == [status |-> "NONE", track |-> NoOne, link |-> NoOne, owner |-> NoOne,
          attempt |-> 0, cancel |-> FALSE, delivery |-> "PENDING"]

Exists(c) == life[c].status # "NONE"
LeaseIsLive(c) == Exists(c) /\ life[c].status \notin EndedJob
Owned(c, w) == life[c].status \in LeasedJob /\ life[c].owner = w

LifeInit == life = [c \in Confirmation |-> NoRow]

(* admit(): three INSERT .. ON CONFLICT DO NOTHING.  The link is UNIQUE and *)
(* is not the conflict target, so a second record of one delivery request  *)
(* is refused and the transaction undone.                                  *)
Linked(m) == {c \in Confirmation : Exists(c) /\ life[c].link = m}
LinkFree(c, m) == Linked(m) \subseteq {c}

Admitted(c, tr, m, initial) ==
  IF Exists(c) THEN life
  ELSE [life EXCEPT ![c] = [NoRow EXCEPT !.status = initial, !.track = tr, !.link = m]]

(* reconcile_telegram(): what an observed delivery status makes of the job. *)
Mirrored(status) ==
  CASE status = "CANCELLED" -> "CANCELLED"
    [] status = "FAILED" -> "FAILED"
    [] status = "SENDING" -> "DELIVERING"
    [] status = "WAITING" -> "RUNNING"
    [] status = "QUEUED" -> "QUEUED"

(* Mutant: the job succeeds and the delivery row is forgotten.             *)
MirrorJobOnly(row) ==
  IF row.status \in EndedJob THEN row
  ELSE [row EXCEPT !.status = "SUCCEEDED", !.owner = NoOne]

MirrorDelivered(row) ==
  IF row.status \in EndedJob THEN [row EXCEPT !.delivery = "DELIVERED"]
  ELSE [row EXCEPT !.delivery = "DELIVERED", !.status = "SUCCEEDED", !.owner = NoOne]

(* Mutant: an observer's older status reopens a finished job.              *)
MirrorLate(row, status) == [row EXCEPT !.status = Mirrored(status)]

MirrorOther(row, status) ==
  IF row.status \in EndedJob THEN row ELSE [row EXCEPT !.status = Mirrored(status)]

Reconciled(m, status) ==
  [c \in Confirmation |->
     IF c \notin Linked(m) THEN life[c]
     ELSE IF status = "DELIVERED" THEN MirrorDelivered(life[c])
     ELSE IF status \in {"CANCELLED", "FAILED", "SENDING", "WAITING", "QUEUED"}
          THEN MirrorOther(life[c], status)
     ELSE life[c]]

-----------------------------------------------------------------------------
(* Operations on one job.                                                  *)

LifeAdmit(c) ==
  \E tr \in Title, initial \in {"PENDING", "QUEUED"} :
    /\ ~Exists(c)
    /\ life' = Admitted(c, tr, NoOne, initial)

LifeQueue(c) ==
  /\ life[c].status \in {"PENDING", "RETRY_WAIT"}
  /\ life' = [life EXCEPT ![c].status = "QUEUED"]

LifeClaim(c, w) ==
  /\ life[c].status = "QUEUED"
  /\ ~life[c].cancel
  /\ life' = [life EXCEPT ![c].status = "RUNNING", ![c].owner = w,
                          ![c].attempt = @ + 1]

BeginDelivery(c, w) ==
  /\ Owned(c, w) /\ life[c].status = "RUNNING" /\ ~life[c].cancel
  /\ life' = [life EXCEPT ![c].status = "DELIVERING",
                          ![c].delivery = IF @ = "PENDING" THEN "SENDING" ELSE @]

(* The delivery row is updated first and is kept when the job's fence does *)
(* not match any more.                                                     *)
LifeSucceed(c, w) ==
  /\ Exists(c)
  /\ life[c].delivery # "DELIVERED"
  /\ life' = [life EXCEPT ![c] =
                IF @.status = "DELIVERING" /\ @.owner = w
                THEN [@ EXCEPT !.delivery = "DELIVERED", !.status = "SUCCEEDED", !.owner = NoOne]
                ELSE [@ EXCEPT !.delivery = "DELIVERED"]]

RetryTarget(row) == IF row.attempt >= MaxAttempts THEN "FAILED" ELSE "RETRY_WAIT"

Released(row, status) == [row EXCEPT !.status = status, !.owner = NoOne]

ScheduleRetry(c, w) ==
  /\ Owned(c, w)
  /\ life' = [life EXCEPT ![c] = Released(@, RetryTarget(@))]

LifeFail(c, w) ==
  /\ life[c].status \in LeasedJob \cup {"RETRY_WAIT", "QUEUED"}
  /\ life[c].owner \in {w, NoOne}
  /\ life' = [life EXCEPT ![c] = Released(@, "FAILED")]

CancelRow(row) ==
  IF row.status \in {"PENDING", "QUEUED", "RETRY_WAIT"}
  THEN [row EXCEPT !.status = "CANCELLED", !.cancel = TRUE]
  ELSE IF row.status \in LeasedJob THEN [row EXCEPT !.cancel = TRUE]
  ELSE row

LifeCancel(c) ==
  /\ LeaseIsLive(c)
  /\ life' = [life EXCEPT ![c] = CancelRow(@)]

CancelAtSafePoint(c, w) ==
  /\ Owned(c, w) /\ life[c].status = "RUNNING" /\ life[c].cancel
  /\ life' = [life EXCEPT ![c] = Released(@, "CANCELLED")]

(* recover(): one transaction settles the expired leases and requeues the  *)
(* retries that are due.  A retry it schedules itself is not due yet.      *)
Expirable == {c \in Confirmation : life[c].status \in LeasedJob /\ life[c].owner # NoOne}
Retryable == {c \in Confirmation : life[c].status = "RETRY_WAIT"}

LifeRecover ==
  \E expired \in SUBSET Expirable, due \in SUBSET Retryable :
    /\ expired \cup due # {}
    /\ life' = [c \in Confirmation |->
                  IF c \in expired THEN Released(life[c], RetryTarget(life[c]))
                  ELSE IF c \in due THEN [life[c] EXCEPT !.status = "QUEUED"]
                  ELSE life[c]]

LifeWork(w) ==
  \E c \in Confirmation :
    \/ LifeClaim(c, w)     \/ BeginDelivery(c, w) \/ LifeSucceed(c, w)
    \/ ScheduleRetry(c, w) \/ LifeFail(c, w)      \/ CancelAtSafePoint(c, w)

LifeNext ==
  \/ \E c \in Confirmation : LifeAdmit(c) \/ LifeQueue(c) \/ LifeCancel(c)
  \/ \E w \in LeaseWorker : LifeWork(w)
  \/ LifeRecover

LifeSpec == LifeInit /\ [][LifeNext]_life

-----------------------------------------------------------------------------
(* Properties.                                                             *)

LifeRow ==
  [status : JobStatus \cup {"NONE"}, track : Title \cup {NoOne},
   link : Message \cup {NoOne}, owner : LeaseWorker \cup {NoOne},
   attempt : 0 .. MaxAttempts, cancel : BOOLEAN, delivery : DeliveryStatus]

(* The rows are well formed.                                               *)
LifeTypeOK == life \in [Confirmation -> LifeRow]

(* A job that succeeded has its delivery recorded; a job nobody runs has   *)
(* no lease (what the schema's lease_pair check and every release in the   *)
(* repository are for).                                                    *)
SucceededIsDelivered ==
  \A c \in Confirmation :
    /\ life[c].status = "SUCCEEDED" => life[c].delivery = "DELIVERED"
    /\ life[c].owner # NoOne => life[c].status \in LeasedJob

KeepsEnds ==
  \A c \in Confirmation :
    /\ life[c].status \in EndedJob => life'[c].status = life[c].status
    /\ life[c].delivery = "DELIVERED" => life'[c].delivery = "DELIVERED"

(* A finished lifecycle job stays as it ended, whoever still reports on it *)
(* - a worker whose lease is gone, recovery, a cancellation, a delivery    *)
(* worker that observed an older status - and its delivery is never undone.*)
JobEndIsFinal == [][KeepsEnds]_life
=============================================================================
