---------------------------- MODULE DownloadProofs ----------------------------
(***************************************************************************)
(* Theorems about the lifecycle tables (LifeSpec), about a track's way     *)
(* through them (AdmissionSpec) and about the batches over it (BatchSpec), *)
(* for any sets of confirmations, batches, messages, tracks, handler tasks *)
(* and workers and any limits.                                             *)
(***************************************************************************)
EXTENDS BatchDownloads, TLAPS, SequenceTheorems, FiniteSetTheorems

USE DEF EndedJob, LeasedJob

-----------------------------------------------------------------------------
(* The tables alone.                                                       *)

(* A job that may still be claimed has an attempt left, so that claiming   *)
(* it keeps the count within the schema's check; a row that was not        *)
(* inserted is empty.                                                      *)
AttemptLeft ==
  \A c \in Confirmation :
    /\ life[c].status \in {"PENDING", "QUEUED", "RETRY_WAIT"} => life[c].attempt < MaxAttempts
    /\ life[c].status = "NONE" => life[c] = NoRow

LifeInv == LifeTypeOK /\ SucceededIsDelivered /\ AttemptLeft

(* One row of the tables, as LifeInv has it.                               *)
SoundRow(row) ==
  /\ row \in LifeRow
  /\ row.status = "SUCCEEDED" => row.delivery = "DELIVERED"
  /\ row.owner # NoOne => row.status \in LeasedJob
  /\ row.status \in {"PENDING", "QUEUED", "RETRY_WAIT"} => row.attempt < MaxAttempts
  /\ row.status = "NONE" => row = NoRow

(* What an update may make of a row: sound again, its end not undone.      *)
GoodUpdate(old, new) ==
  /\ SoundRow(new)
  /\ old.status \in EndedJob => new.status = old.status
  /\ old.delivery = "DELIVERED" => new.delivery = "DELIVERED"

(* LifeInv holds exactly when every row is sound.                          *)
LEMMA InvIsRows ==
  LifeInv <=> /\ life = [c \in Confirmation |-> life[c]]
              /\ \A c \in Confirmation : SoundRow(life[c])
  BY DEF LifeInv, LifeTypeOK, SucceededIsDelivered, AttemptLeft, SoundRow

(* The primed form of InvIsRows.                                           *)
LEMMA InvIsRowsNext ==
  LifeInv' <=> /\ life' = [c \in Confirmation |-> life'[c]]
               /\ \A c \in Confirmation : SoundRow(life'[c])
  BY DEF LifeInv, LifeTypeOK, SucceededIsDelivered, AttemptLeft, SoundRow

(* A table of good updates keeps LifeInv and the ends.                     *)
LEMMA RowsGood ==
  ASSUME LifeInv,
         life' = [c \in Confirmation |-> life'[c]],
         \A c \in Confirmation : GoodUpdate(life[c], life'[c])
  PROVE  LifeInv' /\ KeepsEnds
  BY InvIsRowsNext DEF GoodUpdate, KeepsEnds

(* One row is updated well and the others stay.                            *)
LEMMA OneRowGood ==
  ASSUME LifeInv, NEW c \in Confirmation, NEW row,
         GoodUpdate(life[c], row), life' = [life EXCEPT ![c] = row]
  PROVE  LifeInv' /\ KeepsEnds
  <1>1. life = [d \in Confirmation |-> life[d]] /\ \A d \in Confirmation : SoundRow(life[d])
    BY InvIsRows
  <1>2. life' = [d \in Confirmation |-> life'[d]]
    BY <1>1
  <1>3. \A d \in Confirmation : GoodUpdate(life[d], life'[d])
    BY <1>1 DEF GoodUpdate
  <1> QED BY <1>2, <1>3, RowsGood

(* The row of a job that was not inserted.                                 *)
LEMMA NoRowTyped == NoRow \in LifeRow
  <1>1. 0 \in 0 .. MaxAttempts
    BY LifecycleAssumption
  <1> QED BY <1>1, Zenon DEF NoRow, LifeRow, JobStatus, DeliveryStatus

(* A release for a retry is a good update of a running job.                *)
LEMMA RetryIsGood ==
  ASSUME NEW row, SoundRow(row), row.status \in LeasedJob
  PROVE  GoodUpdate(row, Released(row, RetryTarget(row)))
  <1> DEFINE new == Released(row, RetryTarget(row))
  <1>1. row \in LifeRow
    BY DEF SoundRow
  <1>2. row.attempt \in 0 .. MaxAttempts
    BY <1>1, Zenon DEF LifeRow
  <1>3. RetryTarget(row) \in {"FAILED", "RETRY_WAIT"}
    BY DEF RetryTarget
  <1>4. RetryTarget(row) = "RETRY_WAIT" => row.attempt < MaxAttempts
    BY <1>2, LifecycleAssumption DEF RetryTarget
  <1>5. new \in LifeRow
    BY <1>1, <1>3 DEF LifeRow, Released, JobStatus
  <1>6. /\ new.status = RetryTarget(row) /\ new.owner = NoOne
        /\ new.attempt = row.attempt /\ new.delivery = row.delivery
    BY <1>1 DEF Released, LifeRow
  <1>7. SoundRow(new)
    BY <1>3, <1>4, <1>5, <1>6 DEF SoundRow
  <1> QED BY <1>6, <1>7 DEF GoodUpdate

(* Each operation on one job is a good update of its row.                  *)
LEMMA OperationIsGood ==
  ASSUME LifeInv, NEW c \in Confirmation,
         \/ LifeAdmit(c) \/ LifeQueue(c) \/ LifeCancel(c)
         \/ \E w \in LeaseWorker :
              \/ LifeClaim(c, w)     \/ BeginDelivery(c, w) \/ LifeSucceed(c, w)
              \/ ScheduleRetry(c, w) \/ LifeFail(c, w)      \/ CancelAtSafePoint(c, w)
  PROVE  LifeInv' /\ KeepsEnds
  <1>1. SoundRow(life[c]) /\ life = [d \in Confirmation |-> life[d]]
    BY InvIsRows
  <1>2. GoodUpdate(life[c], life'[c]) /\ life' = [life EXCEPT ![c] = life'[c]]
    <2> USE LifecycleAssumption DEF GoodUpdate, SoundRow, LifeRow, JobStatus, DeliveryStatus
    <2>1. CASE LifeAdmit(c)
      <3>1. PICK tr \in Title, initial \in {"PENDING", "QUEUED"} :
              ~Exists(c) /\ life' = Admitted(c, tr, NoOne, initial)
        BY <2>1 DEF LifeAdmit
      <3> DEFINE row == [NoRow EXCEPT !.status = initial, !.track = tr, !.link = NoOne]
      <3>2. life[c] = NoRow /\ life' = [life EXCEPT ![c] = row]
        BY <1>1, <3>1 DEF Admitted, Exists
      <3>3. row \in LifeRow
        BY NoRowTyped
      <3>4. /\ row.status = initial /\ row.owner = NoOne
            /\ row.attempt = 0 /\ NoRow.status = "NONE" /\ NoRow.delivery = "PENDING"
        BY DEF NoRow
      <3>5. SoundRow(row)
        BY <3>3, <3>4
      <3> QED BY <1>1, <3>2, <3>4, <3>5
    <2>2. CASE LifeQueue(c)
      BY <1>1, <2>2 DEF LifeQueue
    <2>3. CASE LifeCancel(c)
      BY <1>1, <2>3 DEF LifeCancel, CancelRow, LeaseIsLive, Exists
    <2>4. ASSUME NEW w \in LeaseWorker, LifeClaim(c, w)
          PROVE  GoodUpdate(life[c], life'[c]) /\ life' = [life EXCEPT ![c] = life'[c]]
      <3>0. life[c].attempt \in 0 .. MaxAttempts /\ life[c].attempt < MaxAttempts
        BY <1>1, <2>4, Zenon DEF LifeClaim
      <3>1. life[c].attempt \in Nat /\ life[c].attempt < MaxAttempts
        BY <3>0
      <3>2. life[c].attempt + 1 \in 0 .. MaxAttempts
        BY <3>1
      <3> QED BY <1>1, <2>4, <3>2 DEF LifeClaim
    <2>5. ASSUME NEW w \in LeaseWorker, BeginDelivery(c, w)
          PROVE  GoodUpdate(life[c], life'[c]) /\ life' = [life EXCEPT ![c] = life'[c]]
      BY <1>1, <2>5 DEF BeginDelivery, Owned
    <2>6. ASSUME NEW w \in LeaseWorker, LifeSucceed(c, w)
          PROVE  GoodUpdate(life[c], life'[c]) /\ life' = [life EXCEPT ![c] = life'[c]]
      BY <1>1, <2>6 DEF LifeSucceed, Exists
    <2>7. ASSUME NEW w \in LeaseWorker, ScheduleRetry(c, w)
          PROVE  GoodUpdate(life[c], life'[c]) /\ life' = [life EXCEPT ![c] = life'[c]]
      <3>1. life' = [life EXCEPT ![c] = Released(life[c], RetryTarget(life[c]))]
        BY <2>7 DEF ScheduleRetry
      <3>2. life[c].status \in LeasedJob
        BY <2>7 DEF ScheduleRetry, Owned
      <3>3. life'[c] = Released(life[c], RetryTarget(life[c]))
        BY <1>1, <3>1, Zenon
      <3> QED BY <1>1, <3>1, <3>2, <3>3, RetryIsGood DEF SoundRow
    <2>8. ASSUME NEW w \in LeaseWorker, LifeFail(c, w)
          PROVE  GoodUpdate(life[c], life'[c]) /\ life' = [life EXCEPT ![c] = life'[c]]
      BY <1>1, <2>8 DEF LifeFail, Released
    <2>9. ASSUME NEW w \in LeaseWorker, CancelAtSafePoint(c, w)
          PROVE  GoodUpdate(life[c], life'[c]) /\ life' = [life EXCEPT ![c] = life'[c]]
      BY <1>1, <2>9 DEF CancelAtSafePoint, Owned, Released
    <2> QED BY <2>1, <2>2, <2>3, <2>4, <2>5, <2>6, <2>7, <2>8, <2>9
  <1> QED BY <1>2, OneRowGood

(* Recovery updates many rows, each one well.                              *)
LEMMA RecoveryIsGood ==
  ASSUME LifeInv, LifeRecover
  PROVE  LifeInv' /\ KeepsEnds
  <1>1. \A c \in Confirmation : SoundRow(life[c])
    BY InvIsRows
  <1>2. PICK expired \in SUBSET Expirable, due \in SUBSET Retryable :
          life' = [c \in Confirmation |->
                     IF c \in expired THEN Released(life[c], RetryTarget(life[c]))
                     ELSE IF c \in due THEN [life[c] EXCEPT !.status = "QUEUED"]
                     ELSE life[c]]
    BY DEF LifeRecover
  <1>3. ASSUME NEW c \in Confirmation
        PROVE  GoodUpdate(life[c], life'[c])
    <2>1. CASE c \in expired
      BY <1>1, <1>2, <2>1, RetryIsGood DEF Expirable
    <2>2. CASE c \notin expired /\ c \in due
      BY <1>1, <1>2, <2>2 DEF Retryable, GoodUpdate, SoundRow, LifeRow, JobStatus
    <2>3. CASE c \notin expired /\ c \notin due
      BY <1>1, <1>2, <2>3 DEF GoodUpdate
    <2> QED BY <2>1, <2>2, <2>3
  <1>4. life' = [c \in Confirmation |-> life'[c]]
    BY <1>2
  <1> QED BY <1>3, <1>4, RowsGood

(* Every step of the tables keeps LifeInv and the ends.                    *)
LEMMA LifeStep ==
  ASSUME LifeInv, [LifeNext]_life
  PROVE  LifeInv' /\ [KeepsEnds]_life
  <1>1. CASE LifeNext
    BY <1>1, OperationIsGood, RecoveryIsGood DEF LifeNext, LifeWork
  <1>2. CASE UNCHANGED life
    BY <1>2 DEF LifeInv, LifeTypeOK, SucceededIsDelivered, AttemptLeft
  <1> QED BY <1>1, <1>2

(* The empty tables.                                                       *)
LEMMA LifeStart == ASSUME LifeInit PROVE LifeInv
  BY LifecycleAssumption
  DEF LifeInit, NoRow, LifeInv, LifeTypeOK, LifeRow, JobStatus, DeliveryStatus,
      SucceededIsDelivered, AttemptLeft

(* Leases, retries, cancellations and recovery in any order: the rows stay *)
(* well formed, a lease only on a running job, success only with a         *)
(* delivery, and no more attempts than allowed.                            *)
THEOREM TablesSound == LifeSpec => [](LifeTypeOK /\ SucceededIsDelivered)
  <1>1. LifeSpec => []LifeInv
    BY LifeStart, LifeStep, PTL DEF LifeSpec
  <1>2. LifeInv => LifeTypeOK /\ SucceededIsDelivered
    BY DEF LifeInv
  <1> QED BY <1>1, <1>2, PTL

(* A worker whose lease is gone never undoes the end of a job or of its    *)
(* delivery.                                                               *)
THEOREM TablesFinal == LifeSpec => JobEndIsFinal
  <1>1. LifeSpec => []LifeInv
    BY LifeStart, LifeStep, PTL DEF LifeSpec
  <1>2. LifeInv /\ [LifeNext]_life => [KeepsEnds]_life
    BY LifeStep
  <1> QED BY <1>1, <1>2, PTL DEF LifeSpec, JobEndIsFinal
-----------------------------------------------------------------------------
(* A track's way through the tables: types first.                          *)

RequestRow == [status : RequestStatus, track : Title \cup {NoOne},
               owner : Courier \cup {NoOne}, claims : 0 .. MaxClaims]

SubRow == [pc : {"idle", "resolve", "request", "start", "card", "first", "open", "choose",
                 "record", "done", "failed"},
           conf : Confirmation \cup {NoOne}, msg : Message \cup {NoOne},
           track : Title \cup {NoOne}, quality : BOOLEAN, seen : RequestStatus]

DeliveryRow == [pc : {"idle", "process", "look", "report"},
                msg : Message \cup {NoOne}, seen : RequestStatus]

RestTyped ==
  /\ offer \in [Confirmation -> Title \cup {NoOne}]
  /\ sub \in [Submitter -> SubRow]
  /\ courier \in [Courier -> DeliveryRow]
  /\ preferred \in BOOLEAN

(* A task that is under way has a message, and a submission its            *)
(* confirmation.                                                           *)
TasksHaveMessages ==
  /\ \A s \in Submitter : sub[s].pc # "idle" => sub[s].msg \in Message /\ sub[s].conf \in Confirmation
  /\ \A w \in Courier : courier[w].pc # "idle" => courier[w].msg \in Message

(* The composed application has no lifecycle workers of its own.           *)
Unleased == \A c \in Confirmation : life[c].attempt = 0 /\ life[c].owner = NoOne

(* An end that a delivery worker is about to report is the request's.      *)
ReportIsTrue ==
  \A w \in Courier :
    courier[w].pc = "report" /\ courier[w].seen \in Over
      => request[courier[w].msg].status = courier[w].seen

RequestsTyped == request \in [Message -> RequestRow]

AdmInv ==
  /\ LifeInv /\ RequestsTyped /\ RestTyped
  /\ TasksHaveMessages /\ Unleased /\ ReportIsTrue /\ RecordIsTrue

(* What a step may do to the requests.                                     *)
RequestsEvolve == RequestsTyped' /\ StartsOnce

(* A step that leaves the record alone and starts no report.               *)
LEMMA OthersKeep ==
  ASSUME AdmInv, RequestsEvolve, RestTyped', TasksHaveMessages', UNCHANGED life,
         \A w \in Courier : courier'[w].pc = "report" => courier'[w] = courier[w]
  PROVE  AdmInv' /\ KeepsEnds /\ StartsOnce
  <1>1. \A m \in Message : request[m].status \in Over => request'[m].status = request[m].status
    BY DEF RequestsEvolve, StartsOnce
  <1>2. ReportIsTrue'
    BY <1>1 DEF AdmInv, ReportIsTrue, TasksHaveMessages, RestTyped
  <1>3. RecordIsTrue'
    <2>1. \A c \in Confirmation : life[c].link # NoOne => life[c].link \in Message
      BY DEF AdmInv, LifeInv, LifeTypeOK, LifeRow
    <2> QED BY <1>1, <2>1 DEF AdmInv, RecordIsTrue, Over
  <1>4. LifeInv' /\ KeepsEnds /\ Unleased'
    BY DEF AdmInv, LifeInv, LifeTypeOK, SucceededIsDelivered, AttemptLeft, KeepsEnds, Unleased
  <1> QED BY <1>2, <1>3, <1>4 DEF AdmInv, RequestsEvolve

(* A guarded update of a waiting request.                                  *)
LEMMA MoveEvolves ==
  ASSUME RequestsTyped, NEW m \in Message, NEW from \in Waiting,
         NEW to \in Waiting \cup {"QUEUED"}, Moves(m, from, to)
  PROVE  RequestsEvolve
  BY DEF RequestsTyped, RequestRow, RequestStatus, RequestsEvolve, StartsOnce, Moves, Waiting, Over

(* Requests that are not written.                                          *)
LEMMA RestEvolves == ASSUME RequestsTyped, UNCHANGED request PROVE RequestsEvolve
  BY DEF RequestsTyped, RequestsEvolve, StartsOnce

(* The requests in a step of a submission.                                 *)
LEMMA SubmitEvolves ==
  ASSUME AdmInv, NEW s \in Submitter, Submit(s)
  PROVE  RequestsEvolve
  <1> USE RestEvolves, MoveEvolves DEF AdmInv, TasksHaveMessages, Waiting
  <1>1. CASE ResolveTrack(s)
    BY <1>1 DEF ResolveTrack
  <1>2. CASE RequestTrack(s)
    <2> DEFINE m == sub[s].msg
    <2>1. m \in Message
      BY <1>2 DEF RequestTrack
    <2>2. \/ UNCHANGED request
          \/ /\ request[m].status = "NONE"
             /\ request' = [request EXCEPT ![m] = NewRequest(sub[s].track)]
      BY <1>2 DEF RequestTrack, RequestsTyped
    <2>3. NewRequest(sub[s].track) \in RequestRow
      <3>1. 0 \in 0 .. MaxClaims
        BY AdmissionAssumption
      <3>2. NoRequest \in RequestRow
        BY <3>1, Zenon DEF NoRequest, RequestRow, RequestStatus
      <3>3. sub[s].track \in Title \cup {NoOne}
        BY DEF RestTyped, SubRow
      <3> QED BY <3>2, <3>3 DEF NewRequest, RequestRow, RequestStatus
    <2> QED BY <2>1, <2>2, <2>3 DEF RequestsTyped, RequestsEvolve, StartsOnce, Over
  <1>3. CASE StartDefaultQuality(s)
    BY <1>3 DEF StartDefaultQuality
  <1>4. CASE ReadCard(s)
    BY <1>4 DEF ReadCard
  <1>5. CASE ChooseFirstQuality(s)
    BY <1>5 DEF ChooseFirstQuality
  <1>6. CASE OpenTrackQuality(s)
    BY <1>6 DEF OpenTrackQuality
  <1>7. CASE ChooseTrackQuality(s)
    BY <1>7 DEF ChooseTrackQuality
  <1>8. CASE AdmitRecord(s)
    BY <1>8 DEF AdmitRecord
  <1> QED BY <1>1, <1>2, <1>3, <1>4, <1>5, <1>6, <1>7, <1>8 DEF Submit

(* A submission's own record stays typed and keeps its message.            *)
LEMMA SubmitTyped ==
  ASSUME AdmInv, NEW s \in Submitter, Submit(s)
  PROVE  RestTyped' /\ TasksHaveMessages'
  <1>1. RestTyped /\ TasksHaveMessages /\ sub[s].pc # "idle"
    BY DEF AdmInv, Submit, ResolveTrack, RequestTrack, StartDefaultQuality, ReadCard,
           ChooseFirstQuality, OpenTrackQuality, ChooseTrackQuality, AdmitRecord
  <1>2. /\ UNCHANGED <<offer, courier>>
        /\ preferred' \in BOOLEAN
    BY <1>1 DEF Submit, ResolveTrack, RequestTrack, StartDefaultQuality, ReadCard, RestTyped,
           ChooseFirstQuality, OpenTrackQuality, ChooseTrackQuality, AdmitRecord
  <1>3. \E pc \in {"request", "start", "card", "first", "open", "choose", "record", "done",
                    "failed"}, seen \in RequestStatus :
           sub' = [sub EXCEPT ![s].pc = pc, ![s].seen = seen]
    <2> USE DEF Step, Seen, SubmissionFails
    <2>0. sub[s].seen \in RequestStatus /\ sub = [x \in Submitter |-> sub[x]]
      BY <1>1 DEF RestTyped, SubRow
    <2>1. ASSUME NEW pc, Step(s, pc)
          PROVE  sub' = [sub EXCEPT ![s].pc = pc, ![s].seen = sub[s].seen]
      BY <2>0, <2>1, <1>1 DEF RestTyped, SubRow
    <2> HIDE DEF Step
    <2>2. CASE ResolveTrack(s)
      BY <2>0, <2>1, <2>2 DEF ResolveTrack
    <2>3. CASE RequestTrack(s)
      <3>1. RequestsTyped'
        BY SubmitEvolves DEF RequestsEvolve
      <3> DEFINE m == sub[s].msg
                 row == IF request[m].status = "NONE" THEN NewRequest(sub[s].track) ELSE request[m]
      <3>2. m \in Message
        BY <1>1 DEF TasksHaveMessages
      <3>3. request'[m] = row
        BY <2>3, <3>2 DEF RequestTrack, AdmInv, RequestsTyped
      <3>4. row.status \in RequestStatus
        BY <3>1, <3>2, <3>3 DEF RequestsTyped, RequestRow
      <3> QED BY <2>3, <3>4 DEF RequestTrack
    <2>4. CASE StartDefaultQuality(s)
      BY <2>0, <2>1, <2>4 DEF StartDefaultQuality, RequestStatus
    <2>5. CASE ReadCard(s)
      BY <2>0, <2>1, <2>5 DEF ReadCard
    <2>6. CASE ChooseFirstQuality(s)
      BY <2>0, <2>1, <2>6 DEF ChooseFirstQuality, RequestStatus
    <2>7. CASE OpenTrackQuality(s)
      BY <2>0, <2>1, <2>7 DEF OpenTrackQuality
    <2>8. CASE ChooseTrackQuality(s)
      BY <2>0, <2>1, <2>8 DEF ChooseTrackQuality, RequestStatus
    <2>9. CASE AdmitRecord(s)
      BY <2>0, <2>1, <2>9 DEF AdmitRecord
    <2> QED BY <2>2, <2>3, <2>4, <2>5, <2>6, <2>7, <2>8, <2>9 DEF Submit
  <1>4. sub' \in [Submitter -> SubRow]
    <2>1. PICK pc \in {"request", "start", "card", "first", "open", "choose", "record", "done",
                       "failed"}, seen \in RequestStatus :
             sub' = [sub EXCEPT ![s].pc = pc, ![s].seen = seen]
      BY <1>3
    <2>2. sub \in [Submitter -> SubRow]
      BY <1>1 DEF RestTyped
    <2>3. sub' = [sub EXCEPT ![s] = [sub[s] EXCEPT !.pc = pc, !.seen = seen]]
      BY <2>1, <2>2
    <2>4. [sub[s] EXCEPT !.pc = pc, !.seen = seen] \in SubRow
      BY <2>2 DEF SubRow
    <2> QED BY <2>2, <2>3, <2>4
  <1>5. /\ sub'[s].msg = sub[s].msg /\ sub'[s].conf = sub[s].conf
        /\ \A x \in Submitter \ {s} : sub'[x] = sub[x]
    BY <1>1, <1>3 DEF RestTyped, SubRow
  <1> QED BY <1>1, <1>2, <1>4, <1>5 DEF RestTyped, TasksHaveMessages

(* One row of the record, mirrored or cancelled, is a good update.         *)
LEMMA MirrorIsGood ==
  ASSUME LifeInv, Unleased, NEW c \in Confirmation, Exists(c)
  PROVE  /\ GoodUpdate(life[c], MirrorDelivered(life[c]))
         /\ \A status \in {"CANCELLED", "FAILED", "SENDING", "WAITING", "QUEUED"} :
              GoodUpdate(life[c], MirrorOther(life[c], status))
  <1> DEFINE row == life[c]
  <1>1. SoundRow(row) /\ row.attempt = 0 /\ row.owner = NoOne /\ row.status # "NONE"
    BY InvIsRows DEF Unleased, Exists
  <1>2. row \in LifeRow
    BY <1>1 DEF SoundRow
  <1> HIDE DEF row
  <1>3. GoodUpdate(row, MirrorDelivered(row))
    <2>1. CASE row.status \in EndedJob
      <3>1. MirrorDelivered(row) = [row EXCEPT !.delivery = "DELIVERED"]
        BY <2>1 DEF MirrorDelivered
      <3> QED BY <1>1, <1>2, <2>1, <3>1 DEF GoodUpdate, SoundRow, LifeRow, DeliveryStatus
    <2>2. CASE row.status \notin EndedJob
      <3>1. MirrorDelivered(row)
              = [row EXCEPT !.delivery = "DELIVERED", !.status = "SUCCEEDED", !.owner = NoOne]
        BY <2>2 DEF MirrorDelivered
      <3> QED BY <1>1, <1>2, <2>2, <3>1
              DEF GoodUpdate, SoundRow, LifeRow, DeliveryStatus, JobStatus
    <2> QED BY <2>1, <2>2
  <1>4. ASSUME NEW status \in {"CANCELLED", "FAILED", "SENDING", "WAITING", "QUEUED"}
        PROVE  GoodUpdate(row, MirrorOther(row, status))
    <2>1. Mirrored(status) \in {"CANCELLED", "FAILED", "DELIVERING", "RUNNING", "QUEUED"}
      BY <1>4 DEF Mirrored
    <2>2. CASE row.status \in EndedJob
      BY <1>1, <2>2 DEF MirrorOther, GoodUpdate
    <2>3. CASE row.status \notin EndedJob
      <3>1. MirrorOther(row, status) = [row EXCEPT !.status = Mirrored(status)]
        BY <2>3 DEF MirrorOther
      <3>2. row.attempt < MaxAttempts
        BY <1>1, LifecycleAssumption
      <3> QED BY <1>1, <1>2, <2>1, <2>3, <3>1, <3>2 DEF GoodUpdate, SoundRow, LifeRow, JobStatus
    <2> QED BY <2>2, <2>3
  <1> QED BY <1>3, <1>4 DEF row

(* The record a submission makes: of a request that has not ended, or not  *)
(* with this record.                                                       *)
LEMMA RecordAdmitted ==
  ASSUME AdmInv, NEW s \in Submitter, AdmitRecord(s)
  PROVE  LifeInv' /\ Unleased' /\ RecordIsTrue' /\ KeepsEnds
  <1> DEFINE c == sub[s].conf
             m == sub[s].msg
  <1>1. c \in Confirmation /\ m \in Message /\ sub[s].track \in Title \cup {NoOne}
    BY DEF AdmInv, TasksHaveMessages, RestTyped, SubRow, AdmitRecord
  <1>2. PICK initial \in {"PENDING", "QUEUED"} :
          \/ UNCHANGED life
          \/ life' = Admitted(c, sub[s].track, m, initial)
    BY DEF AdmitRecord
  <1>3. UNCHANGED request
    BY DEF AdmitRecord
  <1> DEFINE row == [NoRow EXCEPT !.status = initial, !.track = sub[s].track, !.link = m]
  <1>4. CASE UNCHANGED life
    BY <1>3, <1>4 DEF AdmInv, LifeInv, LifeTypeOK, SucceededIsDelivered, AttemptLeft, Unleased,
                      RecordIsTrue, KeepsEnds
  <1>5. CASE life[c] = NoRow /\ life' = [life EXCEPT ![c] = row]
    <2>1. row \in LifeRow
      BY <1>1, NoRowTyped DEF LifeRow, JobStatus
    <2>2. /\ row.status = initial /\ row.owner = NoOne /\ row.attempt = 0 /\ row.link = m
          /\ row.delivery = "PENDING" /\ NoRow.status = "NONE" /\ NoRow.delivery = "PENDING"
      BY DEF NoRow
    <2>3. GoodUpdate(life[c], row)
      BY <1>5, <2>1, <2>2, LifecycleAssumption DEF SoundRow, GoodUpdate
    <2> HIDE DEF row
    <2>4. LifeInv' /\ KeepsEnds
      BY <1>1, <1>5, <2>3, OneRowGood DEF AdmInv
    <2>5. life'[c] = row /\ \A d \in Confirmation \ {c} : life'[d] = life[d]
      BY <1>1, <1>5 DEF AdmInv, LifeInv, LifeTypeOK
    <2>6. Unleased'
      BY <2>2, <2>5 DEF AdmInv, Unleased
    <2>7. RecordIsTrue'
      BY <1>3, <2>2, <2>5 DEF AdmInv, RecordIsTrue
    <2> QED BY <2>4, <2>6, <2>7
  <1>6. CASE Exists(c) /\ life' = life
    BY <1>4, <1>6
  <1> QED
    <2>1. Exists(c) => Admitted(c, sub[s].track, m, initial) = life
      BY DEF Admitted
    <2>2. ~Exists(c) => /\ life[c] = NoRow
                        /\ Admitted(c, sub[s].track, m, initial) = [life EXCEPT ![c] = row]
      BY <1>1 DEF Admitted, Exists, AdmInv, LifeInv, AttemptLeft
    <2> QED BY <1>2, <1>4, <1>5, <2>1, <2>2

(* A delivery worker's report: every record of the request is mirrored to  *)
(* an end only when the request has that end.                              *)
LEMMA ReportMirrors ==
  ASSUME AdmInv, NEW w \in Courier, Report(w)
  PROVE  LifeInv' /\ Unleased' /\ RecordIsTrue' /\ KeepsEnds
  <1> DEFINE m == courier[w].msg
             status == courier[w].seen
  <1>1. /\ m \in Message
        /\ status \in Over => request[m].status = status
    BY DEF AdmInv, TasksHaveMessages, ReportIsTrue, Report
  <1>2. life' = Reconciled(m, status) /\ UNCHANGED request
    BY DEF Report
  <1> HIDE DEF m, status
  <1>3. \A c \in Confirmation :
          \/ life'[c] = life[c]
          \/ /\ Exists(c) /\ life[c].link = m
             /\ \/ status = "DELIVERED" /\ life'[c] = MirrorDelivered(life[c])
                \/ /\ status \in {"CANCELLED", "FAILED", "SENDING", "WAITING", "QUEUED"}
                   /\ life'[c] = MirrorOther(life[c], status)
    BY <1>2 DEF Reconciled, Linked
  <1>4. life' = [c \in Confirmation |-> life'[c]]
    BY <1>2 DEF Reconciled
  <1>5. \A c \in Confirmation : GoodUpdate(life[c], life'[c])
    <2>1. \A c \in Confirmation : GoodUpdate(life[c], life[c])
      BY InvIsRows DEF AdmInv, GoodUpdate
    <2> QED BY <1>3, <2>1, MirrorIsGood DEF AdmInv
  <1>6. LifeInv' /\ KeepsEnds
    BY <1>4, <1>5, RowsGood DEF AdmInv
  <1>7. ASSUME NEW c \in Confirmation
        PROVE  /\ life'[c].attempt = 0 /\ life'[c].owner = NoOne
               /\ life'[c].link = life[c].link /\ life'[c].cancel = life[c].cancel
               /\ \/ life'[c].status = life[c].status
                  \/ life[c].link = m /\ life'[c].status = "SUCCEEDED" /\ status = "DELIVERED"
                  \/ life[c].link = m /\ life'[c].status \in {"FAILED", "CANCELLED"}
                       /\ life'[c].status = status
                  \/ life'[c].status \in {"DELIVERING", "RUNNING", "QUEUED"}
               /\ \/ life'[c].delivery = life[c].delivery
                  \/ life[c].link = m /\ status = "DELIVERED"
    <2>1. life[c] \in LifeRow /\ life[c].attempt = 0 /\ life[c].owner = NoOne
      BY DEF AdmInv, LifeInv, LifeTypeOK, Unleased
    <2>2. CASE life'[c] = life[c]
      BY <2>1, <2>2
    <2>3. CASE life[c].link = m /\ status = "DELIVERED" /\ life'[c] = MirrorDelivered(life[c])
      BY <2>1, <2>3 DEF MirrorDelivered, LifeRow
    <2>4. CASE /\ life[c].link = m
               /\ status \in {"CANCELLED", "FAILED", "SENDING", "WAITING", "QUEUED"}
               /\ life'[c] = MirrorOther(life[c], status)
      BY <2>1, <2>4 DEF MirrorOther, Mirrored, LifeRow
    <2> QED BY <1>3, <2>2, <2>3, <2>4
  <1>8. Unleased'
    BY <1>7 DEF Unleased
  <1>9. RecordIsTrue'
    BY <1>1, <1>2, <1>7 DEF AdmInv, RecordIsTrue, Over
  <1> QED BY <1>6, <1>8, <1>9

(* The request a delivery worker holds evolves as its UPDATEs allow.       *)
LEMMA CourierEvolves ==
  ASSUME AdmInv, NEW w \in Courier,
         \/ \E m \in Message : ClaimRequest(w, m)
         \/ ProcessRequest(w)
  PROVE  RequestsEvolve
  <1> USE DEF RequestsTyped, RequestsEvolve, StartsOnce, Waiting, Over
  <1>1. RequestsTyped
    BY DEF AdmInv
  <1>2. ASSUME NEW m \in Message, ClaimRequest(w, m)
        PROVE  RequestsEvolve
    <2>1. request[m].claims \in 0 .. MaxClaims
      BY <1>1, Zenon DEF RequestRow
    <2>2. request[m].claims + 1 \in 0 .. MaxClaims
      <3>1. request[m].claims < MaxClaims
        BY <1>2 DEF ClaimRequest
      <3> QED BY <2>1, <3>1, AdmissionAssumption
    <2> DEFINE row == [request[m] EXCEPT !.status = "SENDING", !.owner = w, !.claims = @ + 1]
    <2>3. row \in RequestRow /\ row.status = "SENDING"
      BY <1>1, <2>2 DEF RequestRow, RequestStatus
    <2>4. request' = [request EXCEPT ![m] = row] /\ request[m].status \in {"QUEUED", "WAITING"}
      BY <1>1, <1>2 DEF ClaimRequest
    <2> QED BY <1>1, <2>3, <2>4
  <1>3. CASE ProcessRequest(w)
    <2> DEFINE m == courier[w].msg
    <2>1. m \in Message
      BY <1>3 DEF ProcessRequest, AdmInv, TasksHaveMessages
    <2>2. CASE UNCHANGED request
      BY <1>1, <2>2
    <2>3. CASE request[m].status = "SENDING" /\ \E status \in EndStatus(m) :
                 request' = [request EXCEPT ![m].status = status, ![m].owner = NoOne]
      <3>1. PICK status \in Over \cup {"QUEUED", "WAITING"} :
              request' = [request EXCEPT ![m].status = status, ![m].owner = NoOne]
        BY <2>3 DEF EndStatus
      <3> DEFINE row == [request[m] EXCEPT !.status = status, !.owner = NoOne]
      <3>2. row \in RequestRow /\ row.status = status
        BY <1>1, <2>1, <3>1 DEF RequestRow, RequestStatus
      <3>3. request' = [request EXCEPT ![m] = row]
        BY <1>1, <3>1
      <3> QED BY <1>1, <2>1, <2>3, <3>2, <3>3
    <2> QED BY <1>3, <2>2, <2>3 DEF ProcessRequest
  <1> QED BY <1>2, <1>3

(* The lease of a request ends.                                            *)
LEMMA LeaseEndEvolves ==
  ASSUME AdmInv, NEW m \in Message, RequestLeaseExpires(m)
  PROVE  RequestsEvolve
  <1> USE DEF RequestsTyped, RequestsEvolve, StartsOnce, Waiting, Over
  <1>1. RequestsTyped
    BY DEF AdmInv
  <1>2. PICK status \in {"FAILED", "QUEUED"} :
          /\ request[m].status = "SENDING"
          /\ request' = [request EXCEPT ![m].status = status, ![m].owner = NoOne]
    BY DEF RequestLeaseExpires
  <1> DEFINE row == [request[m] EXCEPT !.status = status, !.owner = NoOne]
  <1>3. row \in RequestRow /\ row.status = status
    BY <1>1, <1>2 DEF RequestRow, RequestStatus
  <1>4. request' = [request EXCEPT ![m] = row]
    BY <1>1, <1>2
  <1> QED BY <1>1, <1>2, <1>3, <1>4

(* A worker's four steps.  Looking back reads the end that it reports;     *)
(* nothing the worker meant to write is reported.                          *)
LEMMA DeliverKeeps ==
  ASSUME AdmInv, NEW w \in Courier, Deliver(w)
  PROVE  AdmInv' /\ KeepsEnds /\ StartsOnce
  <1> USE DEF DeliveryRow
  <1>1. AdmInv /\ RestTyped /\ TasksHaveMessages
    BY DEF AdmInv
  <1>2. ASSUME NEW m \in Message, ClaimRequest(w, m)
        PROVE  AdmInv' /\ KeepsEnds /\ StartsOnce
    <2> DEFINE row == [NoDelivery EXCEPT !.pc = "process", !.msg = m]
    <2>1. RequestsEvolve /\ UNCHANGED <<life, offer, sub, preferred>>
      BY <1>1, <1>2, CourierEvolves DEF ClaimRequest
    <2>2. courier' = [courier EXCEPT ![w] = row]
      BY <1>2 DEF ClaimRequest
    <2>3. row \in DeliveryRow /\ row.pc = "process" /\ row.msg = m
      BY DEF NoDelivery, RequestStatus
    <2> HIDE DEF row
    <2>4. RestTyped' /\ TasksHaveMessages'
      BY <1>1, <2>1, <2>2, <2>3 DEF RestTyped, TasksHaveMessages
    <2>5. \A x \in Courier : courier'[x].pc = "report" => courier'[x] = courier[x]
      BY <1>1, <2>2, <2>3 DEF RestTyped
    <2> QED BY <1>1, <2>1, <2>4, <2>5, OthersKeep
  <1>3. CASE ProcessRequest(w)
    <2>1. RequestsEvolve /\ UNCHANGED life
      BY <1>1, <1>3, CourierEvolves DEF ProcessRequest
    <2>2. courier' = [courier EXCEPT ![w].pc = "look"] /\ courier[w].pc = "process"
      BY <1>3 DEF ProcessRequest
    <2>3. RestTyped' /\ TasksHaveMessages'
      BY <1>1, <1>3, <2>2 DEF RestTyped, TasksHaveMessages, ProcessRequest
    <2>4. \A x \in Courier : courier'[x].pc = "report" => courier'[x] = courier[x]
      BY <1>1, <2>2 DEF RestTyped
    <2> QED BY <1>1, <2>1, <2>3, <2>4, OthersKeep
  <1>4. CASE LookBack(w)
    <2> DEFINE seen == request[courier[w].msg].status
    <2>1. courier' = [courier EXCEPT ![w] = [courier[w] EXCEPT !.pc = "report", !.seen = seen]]
      BY <1>1, <1>4 DEF LookBack, RestTyped
    <2>2. courier[w].msg \in Message /\ courier[w] \in DeliveryRow
      BY <1>1, <1>4 DEF LookBack, TasksHaveMessages, RestTyped
    <2>3. seen \in RequestStatus
      BY <1>1, <2>2 DEF AdmInv, RequestsTyped, RequestRow
    <2>4. /\ courier'[w] \in DeliveryRow
          /\ courier'[w].msg = courier[w].msg /\ courier'[w].seen = seen
          /\ \A x \in Courier \ {w} : courier'[x] = courier[x]
      BY <1>1, <2>1, <2>2, <2>3 DEF RestTyped
    <2>5. RestTyped' /\ TasksHaveMessages'
      BY <1>1, <1>4, <2>1, <2>2, <2>4 DEF RestTyped, TasksHaveMessages, LookBack
    <2>6. ReportIsTrue'
      BY <1>1, <1>4, <2>4 DEF AdmInv, ReportIsTrue, LookBack
    <2>7. UNCHANGED <<life, request>>
      BY <1>4 DEF LookBack
    <2> QED BY <1>1, <2>5, <2>6, <2>7, RestEvolves
            DEF AdmInv, RequestsTyped, RequestsEvolve, LifeInv, LifeTypeOK, SucceededIsDelivered,
                AttemptLeft, Unleased, RecordIsTrue, KeepsEnds
  <1>5. CASE Report(w)
    <2>1. LifeInv' /\ Unleased' /\ RecordIsTrue' /\ KeepsEnds
      BY <1>1, <1>5, ReportMirrors
    <2>2. /\ UNCHANGED <<offer, request, sub, preferred>>
          /\ courier' = [courier EXCEPT ![w] = [pc |-> "idle", msg |-> NoOne, seen |-> "NONE"]]
      BY <1>5 DEF Report, NoDelivery
    <2>3. RestTyped' /\ TasksHaveMessages'
      BY <1>1, <2>2 DEF RestTyped, TasksHaveMessages, RequestStatus
    <2>4. ReportIsTrue'
      BY <1>1, <2>2 DEF AdmInv, ReportIsTrue, RestTyped
    <2> QED BY <1>1, <2>1, <2>2, <2>3, <2>4, RestEvolves DEF AdmInv, RequestsEvolve
  <1> QED BY <1>2, <1>3, <1>4, <1>5 DEF Deliver

(* A submission's step.                                                    *)
LEMMA SubmitKeeps ==
  ASSUME AdmInv, NEW s \in Submitter, Submit(s)
  PROVE  AdmInv' /\ KeepsEnds /\ StartsOnce
  <1>1. RequestsEvolve /\ RestTyped' /\ TasksHaveMessages' /\ UNCHANGED courier
    BY SubmitEvolves, SubmitTyped
    DEF Submit, ResolveTrack, RequestTrack, StartDefaultQuality, ReadCard, ChooseFirstQuality,
        OpenTrackQuality, ChooseTrackQuality, AdmitRecord
  <1>2. CASE UNCHANGED life
    BY <1>1, <1>2, OthersKeep
  <1>3. CASE AdmitRecord(s)
    <2>1. LifeInv' /\ Unleased' /\ RecordIsTrue' /\ KeepsEnds /\ UNCHANGED request
      BY <1>3, RecordAdmitted DEF AdmitRecord
    <2>2. ReportIsTrue'
      BY <1>1, <2>1 DEF AdmInv, ReportIsTrue
    <2> QED BY <1>1, <2>1, <2>2 DEF AdmInv, RequestsEvolve
  <1> QED BY <1>2, <1>3 DEF Submit, ResolveTrack, RequestTrack, StartDefaultQuality, ReadCard,
              ChooseFirstQuality, OpenTrackQuality, ChooseTrackQuality

(* The buttons, the confirmations, the end of a lease and a restart.       *)
LEMMA UsersKeep ==
  ASSUME AdmInv,
         \/ \E c \in Confirmation : \/ \E tr \in Title : SelectAlternative(c, tr)
                                    \/ DropConfirmation(c)
         \/ \E s \in Submitter : \/ \E c \in Dialog : Confirm(s, c)
                                 \/ ConfirmReturns(s)
         \/ \E m \in Message : Press(m) \/ RequestLeaseExpires(m)
         \/ LoseTasks /\ UNCHANGED <<life, request, preferred>>
  PROVE  AdmInv' /\ KeepsEnds /\ StartsOnce
  <1>1. AdmInv /\ RestTyped /\ TasksHaveMessages /\ RequestsTyped
    BY DEF AdmInv
  <1>2. ASSUME NEW c \in Confirmation,
               (\E tr \in Title : SelectAlternative(c, tr)) \/ DropConfirmation(c)
        PROVE  AdmInv' /\ KeepsEnds /\ StartsOnce
    <2>1. UNCHANGED <<life, request, sub, courier, preferred>>
      BY <1>2 DEF SelectAlternative, DropConfirmation
    <2>2. RestTyped' /\ TasksHaveMessages'
      BY <1>1, <1>2 DEF SelectAlternative, DropConfirmation, RestTyped, TasksHaveMessages
    <2> QED BY <1>1, <2>1, <2>2, RestEvolves, OthersKeep
  <1>3. ASSUME NEW s \in Submitter, (\E c \in Dialog : Confirm(s, c)) \/ ConfirmReturns(s)
        PROVE  AdmInv' /\ KeepsEnds /\ StartsOnce
    <2>1. UNCHANGED <<life, request, courier, preferred>>
      BY <1>3 DEF Confirm, ConfirmReturns
    <2>2. CASE \E c \in Dialog : Confirm(s, c)
      <3>1. PICK c \in Confirmation :
              /\ sub' = [sub EXCEPT ![s] = [NoSub EXCEPT !.pc = "resolve", !.conf = c,
                                                         !.msg = CardOf[c], !.track = offer[c]]]
              /\ UNCHANGED offer
        BY <2>2, AdmissionAssumption DEF Confirm
      <3> DEFINE row == [NoSub EXCEPT !.pc = "resolve", !.conf = c, !.msg = CardOf[c],
                                      !.track = offer[c]]
      <3>2. CardOf[c] \in Message /\ offer[c] \in Title \cup {NoOne}
        BY <1>1, AdmissionAssumption DEF RestTyped
      <3>3. row \in SubRow /\ row.conf = c /\ row.msg = CardOf[c]
        <4>1. NoSub \in SubRow
          BY Zenon DEF NoSub, SubRow, RequestStatus
        <4> QED BY <3>2, <4>1 DEF SubRow
      <3>4. sub' = [sub EXCEPT ![s] = row]
        BY <3>1
      <3> HIDE DEF row
      <3>5. RestTyped' /\ TasksHaveMessages'
        BY <1>1, <2>1, <3>1, <3>2, <3>3, <3>4 DEF RestTyped, TasksHaveMessages
      <3> QED BY <1>1, <2>1, <3>5, RestEvolves, OthersKeep
    <2>3. CASE ConfirmReturns(s)
      <3>1. /\ sub' = [sub EXCEPT ![s] = [pc |-> "idle", conf |-> NoOne, msg |-> NoOne,
                                          track |-> NoOne, quality |-> FALSE, seen |-> "NONE"]]
            /\ offer' \in [Confirmation -> Title \cup {NoOne}]
        BY <1>1, <2>3 DEF ConfirmReturns, NoSub, RestTyped
      <3>2. RestTyped' /\ TasksHaveMessages'
        BY <1>1, <2>1, <3>1 DEF RestTyped, TasksHaveMessages, SubRow, RequestStatus
      <3> QED BY <1>1, <2>1, <3>2, RestEvolves, OthersKeep
    <2> QED BY <1>3, <2>2, <2>3
  <1>4. ASSUME NEW m \in Message, Press(m)
        PROVE  AdmInv' /\ KeepsEnds /\ StartsOnce
    <2>1. RequestsEvolve
      BY <1>1, <1>4, MoveEvolves
      DEF Press, FirstQuality, TrackDownload, OtherQuality, TrackQuality, TrackQualityBack, Waiting
    <2>2. UNCHANGED <<life, offer, sub, courier>> /\ preferred' \in BOOLEAN
      BY <1>1, <1>4 DEF Press, RestTyped
    <2>3. RestTyped' /\ TasksHaveMessages'
      BY <1>1, <2>2 DEF RestTyped, TasksHaveMessages
    <2> QED BY <2>1, <2>2, <2>3, OthersKeep
  <1>5. ASSUME NEW m \in Message, RequestLeaseExpires(m)
        PROVE  AdmInv' /\ KeepsEnds /\ StartsOnce
    <2>1. RequestsEvolve
      BY <1>5, LeaseEndEvolves
    <2>2. UNCHANGED <<life, offer, sub, courier, preferred>>
      BY <1>5 DEF RequestLeaseExpires
    <2>3. RestTyped' /\ TasksHaveMessages'
      BY <1>1, <2>2 DEF RestTyped, TasksHaveMessages
    <2> QED BY <2>1, <2>2, <2>3, OthersKeep
  <1>6. CASE LoseTasks /\ UNCHANGED <<life, request, preferred>>
    <2>1. RestTyped' /\ TasksHaveMessages'
      BY <1>1, <1>6 DEF LoseTasks, NoSub, NoDelivery, RestTyped, TasksHaveMessages, SubRow,
                        DeliveryRow, RequestStatus
    <2>2. \A w \in Courier : courier'[w].pc = "report" => courier'[w] = courier[w]
      BY <1>6 DEF LoseTasks, NoDelivery
    <2> QED BY <1>1, <1>6, <2>1, <2>2, RestEvolves, OthersKeep
  <1> QED BY <1>2, <1>3, <1>4, <1>5, <1>6

-----------------------------------------------------------------------------
(* The inductive invariant and what follows from it.                       *)

LEMMA AdmissionStart == ASSUME AdmissionInit PROVE AdmInv
  <1>1. LifeInv /\ Unleased /\ RecordIsTrue
    BY LifeStart DEF AdmissionInit, LifeInit, NoRow, Unleased, RecordIsTrue
  <1>2. RequestsTyped
    <2>1. 0 \in 0 .. MaxClaims
      BY AdmissionAssumption
    <2> QED BY <2>1, Zenon DEF AdmissionInit, NoRequest, RequestsTyped, RequestRow, RequestStatus
  <1>3. RestTyped /\ TasksHaveMessages /\ ReportIsTrue
    BY DEF AdmissionInit, NoSub, NoDelivery, RestTyped, TasksHaveMessages, ReportIsTrue, SubRow,
           DeliveryRow, RequestStatus
  <1> QED BY <1>1, <1>2, <1>3 DEF AdmInv

(* Every step keeps the invariant, the ends and what was started.          *)
LEMMA AdmissionStep ==
  ASSUME AdmInv, [AdmissionNext]_admissionVars
  PROVE  AdmInv' /\ [KeepsEnds]_life /\ [StartsOnce]_admissionVars
  <1>1. CASE AdmissionNext
    BY <1>1, SubmitKeeps, DeliverKeeps, UsersKeep DEF AdmissionNext
  <1>2. CASE UNCHANGED admissionVars
    BY <1>2
    DEF admissionVars, AdmInv, LifeInv, LifeTypeOK, SucceededIsDelivered, AttemptLeft, Unleased,
        RequestsTyped, RestTyped, TasksHaveMessages, ReportIsTrue, RecordIsTrue
  <1> QED BY <1>1, <1>2

(* The invariant is inductive.                                             *)
THEOREM AdmissionInductive == AdmissionSpec => []AdmInv
  BY AdmissionStart, AdmissionStep, PTL DEF AdmissionSpec

(* However handlers, late buttons, delivery workers, expired leases and    *)
(* restarts interleave, a lifecycle record never claims an end that its    *)
(* delivery request did not have.                                          *)
THEOREM RecordsTrue == AdmissionSpec => []RecordIsTrue
  <1>1. AdmInv => RecordIsTrue
    BY DEF AdmInv
  <1> QED BY <1>1, AdmissionInductive, PTL

(* A request that is under way is not started again, and neither a request *)
(* nor its record changes once it has ended.                               *)
THEOREM EndsFinal == AdmissionSpec => StartedOnce /\ JobEndIsFinal
  <1>1. AdmInv /\ [AdmissionNext]_admissionVars
          => [StartsOnce]_admissionVars /\ [KeepsEnds]_life
    BY AdmissionStep
  <1> QED BY <1>1, AdmissionInductive, PTL DEF AdmissionSpec, StartedOnce, JobEndIsFinal

-----------------------------------------------------------------------------
(* The batches.  Every item of a batch that exists has its own              *)
(* confirmation (BatchAssumption), so that what happens to one batch leaves *)
(* the items of the others alone.                                          *)

BatchRow ==
  [status : {"NONE", "ACTIVE"} \cup Closed, cancel : BOOLEAN,
   parent : Message \cup {NoOne}, size : Nat]
BatchItem ==
  [status : {"NONE", "PENDING", "ADMITTED", "SKIPPED", "FAILED"},
   track : Title \cup {NoOne}, link : Confirmation \cup {NoOne},
   code : {"none", "passing", "lasting"}]
LoopRow ==
  [batch : Batch \cup {NoOne}, todo : Seq(Confirmation), msg : Message \cup {NoOne},
   boot : BOOLEAN]
CancelTask == [pc : {"idle", "jobs"}, jobs : SUBSET (Confirmation \cup {NoOne})]

BatchesTyped ==
  /\ batch \in [Batch -> BatchRow] /\ item \in [Confirmation -> BatchItem]
  /\ batchLoop \in [Submitter -> LoopRow] /\ cancelling \in [Batch -> CancelTask]

Finished == {"COMPLETED", "PARTIAL", "FAILED"}

(* A batch that exists has items, which have been created; a link is to a  *)
(* record that exists.                                                     *)
SnapshotsSound ==
  /\ \A b \in Batch :
       /\ batch[b].size <= Len(ChildOf[b])
       /\ batch[b].status # "NONE" =>
            batch[b].size >= 1 /\ \A c \in ItemsOf(b) : item[c].status # "NONE"
  /\ \A c \in Confirmation : item[c].link # NoOne => Exists(item[c].link)

(* A loop goes through items of a batch that is not finished.              *)
LoopSound(s) ==
  LET b == batchLoop[s].batch
  IN /\ b = NoOne => batchLoop[s].todo = <<>>
     /\ b # NoOne =>
          /\ batchLoop[s].msg \in Message
          /\ batch[b].status \notin Finished \cup {"NONE"}
          /\ \A i \in 1 .. Len(batchLoop[s].todo) : batchLoop[s].todo[i] \in ItemsOf(b)

(* The Cancel button's handler works for a batch that was told to stop.    *)
CancelSound ==
  \A b \in Batch : cancelling[b].pc = "jobs" => batch[b].status # "NONE" /\ batch[b].cancel = TRUE

(* What a closed batch promises needs the records of its tracks, which     *)
(* only grow, and the loops, which have nothing left to do in it.          *)
BatchInv ==
  /\ AdmInv /\ BatchesTyped /\ SnapshotsSound /\ (\A s \in Submitter : LoopSound(s))
  /\ CancelSound /\ ClosedBatchIsOver

(* The invariant is at least what the runs check.                          *)
LEMMA BatchPromises ==
  BatchInv => /\ BatchTypeOK /\ ClosedBatchIsOver /\ RecordIsTrue /\ SucceededIsDelivered
  BY DEF BatchInv, BatchTypeOK, BatchesTyped, BatchRow, BatchItem, AdmInv, AdmissionTypeOK,
         LifeInv, RequestsTyped, RequestRow, RestTyped, TasksHaveMessages, DeliveryRow

-----------------------------------------------------------------------------
(* The records only grow.                                                  *)

RecordsStay == \A c \in Confirmation : Exists(c) => Exists(c)'

LEMMA RecordsGrow ==
  ASSUME AdmInv,
         \/ UNCHANGED life
         \/ \E s \in Submitter : Submit(s)
         \/ \E w \in Courier : Deliver(w)
  PROVE  RecordsStay
  <1>1. life \in [Confirmation -> LifeRow]
    BY DEF AdmInv, LifeInv, LifeTypeOK
  <1>2. CASE UNCHANGED life
    BY <1>2 DEF RecordsStay, Exists
  <1>3. ASSUME NEW s \in Submitter, AdmitRecord(s) PROVE RecordsStay
    <2>1. CASE UNCHANGED life
      BY <1>2, <2>1
    <2>2. CASE /\ ~Exists(sub[s].conf)
               /\ life' = Admitted(sub[s].conf, sub[s].track, sub[s].msg,
                                   IF sub[s].seen = "AWAITING_QUALITY" THEN "PENDING" ELSE "QUEUED")
      BY <1>1, <2>2 DEF RecordsStay, Exists, Admitted
    <2> QED BY <1>3, <2>1, <2>2 DEF AdmitRecord, Admitted
  <1>4. ASSUME NEW w \in Courier, Report(w) PROVE RecordsStay
    <2> SUFFICES ASSUME NEW c \in Confirmation, Exists(c) PROVE Exists(c)'
      BY DEF RecordsStay
    <2>1. life[c] \in LifeRow /\ life[c].status # "NONE"
      BY <1>1 DEF Exists
    <2> DEFINE seen == courier[w].seen
    <2>2. life'[c] = IF c \notin Linked(courier[w].msg) THEN life[c]
                     ELSE IF seen = "DELIVERED" THEN MirrorDelivered(life[c])
                     ELSE IF seen \in {"CANCELLED", "FAILED", "SENDING", "WAITING", "QUEUED"}
                          THEN MirrorOther(life[c], seen)
                     ELSE life[c]
      BY <1>4 DEF Report, Reconciled
    <2>3. MirrorDelivered(life[c]).status # "NONE"
      BY <2>1 DEF MirrorDelivered, LifeRow
    <2>4. seen \in {"CANCELLED", "FAILED", "SENDING", "WAITING", "QUEUED"} =>
            MirrorOther(life[c], seen).status # "NONE"
      BY <2>1 DEF MirrorOther, Mirrored, LifeRow
    <2> HIDE DEF seen
    <2> QED BY <2>1, <2>2, <2>3, <2>4 DEF Exists
  <1> QED BY <1>2, <1>3, <1>4
          DEF Submit, ResolveTrack, RequestTrack, StartDefaultQuality, ReadCard, ChooseFirstQuality,
              OpenTrackQuality, ChooseTrackQuality, Deliver, ClaimRequest, ProcessRequest, LookBack

(* cancel() on the record of an item.                                      *)
LEMMA CancelRowKeeps ==
  ASSUME AdmInv, NEW c \in Confirmation, life' = [life EXCEPT ![c] = CancelRow(@)],
         UNCHANGED <<offer, request, sub, courier, preferred>>
  PROVE  AdmInv' /\ KeepsEnds /\ StartsOnce /\ RecordsStay
  <1> USE DEF EndedJob, LeasedJob
  <1> DEFINE new == CancelRow(life[c])
  <1>1. /\ LifeInv /\ Unleased /\ RecordIsTrue /\ RequestsTyped /\ SoundRow(life[c])
        /\ life = [d \in Confirmation |-> life[d]]
    BY InvIsRows DEF AdmInv
  <1>2. life[c] \in LifeRow
    BY <1>1 DEF SoundRow
  <1>3. /\ new \in LifeRow /\ new.attempt = life[c].attempt /\ new.owner = life[c].owner
        /\ new.link = life[c].link /\ new.delivery = life[c].delivery
        /\ new.status = IF life[c].status \in {"PENDING", "QUEUED", "RETRY_WAIT"} THEN "CANCELLED"
                        ELSE life[c].status
        /\ (new.status # life[c].status \/ life[c].status \in LeasedJob) => new.cancel = TRUE
        /\ life[c].status \notin {"PENDING", "QUEUED", "RETRY_WAIT"} \cup LeasedJob => new = life[c]
    <2> DEFINE old == life[c]
    <2>1. old \in LifeRow
      BY <1>2
    <2> HIDE DEF old
    <2>2. CASE old.status \in {"PENDING", "QUEUED", "RETRY_WAIT"}
      <3>1. new = [old EXCEPT !.status = "CANCELLED", !.cancel = TRUE]
        BY <2>2 DEF CancelRow, old
      <3> QED BY <2>1, <2>2, <3>1 DEF LifeRow, JobStatus, old
    <2>3. CASE old.status \in LeasedJob
      <3>1. new = [old EXCEPT !.cancel = TRUE]
        BY <2>3 DEF CancelRow, old
      <3> QED BY <2>1, <2>3, <3>1 DEF LifeRow, JobStatus, old
    <2>4. CASE old.status \notin {"PENDING", "QUEUED", "RETRY_WAIT"} \cup LeasedJob
      <3>1. new = old
        BY <2>4 DEF CancelRow, old
      <3> QED BY <2>1, <2>4, <3>1 DEF old
    <2> QED BY <2>2, <2>3, <2>4
  <1> HIDE DEF new
  <1>4. life[c].status \in LeasedJob => life[c].owner = new.owner
    BY <1>3
  <1>5. /\ GoodUpdate(life[c], new)
        /\ life[c].status # "NONE" => new.status # "NONE"
        /\ new.status \in {life[c].status, "CANCELLED"}
        /\ new.status = "CANCELLED" => life[c].status = "CANCELLED" \/ new.cancel = TRUE
        /\ life[c].cancel = TRUE => new.cancel = TRUE
    <2>1. Unleased /\ life[c].owner = NoOne
      BY <1>1 DEF Unleased
    <2>2. SoundRow(new)
      BY <1>1, <1>3, <2>1 DEF SoundRow
    <2>3. life[c].cancel = TRUE => new.cancel = TRUE
      BY <1>3
    <2> QED BY <1>1, <1>3, <2>2, <2>3 DEF GoodUpdate
  <1>6. life' = [life EXCEPT ![c] = new]
    BY DEF new
  <1>7. LifeInv' /\ KeepsEnds
    BY <1>1, <1>5, <1>6, OneRowGood
  <1>8. life'[c] = new /\ \A d \in Confirmation : d # c => life'[d] = life[d]
    BY <1>1, <1>6
  <1>9. Unleased'
    BY <1>1, <1>3, <1>8 DEF Unleased
  <1>10. RecordIsTrue'
    <2>1. ASSUME NEW d \in Confirmation, life'[d].link # NoOne
          PROVE  LET old == life'[d] IN
                 /\ old.status = "SUCCEEDED" => request[old.link].status = "DELIVERED"
                 /\ old.status = "FAILED" => request[old.link].status = "FAILED"
                 /\ old.status = "CANCELLED" => old.cancel = TRUE \/ request[old.link].status = "CANCELLED"
                 /\ old.delivery = "DELIVERED" => request[old.link].status = "DELIVERED"
      <3>1. CASE d # c
        BY <1>1, <1>8, <2>1, <3>1 DEF RecordIsTrue, LifeInv, LifeTypeOK, LifeRow
      <3>2. CASE d = c
        <4>1. life[c].cancel \in BOOLEAN
          BY <1>1 DEF SoundRow, LifeRow
        <4>2. LET old == life[c] IN
                 /\ old.status = "SUCCEEDED" => request[old.link].status = "DELIVERED"
                 /\ old.status = "FAILED" => request[old.link].status = "FAILED"
                 /\ old.status = "CANCELLED" => old.cancel = TRUE \/ request[old.link].status = "CANCELLED"
                 /\ old.delivery = "DELIVERED" => request[old.link].status = "DELIVERED"
          BY <1>1, <1>3, <1>8, <2>1, <3>2, <4>1 DEF RecordIsTrue
        <4> QED BY <1>5, <1>3, <1>8, <2>1, <3>2, <4>2
      <3> QED BY <3>1, <3>2
    <2> QED BY <2>1 DEF RecordIsTrue
  <1>11. RestTyped' /\ TasksHaveMessages' /\ ReportIsTrue' /\ RequestsEvolve
    BY <1>1, RestEvolves DEF AdmInv, RestTyped, TasksHaveMessages, ReportIsTrue
  <1>12. RecordsStay
    BY <1>5, <1>8 DEF RecordsStay, Exists
  <1> QED BY <1>7, <1>9, <1>10, <1>11, <1>12 DEF AdmInv, RequestsEvolve

-----------------------------------------------------------------------------
(* The items of the batches.                                               *)

(* The types the lemmas below keep needing.                                *)
LEMMA BatchFacts ==
  ASSUME BatchInv
  PROVE  /\ AdmInv /\ BatchesTyped /\ SnapshotsSound /\ CancelSound
         /\ batch \in [Batch -> BatchRow] /\ item \in [Confirmation -> BatchItem]
         /\ batchLoop \in [Submitter -> LoopRow] /\ cancelling \in [Batch -> CancelTask]
         /\ \A s \in Submitter : LoopSound(s)
         /\ \A b \in Batch : ItemsOf(b) \subseteq Confirmation
         /\ \A b, d \in Batch : b # d => ItemsOf(b) \cap ItemsOf(d) = {}
  <1>1. /\ AdmInv /\ BatchesTyped /\ SnapshotsSound /\ CancelSound
        /\ \A s \in Submitter : LoopSound(s)
    BY DEF BatchInv
  <1>2. \A b \in Batch : /\ 1 .. batch[b].size \subseteq DOMAIN ChildOf[b]
                         /\ \A i \in DOMAIN ChildOf[b] : ChildOf[b][i] \in Confirmation
    <2> SUFFICES ASSUME NEW b \in Batch
                 PROVE  /\ 1 .. batch[b].size \subseteq DOMAIN ChildOf[b]
                        /\ \A i \in DOMAIN ChildOf[b] : ChildOf[b][i] \in Confirmation
      OBVIOUS
    <2>1. batch[b].size \in Nat /\ batch[b].size <= Len(ChildOf[b])
      BY <1>1 DEF BatchesTyped, BatchRow, SnapshotsSound
    <2>2. ChildOf[b] \in Seq(Confirmation)
      BY BatchAssumption
    <2> QED BY <2>1, <2>2
  <1>3. \A b \in Batch : ItemsOf(b) \subseteq Confirmation
    BY <1>2 DEF ItemsOf
  <1>4. ASSUME NEW b \in Batch, NEW d \in Batch, b # d PROVE ItemsOf(b) \cap ItemsOf(d) = {}
    <2> SUFFICES ASSUME NEW c \in ItemsOf(b), c \in ItemsOf(d) PROVE FALSE
      OBVIOUS
    <2>1. PICK i \in 1 .. batch[b].size : c = ChildOf[b][i]
      BY DEF ItemsOf
    <2>2. PICK j \in 1 .. batch[d].size : c = ChildOf[d][j]
      BY DEF ItemsOf
    <2>3. i \in DOMAIN ChildOf[b] /\ j \in DOMAIN ChildOf[d]
      BY <1>2
    <2> QED BY <1>4, <2>1, <2>2, <2>3, BatchAssumption
  <1> QED BY <1>1, <1>3, <1>4 DEF BatchesTyped

(* What a finished batch was counted by does not change.                   *)
LEMMA CountStays ==
  ASSUME LifeTypeOK, KeepsEnds, NEW c \in Confirmation, Counted(item[c]) \in EndedItem,
         item[c].link \in Confirmation \cup {NoOne}, item'[c].link = item[c].link,
         item[c].link = NoOne => item'[c].status = item[c].status
  PROVE  Counted(item[c])' = Counted(item[c])
  <1>1. Counted(item[c])' = IF item'[c].link = NoOne THEN item'[c].status
                            ELSE life'[item'[c].link].status
    BY DEF Counted
  <1>2. CASE item[c].link = NoOne
    BY <1>1, <1>2 DEF Counted
  <1>3. CASE item[c].link # NoOne
    <2>1. item[c].link \in Confirmation /\ life[item[c].link] \in LifeRow
      BY <1>3 DEF LifeTypeOK
    <2>2. life[item[c].link].status \in EndedJob
      BY <1>3, <2>1 DEF Counted, EndedItem, LifeRow, JobStatus, LeasedJob, EndedJob
    <2> QED BY <1>1, <1>3, <2>1, <2>2 DEF Counted, KeepsEnds
  <1> QED BY <1>2, <1>3

Ends(b) == {Counted(item[c]) : c \in ItemsOf(b)}

OverAsTold(b) ==
  /\ batch[b].status \in Finished => Ends(b) \subseteq EndedItem
  /\ batch[b].status = "COMPLETED" => Ends(b) = {"SUCCEEDED"}
  /\ batch[b].status = "PARTIAL" => "SUCCEEDED" \in Ends(b) /\ Ends(b) # {"SUCCEEDED"}
  /\ batch[b].status = "FAILED" => "SUCCEEDED" \notin Ends(b)

LEMMA ClosedIsTold == ClosedBatchIsOver <=> \A b \in Batch : OverAsTold(b)
  BY DEF ClosedBatchIsOver, OverAsTold, Ends, Finished

LEMMA ClosedIsToldNext == ClosedBatchIsOver' <=> \A b \in Batch : OverAsTold(b)'
  BY DEF ClosedBatchIsOver, OverAsTold, Ends, Finished

(* A finished batch that is left alone.                                    *)
LEMMA FinishedStays ==
  ASSUME BatchInv, KeepsEnds, NEW b \in Batch, batch[b].status \in Finished,
         batch'[b].status = batch[b].status, batch'[b].size = batch[b].size,
         \A c \in ItemsOf(b) : item'[c].link = item[c].link /\
                               (item[c].link = NoOne => item'[c].status = item[c].status)
  PROVE  OverAsTold(b)'
  <1>1. OverAsTold(b) /\ ItemsOf(b) \subseteq Confirmation /\ LifeTypeOK
    BY BatchFacts, ClosedIsTold DEF BatchInv, AdmInv, LifeInv
  <1>2. ItemsOf(b)' = ItemsOf(b)
    BY DEF ItemsOf
  <1>3. ASSUME NEW c \in ItemsOf(b) PROVE Counted(item[c])' = Counted(item[c])
    <2>1. c \in Confirmation /\ Counted(item[c]) \in EndedItem
      BY <1>1 DEF OverAsTold, Ends
    <2>2. item[c].link \in Confirmation \cup {NoOne}
      BY <2>1, BatchFacts DEF BatchItem
    <2> QED BY <1>1, <2>1, <2>2, CountStays
  <1>4. Ends(b)' = Ends(b)
    BY <1>2, <1>3 DEF Ends
  <1> QED BY <1>1, <1>4 DEF OverAsTold

(* A step that finishes no batch and leaves the finished ones alone.       *)
LEMMA NothingFinishes ==
  ASSUME BatchInv, KeepsEnds, AdmInv', BatchesTyped', SnapshotsSound',
         \A s \in Submitter : LoopSound(s)', CancelSound',
         \A b \in Batch : batch'[b].status \in Finished \/ batch[b].status \in Finished =>
           batch'[b].status = batch[b].status /\ batch'[b].size = batch[b].size,
         \A b \in Batch : batch[b].status \in Finished =>
           \A c \in ItemsOf(b) : item'[c].link = item[c].link /\
             (item[c].link = NoOne => item'[c].status = item[c].status)
  PROVE  BatchInv'
  <1>1. ASSUME NEW b \in Batch PROVE OverAsTold(b)'
    <2>1. CASE batch'[b].status \in Finished
      BY <2>1, FinishedStays
    <2>2. CASE batch'[b].status \notin Finished
      BY <2>2 DEF OverAsTold, Finished
    <2> QED BY <2>1, <2>2
  <1>2. ClosedBatchIsOver'
    BY <1>1, ClosedIsToldNext
  <1> QED BY <1>2 DEF BatchInv

LEMMA NoLoopTyped == NoLoop \in LoopRow /\ NoLoop.batch = NoOne /\ NoLoop.todo = <<>>
  BY DEF NoLoop, LoopRow

LEMMA LoopFacts ==
  ASSUME BatchInv, NEW s \in Submitter
  PROVE  /\ batchLoop[s] \in LoopRow /\ batchLoop[s].batch \in Batch \cup {NoOne}
         /\ batchLoop[s].todo # <<>> => batchLoop[s].batch \in Batch
         /\ batchLoop[s].batch \in Batch =>
              /\ batchLoop[s].batch # NoOne /\ batchLoop[s].msg \in Message
              /\ batch[batchLoop[s].batch].status \notin Finished \cup {"NONE"}
              /\ \A i \in 1 .. Len(batchLoop[s].todo) :
                   batchLoop[s].todo[i] \in ItemsOf(batchLoop[s].batch)
  <1>1. batchLoop[s] \in LoopRow /\ LoopSound(s)
    BY BatchFacts
  <1>2. batchLoop[s].batch \in Batch \cup {NoOne}
    BY <1>1 DEF LoopRow
  <1> QED BY <1>1, <1>2, BatchAssumption DEF LoopSound

(* A loop that goes on, or is gone.                                        *)
LEMMA LoopStays ==
  ASSUME BatchInv, NEW s \in Submitter, batchLoop'[s] = batchLoop[s] \/ batchLoop'[s] = NoLoop,
         batchLoop[s].batch \in Batch =>
           /\ batch'[batchLoop[s].batch].status \notin Finished \cup {"NONE"}
           /\ batch'[batchLoop[s].batch].size = batch[batchLoop[s].batch].size
  PROVE  LoopSound(s)'
  <1>1. LoopSound(s) /\ batchLoop[s] \in LoopRow
    BY BatchFacts
  <1>2. CASE batchLoop'[s] = NoLoop
    BY <1>2, NoLoopTyped DEF LoopSound
  <1>3. CASE batchLoop'[s] = batchLoop[s]
    <2>1. batchLoop[s].batch \in Batch \cup {NoOne}
      BY <1>1 DEF LoopRow
    <2>2. batchLoop[s].batch \in Batch => ItemsOf(batchLoop[s].batch)' = ItemsOf(batchLoop[s].batch)
      BY <1>3 DEF ItemsOf
    <2> QED BY <1>1, <1>3, <2>1, <2>2 DEF LoopSound
  <1> QED BY <1>2, <1>3

(* The batches and their items while only the records move.                *)
LEMMA SnapshotsStay ==
  ASSUME BatchInv, RecordsStay, UNCHANGED item,
         \A b \in Batch : batch'[b].status = batch[b].status /\ batch'[b].size = batch[b].size
  PROVE  SnapshotsSound'
  <1>1. SnapshotsSound /\ \A c \in Confirmation : item[c].link \in Confirmation \cup {NoOne}
    BY BatchFacts DEF BatchItem
  <1>2. \A b \in Batch : ItemsOf(b)' = ItemsOf(b)
    BY DEF ItemsOf
  <1>3. \A c \in Confirmation : item'[c].link # NoOne => life'[item'[c].link].status # "NONE"
    BY <1>1 DEF SnapshotsSound, RecordsStay, Exists
  <1>4. ASSUME NEW b \in Batch
        PROVE  /\ batch'[b].size <= Len(ChildOf[b])
               /\ batch'[b].status # "NONE" =>
                    batch'[b].size >= 1 /\ \A c \in ItemsOf(b)' : item'[c].status # "NONE"
    BY <1>1, <1>2 DEF SnapshotsSound
  <1> QED BY <1>3, <1>4 DEF SnapshotsSound, Exists

(* A step that leaves the batches alone and the records growing.           *)
LEMMA AroundKeeps ==
  ASSUME BatchInv, AdmInv', KeepsEnds, RecordsStay, UNCHANGED <<batch, item>>,
         batchLoop' = batchLoop \/ batchLoop' = [s \in Submitter |-> NoLoop],
         \/ cancelling' = cancelling
         \/ cancelling' = [b \in Batch |-> NoCancel]
         \/ \E b \in Batch, jobs \in SUBSET (Confirmation \cup {NoOne}) :
              cancelling' = [cancelling EXCEPT ![b].jobs = jobs]
  PROVE  BatchInv'
  <1>1. BatchesTyped /\ CancelSound /\ cancelling \in [Batch -> CancelTask]
        /\ batchLoop \in [Submitter -> LoopRow] /\ \A s \in Submitter : LoopSound(s)
    BY BatchFacts
  <1>2. batchLoop' \in [Submitter -> LoopRow]
        /\ \A s \in Submitter : batchLoop'[s] = batchLoop[s] \/ batchLoop'[s] = NoLoop
    BY <1>1, NoLoopTyped
  <1>3. \A s \in Submitter : LoopSound(s)'
    BY <1>2, LoopFacts, LoopStays
  <1>4. cancelling' \in [Batch -> CancelTask]
        /\ \A b \in Batch : cancelling'[b].pc \in {cancelling[b].pc, "idle"}
    <2>1. CASE cancelling' = cancelling
      BY <1>1, <2>1
    <2>2. CASE cancelling' = [b \in Batch |-> NoCancel]
      <3>1. NoCancel \in CancelTask /\ NoCancel.pc = "idle"
        BY DEF NoCancel, CancelTask
      <3> QED BY <2>2, <3>1
    <2>3. ASSUME NEW b \in Batch, NEW jobs \in SUBSET (Confirmation \cup {NoOne}),
                 cancelling' = [cancelling EXCEPT ![b].jobs = jobs]
          PROVE  cancelling' \in [Batch -> CancelTask]
                 /\ \A d \in Batch : cancelling'[d].pc \in {cancelling[d].pc, "idle"}
      <3> DEFINE old == cancelling[b]
                 new == [old EXCEPT !.jobs = jobs]
      <3>1. old \in CancelTask /\ cancelling' = [cancelling EXCEPT ![b] = new]
        BY <1>1, <2>3
      <3> HIDE DEF old
      <3>2. new \in CancelTask /\ new.pc = old.pc
        BY <3>1 DEF CancelTask
      <3> HIDE DEF new
      <3> QED BY <1>1, <3>1, <3>2 DEF old
    <2> QED BY <2>1, <2>2, <2>3
  <1>5. BatchesTyped'
    BY <1>1, <1>2, <1>4 DEF BatchesTyped
  <1>6. SnapshotsSound'
    BY SnapshotsStay
  <1>7. CancelSound'
    BY <1>1, <1>4 DEF CancelSound
  <1> QED BY <1>3, <1>5, <1>6, <1>7, NothingFinishes

LEMMA CancelChildKeeps ==
  ASSUME BatchInv, NEW b \in Batch, NEW c \in Confirmation, CancelChild(b, c)
  PROVE  BatchInv' /\ KeepsEnds /\ StartsOnce
  <1>1. /\ life' = [life EXCEPT ![c] = CancelRow(@)]
        /\ cancelling' = [cancelling EXCEPT ![b].jobs = @ \ {c}]
        /\ UNCHANGED <<offer, request, sub, courier, preferred, batch, item, batchLoop>>
    BY DEF CancelChild
  <1>2. AdmInv' /\ KeepsEnds /\ StartsOnce /\ RecordsStay
    BY <1>1, CancelRowKeeps, BatchFacts
  <1>3. cancelling[b].jobs \ {c} \in SUBSET (Confirmation \cup {NoOne})
        /\ cancelling' = [cancelling EXCEPT ![b].jobs = cancelling[b].jobs \ {c}]
    BY <1>1, BatchFacts DEF CancelTask
  <1> QED BY <1>1, <1>2, <1>3, AroundKeeps

LEMMA RestartKeeps ==
  ASSUME BatchInv, BatchRestart
  PROVE  BatchInv' /\ KeepsEnds /\ StartsOnce
  <1>1. /\ LoseTasks /\ UNCHANGED <<life, request, preferred, batch, item>>
        /\ batchLoop' = [s \in Submitter |-> NoLoop]
        /\ cancelling' = [b \in Batch |-> NoCancel]
    BY DEF BatchRestart
  <1>2. AdmInv' /\ KeepsEnds /\ StartsOnce
    BY <1>1, UsersKeep, BatchFacts
  <1>3. RecordsStay
    BY <1>1 DEF RecordsStay, Exists
  <1> QED BY <1>1, <1>2, <1>3, AroundKeeps

LEMMA TrackKeeps ==
  ASSUME BatchInv, Around,
         \/ \E s \in Submitter : Submit(s)
         \/ \E w \in Courier : Deliver(w)
         \/ \E m \in Message : Press(m) \/ RequestLeaseExpires(m)
  PROVE  BatchInv' /\ KeepsEnds /\ StartsOnce
  <1>1. AdmInv' /\ KeepsEnds /\ StartsOnce
    BY SubmitKeeps, DeliverKeeps, UsersKeep, BatchFacts
  <1>2. RecordsStay
    <2>1. (\E m \in Message : Press(m) \/ RequestLeaseExpires(m)) => UNCHANGED life
      BY DEF Press, RequestLeaseExpires
    <2> QED BY <2>1, RecordsGrow, BatchFacts
  <1>3. UNCHANGED <<batch, item, batchLoop, cancelling>>
    BY DEF Around
  <1> QED BY <1>1, <1>2, <1>3, AroundKeeps

-----------------------------------------------------------------------------
(* admit_pending.                                                          *)

(* What is left of a list without its head comes from the list.            *)
LEMMA HeadAndTail ==
  ASSUME NEW q \in Seq(Confirmation), q # <<>>
  PROVE  /\ Head(q) = q[1] /\ 1 \in 1 .. Len(q) /\ Tail(q) \in Seq(Confirmation)
         /\ \A i \in 1 .. Len(Tail(q)) : Tail(q)[i] = q[i + 1] /\ i + 1 \in 1 .. Len(q)
  OBVIOUS

(* One turn of the loop writes its current item and its submission.        *)
LEMMA TurnKeeps ==
  ASSUME BatchInv, NEW s \in Submitter, batchLoop[s].todo # <<>>,
         UNCHANGED <<life, offer, request, courier, preferred, batch, cancelling>>,
         NEW x \in SubRow, sub' = [sub EXCEPT ![s] = x],
         x.pc # "idle" => x.msg \in Message /\ x.conf \in Confirmation,
         NEW next \in {batchLoop[s], [batchLoop[s] EXCEPT !.todo = Tail(@)], NoLoop},
         batchLoop' = [batchLoop EXCEPT ![s] = next],
         NEW r \in BatchItem, item' = [item EXCEPT ![CurrentItem(s)] = r],
         r.status # "NONE", r.link # NoOne => Exists(r.link)
  PROVE  BatchInv' /\ KeepsEnds /\ StartsOnce
  <1> DEFINE b == batchLoop[s].batch
             c == CurrentItem(s)
             q == batchLoop[s].todo
  <1>1. /\ b \in Batch /\ batchLoop[s] \in LoopRow /\ b # NoOne /\ batchLoop[s].msg \in Message
        /\ batch[b].status \notin Finished \cup {"NONE"}
        /\ \A i \in 1 .. Len(q) : q[i] \in ItemsOf(b)
    BY LoopFacts
  <1>2. /\ q \in Seq(Confirmation) /\ q # <<>>
    BY <1>1 DEF LoopRow
  <1>3. /\ c = q[1] /\ 1 \in 1 .. Len(q) /\ Tail(q) \in Seq(Confirmation)
        /\ \A i \in 1 .. Len(Tail(q)) : Tail(q)[i] = q[i + 1] /\ i + 1 \in 1 .. Len(q)
    BY <1>2, HeadAndTail DEF CurrentItem
  <1>4. c \in ItemsOf(b) /\ c \in Confirmation
    BY <1>1, <1>3, BatchFacts
  <1>5. AdmInv' /\ KeepsEnds /\ StartsOnce
    <2>1. AdmInv /\ RestTyped /\ TasksHaveMessages /\ RequestsTyped
      BY BatchFacts DEF AdmInv
    <2>2. RestTyped' /\ TasksHaveMessages'
      BY <2>1 DEF RestTyped, TasksHaveMessages
    <2> QED BY <2>1, <2>2, RestEvolves, OthersKeep
  <1>6. /\ next \in LoopRow /\ next.todo \in Seq(Confirmation)
        /\ next.batch = NoOne => next.todo = <<>>
        /\ next.batch # NoOne =>
             /\ next.batch = b /\ next.msg \in Message
             /\ \A i \in 1 .. Len(next.todo) : next.todo[i] \in ItemsOf(b)
    <2>1. CASE next = batchLoop[s]
      BY <1>1, <1>2, <2>1
    <2>2. CASE next = [batchLoop[s] EXCEPT !.todo = Tail(@)]
      <3> DEFINE old == batchLoop[s]
                 rest == Tail(q)
      <3>1. old \in LoopRow /\ next = [old EXCEPT !.todo = rest] /\ rest \in Seq(Confirmation)
        BY <1>1, <1>3, <2>2
      <3>2. \A i \in 1 .. Len(rest) : rest[i] \in ItemsOf(b)
        BY <1>1, <1>3
      <3> HIDE DEF rest
      <3>3. next \in LoopRow /\ next.batch = old.batch /\ next.msg = old.msg /\ next.todo = rest
        <4> HIDE DEF old
        <4> QED BY <3>1 DEF LoopRow
      <3> QED BY <1>1, <3>1, <3>2, <3>3
    <2>3. CASE next = NoLoop
      BY <2>3, NoLoopTyped
    <2> QED BY <2>1, <2>2, <2>3
  <1> HIDE DEF q, c
  <1>7. /\ item' \in [Confirmation -> BatchItem] /\ batchLoop' \in [Submitter -> LoopRow]
        /\ item'[c] = r /\ \A d \in Confirmation : d # c => item'[d] = item[d]
        /\ batchLoop'[s] = next
        /\ \A y \in Submitter : y # s => batchLoop'[y] = batchLoop[y]
    BY <1>4, <1>6, BatchFacts DEF c
  <1>8. BatchesTyped'
    BY <1>7, BatchFacts DEF BatchesTyped
  <1>9. \A d \in Batch : ItemsOf(d)' = ItemsOf(d)
    BY DEF ItemsOf
  <1>10. ASSUME NEW y \in Submitter PROVE LoopSound(y)'
    <2>1. CASE y = s
      BY <1>1, <1>6, <1>7, <1>9, <2>1 DEF LoopSound
    <2>2. CASE y # s
      BY <1>7, <2>2, LoopFacts, LoopStays
    <2> QED BY <2>1, <2>2
  <1>11. SnapshotsSound'
    <2>1. \A d \in Confirmation : item'[d].link # NoOne => life'[item'[d].link].status # "NONE"
      BY <1>4, <1>7, BatchFacts DEF SnapshotsSound, Exists
    <2>2. ASSUME NEW d \in Batch
          PROVE  /\ batch'[d].size <= Len(ChildOf[d])
                 /\ batch'[d].status # "NONE" =>
                      batch'[d].size >= 1 /\ \A e \in ItemsOf(d)' : item'[e].status # "NONE"
      <3>1. /\ batch[d].size <= Len(ChildOf[d])
            /\ batch[d].status # "NONE" =>
                 batch[d].size >= 1 /\ \A e \in ItemsOf(d) : item[e].status # "NONE"
            /\ ItemsOf(d) \subseteq Confirmation
        BY BatchFacts DEF SnapshotsSound
      <3> QED BY <1>7, <1>9, <3>1
    <2> QED BY <2>1, <2>2 DEF SnapshotsSound, Exists
  <1>12. CancelSound'
    BY BatchFacts DEF CancelSound
  <1>13. ASSUME NEW d \in Batch, batch[d].status \in Finished, NEW e \in ItemsOf(d)
         PROVE  item'[e] = item[e]
    <2>1. d # b
      BY <1>1, <1>13
    <2>2. e # c /\ e \in Confirmation
      BY <1>1, <1>4, <2>1, BatchFacts
    <2> QED BY <1>7, <2>2
  <1> QED BY <1>5, <1>8, <1>10, <1>11, <1>12, <1>13, NothingFinishes

LEMMA CurrentIs ==
  ASSUME BatchInv, NEW s \in Submitter, batchLoop[s].todo # <<>>
  PROVE  /\ batchLoop[s].batch \in Batch /\ batchLoop[s].msg \in Message
         /\ CurrentItem(s) \in Confirmation /\ item[CurrentItem(s)] \in BatchItem
         /\ item[CurrentItem(s)].status # "NONE"
         /\ item[CurrentItem(s)].link # NoOne => Exists(item[CurrentItem(s)].link)
         /\ NextItem(s) <=> batchLoop' = [batchLoop EXCEPT ![s] = [batchLoop[s] EXCEPT !.todo = Tail(@)]]
         /\ NoSub \in SubRow /\ NoSub.pc = "idle"
  <1> DEFINE b == batchLoop[s].batch
             q == batchLoop[s].todo
  <1>1. /\ b \in Batch /\ batchLoop[s] \in LoopRow /\ batchLoop[s].msg \in Message
        /\ batch[b].status \notin Finished \cup {"NONE"}
        /\ \A i \in 1 .. Len(q) : q[i] \in ItemsOf(b)
    BY LoopFacts
  <1>2. q \in Seq(Confirmation) /\ q # <<>>
    BY <1>1 DEF LoopRow
  <1>3. CurrentItem(s) \in ItemsOf(b)
    BY <1>1, <1>2, HeadAndTail DEF CurrentItem
  <1>4. CurrentItem(s) \in Confirmation /\ item[CurrentItem(s)].status # "NONE"
    BY <1>1, <1>3, BatchFacts DEF SnapshotsSound
  <1>5. item[CurrentItem(s)] \in BatchItem
        /\ (item[CurrentItem(s)].link # NoOne => Exists(item[CurrentItem(s)].link))
    BY <1>4, BatchFacts DEF SnapshotsSound
  <1>6. NextItem(s) <=> batchLoop' = [batchLoop EXCEPT ![s] = [batchLoop[s] EXCEPT !.todo = Tail(@)]]
    BY BatchFacts DEF NextItem
  <1>7. NoSub \in SubRow /\ NoSub.pc = "idle"
    BY Zenon DEF NoSub, SubRow, RequestStatus
  <1> QED BY <1>1, <1>4, <1>5, <1>6, <1>7

LEMMA Unturned ==
  ASSUME BatchInv, NEW s \in Submitter, batchLoop[s].todo # <<>>
  PROVE  /\ sub \in [Submitter -> SubRow] /\ sub = [sub EXCEPT ![s] = sub[s]]
         /\ sub[s].pc # "idle" => sub[s].msg \in Message /\ sub[s].conf \in Confirmation
         /\ item = [item EXCEPT ![CurrentItem(s)] = item[CurrentItem(s)]]
         /\ batchLoop = [batchLoop EXCEPT ![s] = batchLoop[s]]
  BY BatchFacts, CurrentIs DEF AdmInv, RestTyped, TasksHaveMessages

LEMMA ClaimItemKeeps ==
  ASSUME BatchInv, NEW s \in Submitter, ClaimItem(s)
  PROVE  BatchInv' /\ KeepsEnds /\ StartsOnce
  <1> DEFINE c == CurrentItem(s)
  <1>1. batchLoop[s].todo # <<>> /\ UNCHANGED <<life, offer, request, courier, preferred, batch, cancelling>>
    BY DEF ClaimItem
  <1>2. CASE NextItem(s) /\ UNCHANGED <<item, sub>>
    BY <1>1, <1>2, CurrentIs, Unturned, TurnKeeps
  <1>3. CASE /\ SetItem(c, [item[c] EXCEPT !.status = "ADMITTED"])
             /\ sub' = [sub EXCEPT ![s] = [NoSub EXCEPT !.pc = "resolve", !.conf = c,
                                             !.msg = batchLoop[s].msg, !.track = item[c].track,
                                             !.quality = TRUE]]
             /\ UNCHANGED batchLoop
    <2> DEFINE old == item[c]
               r == [old EXCEPT !.status = "ADMITTED"]
               m == batchLoop[s].msg
               t == old.track
               x == [NoSub EXCEPT !.pc = "resolve", !.conf = c, !.msg = m, !.track = t,
                                  !.quality = TRUE]
    <2>1. /\ c \in Confirmation /\ old \in BatchItem /\ m \in Message /\ NoSub \in SubRow
          /\ old.link # NoOne => Exists(old.link)
      BY <1>1, CurrentIs
    <2>2. item' = [item EXCEPT ![c] = r] /\ sub' = [sub EXCEPT ![s] = x]
      BY <1>3 DEF SetItem
    <2>3. t \in Title \cup {NoOne}
      BY <2>1 DEF BatchItem
    <2> HIDE DEF t, m, old
    <2>4. r \in BatchItem /\ r.status # "NONE" /\ r.link = old.link
      BY <2>1 DEF BatchItem
    <2> HIDE DEF c
    <2>5. x \in SubRow /\ x.msg = m /\ x.conf = c
      BY <2>1, <2>3 DEF SubRow
    <2> HIDE DEF r, x
    <2>6. batchLoop' = [batchLoop EXCEPT ![s] = batchLoop[s]]
      BY <1>1, <1>3, Unturned
    <2>7. item' = [item EXCEPT ![CurrentItem(s)] = r]
      BY <2>2 DEF c
    <2>8. r.link # NoOne => Exists(r.link)
      BY <2>1, <2>4
    <2> QED BY <1>1, <2>1, <2>2, <2>4, <2>5, <2>6, <2>7, <2>8, TurnKeeps
  <1> QED BY <1>2, <1>3 DEF ClaimItem

LEMMA ItemFailsKeeps ==
  ASSUME BatchInv, NEW s \in Submitter, ItemFails(s)
  PROVE  BatchInv' /\ KeepsEnds /\ StartsOnce
  <1>1. batchLoop[s].todo # <<>> /\ UNCHANGED <<life, offer, request, courier, preferred, batch, cancelling>>
        /\ sub' = [sub EXCEPT ![s] = NoSub] /\ NextItem(s)
    BY DEF ItemFails
  <1> DEFINE old == item[CurrentItem(s)]
  <1>2. PICK code \in {"passing", "lasting"} :
          item' = [item EXCEPT ![CurrentItem(s)] = [old EXCEPT !.status = "FAILED", !.code = code]]
    BY DEF ItemFails, SetItem
  <1> DEFINE r == [old EXCEPT !.status = "FAILED", !.code = code]
  <1>3. old \in BatchItem /\ (old.link # NoOne => Exists(old.link))
    BY <1>1, CurrentIs
  <1> HIDE DEF old
  <1>4. r \in BatchItem /\ r.status # "NONE" /\ r.link = old.link
    BY <1>3 DEF BatchItem
  <1>5. item' = [item EXCEPT ![CurrentItem(s)] = r]
    BY <1>2
  <1> HIDE DEF r
  <1> QED BY <1>1, <1>3, <1>4, <1>5, CurrentIs, TurnKeeps

LEMMA ItemAdmittedKeeps ==
  ASSUME BatchInv, NEW s \in Submitter, ItemAdmitted(s)
  PROVE  BatchInv' /\ KeepsEnds /\ StartsOnce
  <1> DEFINE c == CurrentItem(s)
             link == FoundRecord(sub[s].msg)
  <1>1. batchLoop[s].todo # <<>> /\ UNCHANGED <<life, offer, request, courier, preferred, batch, cancelling>>
        /\ sub' = [sub EXCEPT ![s] = NoSub]
    BY DEF ItemAdmitted
  <1>2. CASE batchLoop' = [batchLoop EXCEPT ![s] = NoLoop] /\ UNCHANGED item
    BY <1>1, <1>2, CurrentIs, Unturned, TurnKeeps
  <1>3. CASE /\ SetItem(c, [item[c] EXCEPT !.status = "ADMITTED", !.code = "none",
                                           !.link = IF link = NoOne THEN @ ELSE link])
             /\ NextItem(s)
    <2> DEFINE old == item[c]
               to == IF link = NoOne THEN old.link ELSE link
               r == [old EXCEPT !.status = "ADMITTED", !.code = "none", !.link = to]
    <2>1. old \in BatchItem /\ (old.link # NoOne => Exists(old.link))
      BY <1>1, CurrentIs
    <2>2. item' = [item EXCEPT ![c] = r]
      BY <1>3 DEF SetItem
    <2>3. link # NoOne => link \in Confirmation /\ Exists(link)
      BY DEF FoundRecord, Linked
    <2> HIDE DEF link
    <2>4. to \in Confirmation \cup {NoOne} /\ (to # NoOne => Exists(to))
      BY <2>1, <2>3 DEF BatchItem
    <2> HIDE DEF old, to
    <2>5. r \in BatchItem /\ r.status # "NONE" /\ r.link = to
      BY <2>1, <2>4 DEF BatchItem
    <2> HIDE DEF r
    <2> QED BY <1>1, <1>3, <2>2, <2>4, <2>5, CurrentIs, TurnKeeps
  <1> QED BY <1>2, <1>3 DEF ItemAdmitted

(* A loop begins: it goes through every item of an active batch.           *)
LEMMA LoopBegins ==
  ASSUME BatchInv, NEW s \in Submitter, NEW b \in Batch, NEW m \in Message, NEW boot \in BOOLEAN,
         batch[b].status \notin Finished \cup {"NONE"}, LoopOver(s, b, m, boot)
  PROVE  /\ batchLoop' \in [Submitter -> LoopRow]
         /\ \A y \in Submitter : y # s => batchLoop'[y] = batchLoop[y]
         /\ batchLoop'[s].batch = b /\ batchLoop'[s].msg = m
         /\ \A i \in 1 .. Len(batchLoop'[s].todo) : batchLoop'[s].todo[i] \in ItemsOf(b)
  <1> DEFINE n == batch[b].size
             q == SubSeq(ChildOf[b], 1, n)
             row == [batch |-> b, todo |-> q, msg |-> m, boot |-> boot]
  <1>1. /\ n \in Nat /\ n <= Len(ChildOf[b]) /\ ChildOf[b] \in Seq(Confirmation)
        /\ batchLoop \in [Submitter -> LoopRow]
    BY BatchFacts, BatchAssumption DEF SnapshotsSound, BatchRow
  <1>2. \A i \in 1 .. n : ChildOf[b][i] \in ItemsOf(b)
    BY DEF ItemsOf
  <1> HIDE DEF n
  <1>3. q \in Seq(Confirmation) /\ \A i \in 1 .. Len(q) : i \in 1 .. n /\ q[i] = ChildOf[b][i]
    BY <1>1
  <1>4. batchLoop' = [batchLoop EXCEPT ![s] = row]
    BY DEF LoopOver, n
  <1> HIDE DEF q
  <1>5. row \in LoopRow
    BY <1>3 DEF LoopRow
  <1> QED BY <1>1, <1>2, <1>3, <1>4, <1>5

LEMMA StartLoopKeeps ==
  ASSUME BatchInv, NEW s \in Submitter, NEW b \in Batch, StartLoop(s, b)
  PROVE  BatchInv' /\ KeepsEnds /\ StartsOnce
  <1>1. /\ batch[b].status = "ACTIVE" /\ LoopOver(s, b, SourceOf[b], FALSE)
        /\ UNCHANGED <<admissionVars, batch, item, cancelling>>
    BY DEF StartLoop
  <1>2. SourceOf[b] \in Message /\ b # NoOne
    BY BatchAssumption
  <1>3. /\ batchLoop' \in [Submitter -> LoopRow]
        /\ \A y \in Submitter : y # s => batchLoop'[y] = batchLoop[y]
        /\ batchLoop'[s].batch = b /\ batchLoop'[s].msg = SourceOf[b]
        /\ \A i \in 1 .. Len(batchLoop'[s].todo) : batchLoop'[s].todo[i] \in ItemsOf(b)
        /\ batch[b].status \notin Finished \cup {"NONE"}
    <2>1. batch[b].status \notin Finished \cup {"NONE"}
      BY <1>1 DEF Finished
    <2>2. FALSE \in BOOLEAN
      OBVIOUS
    <2>3. /\ batchLoop' \in [Submitter -> LoopRow]
          /\ \A y \in Submitter : y # s => batchLoop'[y] = batchLoop[y]
          /\ batchLoop'[s].batch = b /\ batchLoop'[s].msg = SourceOf[b]
          /\ \A i \in 1 .. Len(batchLoop'[s].todo) : batchLoop'[s].todo[i] \in ItemsOf(b)
      BY <1>1, <1>2, <2>1, <2>2, LoopBegins
    <2> QED BY <2>1, <2>3
  <1>4. AdmInv' /\ KeepsEnds /\ StartsOnce /\ RecordsStay
    <2>1. UNCHANGED admissionVars
      BY <1>1
    <2>2. AdmInv' /\ [KeepsEnds]_life /\ [StartsOnce]_admissionVars
      BY <2>1, AdmissionStep, BatchFacts
    <2>3. KeepsEnds /\ StartsOnce /\ RecordsStay
      BY <2>1 DEF admissionVars, KeepsEnds, StartsOnce, RecordsStay, Exists
    <2> QED BY <2>2, <2>3
  <1>5. ASSUME NEW y \in Submitter PROVE LoopSound(y)'
    <2>1. CASE y = s
      <3>1. ItemsOf(b)' = ItemsOf(b)
        BY <1>1 DEF ItemsOf
      <3> QED BY <1>1, <1>2, <1>3, <2>1, <3>1 DEF LoopSound
    <2>2. CASE y # s
      BY <1>1, <1>3, <2>2, LoopFacts, LoopStays
    <2> QED BY <2>1, <2>2
  <1>6. BatchesTyped'
    BY <1>1, <1>3, BatchFacts DEF BatchesTyped
  <1>7. SnapshotsSound'
    BY <1>1, <1>4, SnapshotsStay
  <1>8. CancelSound'
    BY <1>1, BatchFacts DEF CancelSound
  <1> QED BY <1>1, <1>4, <1>5, <1>6, <1>7, <1>8, NothingFinishes

(* A batch's row changes in something else than its state or its items.    *)
LEMMA RowKeeps ==
  ASSUME BatchInv, NEW b \in Batch, NEW r \in BatchRow,
         batch' = [batch EXCEPT ![b] = r], r.status = batch[b].status, r.size = batch[b].size
  PROVE  /\ batch' \in [Batch -> BatchRow]
         /\ \A d \in Batch : /\ batch'[d].status = batch[d].status /\ batch'[d].size = batch[d].size
                             /\ d # b => batch'[d] = batch[d]
         /\ batch'[b] = r
  BY BatchFacts

LEMMA EndLoopKeeps ==
  ASSUME BatchInv, NEW s \in Submitter, EndLoop(s)
  PROVE  BatchInv' /\ KeepsEnds /\ StartsOnce
  <1> DEFINE b == batchLoop[s].batch
             old == batch[b]
             to == CardSent[b]
             r == [old EXCEPT !.parent = to]
  <1>1. /\ b # NoOne /\ UNCHANGED <<admissionVars, item, cancelling>>
        /\ batchLoop' = [batchLoop EXCEPT ![s] = NoLoop]
        /\ UNCHANGED batch \/ batch' = [batch EXCEPT ![b].parent = CardSent[b]]
    BY DEF EndLoop
  <1>2. b \in Batch /\ old \in BatchRow /\ to \in Message \cup {NoOne}
    BY <1>1, LoopFacts, BatchFacts, BatchAssumption
  <1>3. batch' = batch \/ batch' = [batch EXCEPT ![b] = r]
    BY <1>1, <1>2, BatchFacts
  <1> HIDE DEF old, to
  <1>4. r \in BatchRow /\ r.status = old.status /\ r.size = old.size /\ r.cancel = old.cancel
    BY <1>2 DEF BatchRow
  <1> HIDE DEF r
  <1>5. /\ batch' \in [Batch -> BatchRow]
        /\ \A d \in Batch : /\ batch'[d].status = batch[d].status /\ batch'[d].size = batch[d].size
                            /\ batch'[d].cancel = batch[d].cancel
    <2>1. CASE batch' = batch
      BY <2>1, BatchFacts
    <2>2. CASE batch' = [batch EXCEPT ![b] = r]
      BY <1>2, <1>4, <2>2, RowKeeps DEF old
    <2> QED BY <1>3, <2>1, <2>2
  <1>6. AdmInv' /\ KeepsEnds /\ StartsOnce /\ RecordsStay
    <2>1. UNCHANGED admissionVars
      BY <1>1
    <2>2. AdmInv' /\ [KeepsEnds]_life /\ [StartsOnce]_admissionVars
      BY <2>1, AdmissionStep, BatchFacts
    <2>3. KeepsEnds /\ StartsOnce /\ RecordsStay
      BY <2>1 DEF admissionVars, KeepsEnds, StartsOnce, RecordsStay, Exists
    <2> QED BY <2>2, <2>3
  <1>7. /\ batchLoop' \in [Submitter -> LoopRow]
        /\ \A y \in Submitter : batchLoop'[y] = batchLoop[y] \/ batchLoop'[y] = NoLoop
    BY <1>1, NoLoopTyped, BatchFacts
  <1>8. \A y \in Submitter : LoopSound(y)'
    BY <1>5, <1>7, LoopFacts, LoopStays
  <1>9. BatchesTyped'
    BY <1>1, <1>5, <1>7, BatchFacts DEF BatchesTyped
  <1>10. SnapshotsSound'
    BY <1>1, <1>5, <1>6, SnapshotsStay
  <1>11. CancelSound'
    BY <1>1, <1>5, BatchFacts DEF CancelSound
  <1> QED BY <1>1, <1>5, <1>6, <1>8, <1>9, <1>10, <1>11, NothingFinishes

-----------------------------------------------------------------------------
(* Snapshots and the Cancel button.                                        *)

LEMMA AdmissionRestsKeep ==
  ASSUME BatchInv, UNCHANGED admissionVars
  PROVE  AdmInv' /\ KeepsEnds /\ StartsOnce /\ RecordsStay
  <1>1. AdmInv' /\ [KeepsEnds]_life /\ [StartsOnce]_admissionVars
    BY AdmissionStep, BatchFacts
  <1>2. KeepsEnds /\ StartsOnce /\ RecordsStay
    BY DEF admissionVars, KeepsEnds, StartsOnce, RecordsStay, Exists
  <1> QED BY <1>1, <1>2

(* A snapshot is written where there was none.                             *)
LEMMA SnapshotKeeps ==
  ASSUME BatchInv, NEW b \in Batch, batch[b].status = "NONE", NEW n \in Nat \ {0},
         NEW tracks \in [1 .. n -> Title \cup {NoOne}], Snapshot(b, tracks),
         UNCHANGED <<admissionVars, batchLoop, cancelling>>
  PROVE  BatchInv' /\ KeepsEnds /\ StartsOnce
  <1> DEFINE its == {ChildOf[b][i] : i \in 1 .. n}
             r == [NoBatch EXCEPT !.status = "ACTIVE", !.size = n]
  <1>1. Len(tracks) = n /\ DOMAIN tracks = 1 .. n
    OBVIOUS
  <1>2. /\ n <= Len(ChildOf[b]) /\ batch' = [batch EXCEPT ![b] = r]
        /\ item' = [c \in Confirmation |->
                     IF \E i \in 1 .. n : ChildOf[b][i] = c
                     THEN NewItem(tracks[CHOOSE i \in 1 .. n : ChildOf[b][i] = c])
                     ELSE item[c]]
    BY <1>1 DEF Snapshot
  <1>3. r \in BatchRow /\ r.status = "ACTIVE" /\ r.size = n
    <2>1. NoBatch \in BatchRow
      BY DEF NoBatch, BatchRow
    <2> QED BY <2>1 DEF BatchRow
  <1> HIDE DEF r
  <1>4. /\ batch' \in [Batch -> BatchRow] /\ batch'[b] = r
        /\ \A d \in Batch : d # b => batch'[d] = batch[d]
    BY <1>2, <1>3, BatchFacts
  <1>5. ASSUME NEW c \in Confirmation
        PROVE  /\ c \notin its => item'[c] = item[c]
               /\ c \in its => item'[c] \in BatchItem /\ item'[c].status = "PENDING"
                               /\ item'[c].link = NoOne
    <2>1. CASE c \notin its
      BY <1>2, <2>1
    <2>2. CASE c \in its
      <3> DEFINE k == CHOOSE i \in 1 .. n : ChildOf[b][i] = c
                 t == tracks[k]
      <3>1. k \in 1 .. n
        BY <2>2
      <3> HIDE DEF k
      <3>2. t \in Title \cup {NoOne} /\ item'[c] = NewItem(t)
        BY <1>2, <2>2, <3>1 DEF k
      <3> HIDE DEF t
      <3>3. NoItem \in BatchItem /\ NoItem.link = NoOne
        BY DEF NoItem, BatchItem
      <3>4. NewItem(t) \in BatchItem /\ NewItem(t).status = "PENDING" /\ NewItem(t).link = NoOne
        <4> DEFINE old == NoItem
        <4>1. NewItem(t) = [old EXCEPT !.status = "PENDING", !.track = t]
          BY DEF NewItem
        <4>2. old \in BatchItem /\ old.link = NoOne
          BY <3>3
        <4> HIDE DEF old
        <4> QED BY <3>2, <4>1, <4>2 DEF BatchItem
      <3> QED BY <2>2, <3>2, <3>4
    <2> QED BY <2>1, <2>2
  <1>6. item' \in [Confirmation -> BatchItem]
    <2>1. \A c \in Confirmation : item'[c] \in BatchItem
      BY <1>5, BatchFacts
    <2> QED BY <1>2, <2>1
  <1>7. ItemsOf(b)' = its /\ \A d \in Batch : d # b => ItemsOf(d)' = ItemsOf(d)
    BY <1>3, <1>4 DEF ItemsOf
  <1>8. ASSUME NEW d \in Batch, d # b, NEW c \in ItemsOf(d) PROVE c \notin its
    <2> SUFFICES ASSUME c \in its PROVE FALSE
      OBVIOUS
    <2>1. PICK i \in 1 .. n : c = ChildOf[b][i]
      OBVIOUS
    <2>2. PICK j \in 1 .. batch[d].size : c = ChildOf[d][j]
      BY <1>8 DEF ItemsOf
    <2>3. /\ ChildOf[b] \in Seq(Confirmation) /\ ChildOf[d] \in Seq(Confirmation)
          /\ batch[d].size \in Nat /\ batch[d].size <= Len(ChildOf[d])
      BY BatchAssumption, BatchFacts DEF BatchRow, SnapshotsSound
    <2>4. i \in DOMAIN ChildOf[b] /\ j \in DOMAIN ChildOf[d]
      BY <1>2, <2>3
    <2> QED BY <1>8, <2>1, <2>2, <2>4, BatchAssumption
  <1> HIDE DEF its
  <1>9. AdmInv' /\ KeepsEnds /\ StartsOnce /\ RecordsStay
    BY AdmissionRestsKeep
  <1>10. BatchesTyped'
    BY <1>4, <1>6, BatchFacts DEF BatchesTyped
  <1>11. SnapshotsSound'
    <2>1. ASSUME NEW c \in Confirmation, item'[c].link # NoOne
          PROVE  life'[item'[c].link].status # "NONE"
      <3>1. item'[c] = item[c] /\ item[c].link \in Confirmation /\ Exists(item[c].link)
        BY <1>5, <2>1, BatchFacts DEF SnapshotsSound, BatchItem
      <3> QED BY <1>9, <3>1 DEF RecordsStay, Exists
    <2>2. ASSUME NEW d \in Batch
          PROVE  /\ batch'[d].size <= Len(ChildOf[d])
                 /\ batch'[d].status # "NONE" =>
                      batch'[d].size >= 1 /\ \A c \in ItemsOf(d)' : item'[c].status # "NONE"
      <3>1. CASE d = b
        <4>1. its \subseteq Confirmation
          <5>1. ChildOf[b] \in Seq(Confirmation)
            BY BatchAssumption
          <5>2. \A i \in 1 .. n : i \in 1 .. Len(ChildOf[b])
            BY <1>2, <5>1
          <5> QED BY <5>1, <5>2 DEF its
        <4> QED BY <1>2, <1>3, <1>4, <1>5, <1>7, <3>1, <4>1
      <3>2. CASE d # b
        <4>1. /\ batch[d].size <= Len(ChildOf[d])
              /\ batch[d].status # "NONE" =>
                   batch[d].size >= 1 /\ \A c \in ItemsOf(d) : item[c].status # "NONE"
              /\ ItemsOf(d) \subseteq Confirmation
          BY BatchFacts DEF SnapshotsSound
        <4> QED BY <1>4, <1>5, <1>7, <1>8, <3>2, <4>1
      <3> QED BY <3>1, <3>2
    <2> QED BY <2>1, <2>2 DEF SnapshotsSound, Exists
  <1>12. ASSUME NEW s \in Submitter PROVE LoopSound(s)'
    <2>1. batchLoop[s].batch \in Batch => batchLoop[s].batch # b
      BY LoopFacts
    <2> QED BY <1>4, <2>1, LoopFacts, LoopStays
  <1>13. CancelSound'
    BY <1>4, BatchFacts DEF CancelSound
  <1>14. \A d \in Batch : batch'[d].status \in Finished \/ batch[d].status \in Finished => d # b
    BY <1>3, <1>4 DEF Finished
  <1>15. ASSUME NEW d \in Batch, batch[d].status \in Finished, NEW c \in ItemsOf(d)
         PROVE  item'[c] = item[c]
    BY <1>5, <1>8, <1>14, <1>15, BatchFacts
  <1> QED BY <1>4, <1>9, <1>10, <1>11, <1>12, <1>13, <1>14, <1>15, NothingFinishes

LEMMA CreateKeeps ==
  ASSUME BatchInv, NEW b \in Batch, CreateBatch(b) \/ RetryFailed(b)
  PROVE  BatchInv' /\ KeepsEnds /\ StartsOnce
  <1>1. CASE CreateBatch(b)
    <2> DEFINE n == Len(ChildOf[b])
    <2>1. n \in Nat \ {0}
      <3>1. ChildOf[b] \in Seq(Confirmation) /\ ChildOf[b] # <<>>
        BY BatchAssumption
      <3> QED BY <3>1
    <2>2. PICK tracks \in [1 .. n -> Title] : Snapshot(b, tracks)
      BY <1>1 DEF CreateBatch
    <2> HIDE DEF n
    <2>3. tracks \in [1 .. n -> Title \cup {NoOne}]
      OBVIOUS
    <2>4. batch[b].status = "NONE" /\ UNCHANGED <<admissionVars, batchLoop, cancelling>>
      BY <1>1 DEF CreateBatch
    <2> QED BY <2>1, <2>2, <2>3, <2>4, SnapshotKeeps
  <1>2. CASE RetryFailed(b)
    <2> DEFINE d == ParentOf[b]
               failed == {c \in ItemsOf(d) : ItemFailedFor(c, "passing")}
    <2>1. /\ d # NoOne /\ batch[b].status = "NONE"
          /\ UNCHANGED <<admissionVars, batchLoop, cancelling>>
          /\ \E n \in 1 .. batch[d].size : \E again \in [1 .. n -> failed] :
               Snapshot(b, [i \in 1 .. n |-> item[again[i]].track])
      BY <1>2 DEF RetryFailed
    <2>2. d \in Batch
      BY <2>1, BatchAssumption
    <2>3. failed \subseteq Confirmation
      BY <2>2, BatchFacts
    <2> HIDE DEF d, failed
    <2>4. PICK n \in 1 .. batch[d].size : \E again \in [1 .. n -> failed] :
            Snapshot(b, [i \in 1 .. n |-> item[again[i]].track])
      BY <2>1
    <2>5. PICK again \in [1 .. n -> failed] : Snapshot(b, [i \in 1 .. n |-> item[again[i]].track])
      BY <2>4
    <2>6. n \in Nat \ {0}
      BY <2>2, <2>4, BatchFacts DEF BatchRow
    <2> DEFINE tracks == [i \in 1 .. n |-> item[again[i]].track]
    <2>7. tracks \in [1 .. n -> Title \cup {NoOne}]
      BY <2>3, BatchFacts DEF BatchItem
    <2> HIDE DEF tracks
    <2>8. Snapshot(b, tracks)
      BY <2>5 DEF tracks
    <2> QED BY <2>1, <2>6, <2>7, <2>8, SnapshotKeeps
  <1> QED BY <1>1, <1>2

(* Only the rows of one batch and of its items change.                     *)
LEMMA ItemsKeep ==
  ASSUME BatchInv, NEW b \in Batch, UNCHANGED admissionVars,
         NEW r \in BatchRow, batch' = [batch EXCEPT ![b] = r], r.size = batch[b].size,
         r.status = "NONE" <=> batch[b].status = "NONE",
         item' = [c \in Confirmation |-> item'[c]],
         \A c \in Confirmation :
           /\ item'[c] \in BatchItem /\ item'[c].link = item[c].link
           /\ item[c].status # "NONE" => item'[c].status # "NONE",
         \A c \in Confirmation : c \notin ItemsOf(b) => item'[c] = item[c]
  PROVE  /\ batch' \in [Batch -> BatchRow] /\ item' \in [Confirmation -> BatchItem]
         /\ batch'[b] = r /\ \A d \in Batch : d # b => batch'[d] = batch[d]
         /\ \A d \in Batch : ItemsOf(d)' = ItemsOf(d)
         /\ SnapshotsSound'
         /\ \A d \in Batch : d # b => \A c \in ItemsOf(d) : item'[c] = item[c]
  <1>1. /\ batch' \in [Batch -> BatchRow] /\ batch'[b] = r
        /\ \A d \in Batch : d # b => batch'[d] = batch[d]
    BY BatchFacts
  <1>2. item' \in [Confirmation -> BatchItem]
    OBVIOUS
  <1>3. \A d \in Batch : batch'[d].size = batch[d].size
    BY <1>1
  <1>4. \A d \in Batch : ItemsOf(d)' = ItemsOf(d)
    BY <1>3 DEF ItemsOf
  <1>5. \A d \in Batch : d # b => \A c \in ItemsOf(d) : item'[c] = item[c]
    BY BatchFacts
  <1>6. SnapshotsSound'
    <2>1. ASSUME NEW c \in Confirmation, item'[c].link # NoOne
          PROVE  life'[item'[c].link].status # "NONE"
      <3>1. life' = life
        BY DEF admissionVars
      <3> QED BY <2>1, <3>1, BatchFacts DEF SnapshotsSound, Exists
    <2>2. ASSUME NEW d \in Batch
          PROVE  /\ batch'[d].size <= Len(ChildOf[d])
                 /\ batch'[d].status # "NONE" =>
                      batch'[d].size >= 1 /\ \A c \in ItemsOf(d)' : item'[c].status # "NONE"
      <3>1. /\ batch[d].size <= Len(ChildOf[d])
            /\ batch[d].status # "NONE" =>
                 batch[d].size >= 1 /\ \A c \in ItemsOf(d) : item[c].status # "NONE"
            /\ ItemsOf(d) \subseteq Confirmation
        BY BatchFacts DEF SnapshotsSound
      <3>2. batch'[d].status # "NONE" => batch[d].status # "NONE"
        BY <1>1
      <3> QED BY <1>3, <1>4, <3>1, <3>2
    <2> QED BY <2>1, <2>2 DEF SnapshotsSound, Exists
  <1> QED BY <1>1, <1>2, <1>4, <1>5, <1>6

LEMMA CancelKeeps ==
  ASSUME BatchInv, NEW b \in Batch, CancelBatch(b)
  PROVE  BatchInv' /\ KeepsEnds /\ StartsOnce
  <1> DEFINE old == batch[b]
             r == [old EXCEPT !.cancel = TRUE]
             task == [pc |-> "jobs", jobs |-> {item[c].link : c \in ItemsOf(b)} \ {NoOne}]
  <1>1. /\ old.status = "ACTIVE" /\ UNCHANGED <<admissionVars, batchLoop>>
        /\ batch' = [batch EXCEPT ![b].cancel = TRUE] /\ item' = Skipped(item, Pending(b))
        /\ cancelling' = [cancelling EXCEPT ![b] = task]
    BY DEF CancelBatch
  <1>2. old \in BatchRow /\ batch' = [batch EXCEPT ![b] = r]
    BY <1>1, BatchFacts
  <1>3. task \in CancelTask /\ task.pc = "jobs"
    BY BatchFacts DEF CancelTask, BatchItem
  <1> HIDE DEF old, task
  <1>4. r \in BatchRow /\ r.status = old.status /\ r.size = old.size /\ r.cancel = TRUE
    BY <1>2 DEF BatchRow
  <1> HIDE DEF r
  <1>5. ASSUME NEW c \in Confirmation
        PROVE  /\ item'[c] \in BatchItem /\ item'[c].link = item[c].link
               /\ item[c].status # "NONE" => item'[c].status # "NONE"
               /\ c \notin ItemsOf(b) => item'[c] = item[c]
    <2>1. item[c] \in BatchItem
      BY BatchFacts
    <2>2. CASE c \in Pending(b)
      <3> DEFINE was == item[c]
      <3>1. item'[c] = [was EXCEPT !.status = "SKIPPED", !.code = "lasting"] /\ c \in ItemsOf(b)
        BY <1>1, <2>2 DEF Skipped, Pending
      <3>2. was \in BatchItem
        BY <2>1
      <3> HIDE DEF was
      <3>3. item'[c] \in BatchItem /\ item'[c].link = was.link /\ item'[c].status = "SKIPPED"
        BY <3>1, <3>2 DEF BatchItem
      <3> QED BY <3>1, <3>3 DEF was
    <2>3. CASE c \notin Pending(b)
      <3>1. item'[c] = item[c]
        BY <1>1, <2>3 DEF Skipped
      <3> QED BY <2>1, <3>1
    <2> QED BY <2>2, <2>3
  <1>6. item' = [c \in Confirmation |-> item'[c]]
    BY <1>1 DEF Skipped
  <1>7. UNCHANGED admissionVars /\ r.size = batch[b].size /\ r.status = batch[b].status
    BY <1>1, <1>4 DEF old
  <1>8. /\ batch' \in [Batch -> BatchRow] /\ item' \in [Confirmation -> BatchItem]
        /\ batch'[b] = r /\ \A d \in Batch : d # b => batch'[d] = batch[d]
        /\ SnapshotsSound'
        /\ \A d \in Batch : d # b => \A c \in ItemsOf(d) : item'[c] = item[c]
    BY <1>2, <1>4, <1>5, <1>6, <1>7, ItemsKeep
  <1>9. /\ cancelling' \in [Batch -> CancelTask]
        /\ \A d \in Batch : d # b => cancelling'[d] = cancelling[d]
    BY <1>1, <1>3, BatchFacts
  <1>10. BatchesTyped'
    BY <1>1, <1>8, <1>9, BatchFacts DEF BatchesTyped
  <1>11. CancelSound'
    BY <1>1, <1>4, <1>8, <1>9, BatchFacts DEF CancelSound, old
  <1>12. \A d \in Batch : batch'[d].status = batch[d].status /\ batch'[d].size = batch[d].size
    BY <1>7, <1>8
  <1>13. \A s \in Submitter : LoopSound(s)'
    BY <1>1, <1>12, LoopFacts, LoopStays
  <1>14. \A d \in Batch : batch[d].status \in Finished => d # b
    BY <1>1 DEF Finished, old
  <1>15. AdmInv' /\ KeepsEnds /\ StartsOnce
    BY <1>7, AdmissionRestsKeep
  <1> QED BY <1>8, <1>10, <1>11, <1>12, <1>13, <1>14, <1>15, NothingFinishes

-----------------------------------------------------------------------------
(* Reconciliation.                                                         *)

(* What reconcile makes of an item.                                        *)
LEMMA ItemReconciled ==
  ASSUME BatchInv, NEW b \in Batch, NEW c \in Confirmation
  PROVE  LET new == ReconciledItems(b)[c] IN
         /\ new \in BatchItem /\ new.link = item[c].link
         /\ item[c].status # "NONE" => new.status # "NONE"
         /\ c \notin ItemsOf(b) => new = item[c]
         /\ item[c].link = NoOne /\ item[c].status \notin {"PENDING", "ADMITTED"} =>
              new.status = item[c].status
  <1> DEFINE was == item[c]
             found == Recovered(b)[c]
             open == {d \in ItemsOf(b) : Recovered(b)[d].status = "PENDING"}
             kept == (IF batch[b].cancel THEN Skipped(Recovered(b), open) ELSE Recovered(b))[c]
             new == ReconciledItems(b)[c]
  <1>1. was \in BatchItem
    BY BatchFacts
  <1>2. CASE c \notin ItemsOf(b)
    <2>1. new = was
      BY <1>2 DEF ReconciledItems
    <2> QED BY <1>1, <1>2, <2>1
  <1>3. CASE c \in ItemsOf(b)
    <2>1. /\ found \in BatchItem /\ found.link = was.link
          /\ found.status = IF was.status = "ADMITTED" /\ was.link = NoOne THEN "PENDING"
                            ELSE was.status
      <3>1. CASE c \in Orphans(b)
        <4>1. found = [was EXCEPT !.status = "PENDING"]
          BY <3>1 DEF Recovered
        <4>2. was.status = "ADMITTED" /\ was.link = NoOne
          BY <3>1 DEF Orphans
        <4> HIDE DEF was, found
        <4> QED BY <1>1, <4>1, <4>2 DEF BatchItem
      <3>2. CASE c \notin Orphans(b)
        <4>1. found = was
          BY <3>2 DEF Recovered
        <4>2. ~(was.status = "ADMITTED" /\ was.link = NoOne)
          BY <1>3, <3>2 DEF Orphans
        <4> QED BY <1>1, <4>1, <4>2
      <3> QED BY <3>1, <3>2
    <2>2. /\ kept = found \/ (c \in open /\ kept = [found EXCEPT !.status = "SKIPPED", !.code = "lasting"])
          /\ c \in open => found.status = "PENDING"
      BY DEF Skipped, Recovered
    <2>3. new = CopiedJob(kept)
      BY <1>3 DEF ReconciledItems
    <2> HIDE DEF found, kept, open
    <2>4. /\ kept \in BatchItem /\ kept.link = was.link
          /\ kept.status # found.status => kept.status = "SKIPPED" /\ found.status = "PENDING"
      <3>1. CASE kept = found
        BY <2>1, <3>1
      <3>2. CASE c \in open /\ kept = [found EXCEPT !.status = "SKIPPED", !.code = "lasting"]
        BY <2>1, <2>2, <3>2 DEF BatchItem
      <3> QED BY <2>2, <3>1, <3>2
    <2>5. /\ kept.link = NoOne => new = kept
          /\ new = kept \/ new = [kept EXCEPT !.status = "FAILED", !.code = "passing"]
                        \/ new = [kept EXCEPT !.status = "SKIPPED", !.code = "lasting"]
      BY <2>3 DEF CopiedJob
    <2>6. new \in BatchItem /\ new.link = kept.link /\ new.status \in {kept.status, "FAILED", "SKIPPED"}
      <3> HIDE DEF new
      <3> QED BY <2>4, <2>5 DEF BatchItem
    <2> HIDE DEF new
    <2>7. was.status # "NONE" => new.status # "NONE"
      BY <2>1, <2>4, <2>6
    <2>8. was.link = NoOne /\ was.status \notin {"PENDING", "ADMITTED"} => new.status = was.status
      BY <2>1, <2>4, <2>5
    <2> QED BY <1>3, <2>4, <2>6, <2>7, <2>8 DEF new, was
  <1> QED BY <1>2, <1>3

(* A batch that reconcile finishes has nothing under way, and the status   *)
(* it gets says what its items came to.                                    *)
LEMMA AggregateIsTold ==
  ASSUME BatchInv, NEW b \in Batch, batch[b].status # "NONE", batch[b].status \notin Finished,
         UNCHANGED life,
         item' \in [Confirmation -> BatchItem],
         \A c \in ItemsOf(b) : item'[c].status # "NONE" /\ item'[c].link = item[c].link,
         batch'[b].status = Aggregate(b, item'), batch'[b].size = batch[b].size
  PROVE  OverAsTold(b)'
  <1> DEFINE all == ItemsOf(b)
             C(c) == Counted(item'[c])
             ended == {C(c) : c \in all}
             good == {c \in all : C(c) = "SUCCEEDED"}
  <1>1. ItemsOf(b)' = all /\ all \subseteq Confirmation
    BY BatchFacts DEF ItemsOf
  <1>2. \A c \in all : Counted(item[c])' = C(c)
    BY <1>1 DEF Counted
  <1>3. Ends(b)' = ended
    BY <1>1, <1>2 DEF Ends
  <1>4. \E c \in all : TRUE
    <2>1. batch[b].size >= 1 /\ batch[b].size \in Nat
      BY BatchFacts DEF SnapshotsSound, BatchRow
    <2>2. 1 \in 1 .. batch[b].size
      BY <2>1
    <2> QED BY <2>2 DEF ItemsOf
  <1>5. \A c \in all : C(c) \in Unfinished \cup EndedItem
    <2> SUFFICES ASSUME NEW c \in all PROVE C(c) \in Unfinished \cup EndedItem
      OBVIOUS
    <2>1. item'[c] \in BatchItem /\ item'[c].status # "NONE" /\ item'[c].link = item[c].link
          /\ c \in Confirmation
      BY <1>1
    <2>2. CASE item'[c].link = NoOne
      BY <2>1, <2>2 DEF Counted, BatchItem, Unfinished, EndedItem
    <2>3. CASE item'[c].link # NoOne
      <3>1. item[c].link \in Confirmation /\ Exists(item[c].link)
        BY <2>1, <2>3, BatchFacts DEF SnapshotsSound, BatchItem
      <3>2. life[item[c].link] \in LifeRow /\ life[item[c].link].status # "NONE"
        BY <3>1, BatchFacts DEF AdmInv, LifeInv, LifeTypeOK, Exists
      <3> QED BY <2>1, <2>3, <3>2
              DEF Counted, LifeRow, JobStatus, LeasedJob, EndedJob, Unfinished, EndedItem
    <2> QED BY <2>2, <2>3
  <1>6. batch'[b].status = IF \E c \in all : C(c) \in Unfinished THEN batch[b].status
                           ELSE IF batch[b].cancel THEN "CANCELLED"
                           ELSE IF good = all THEN "COMPLETED"
                           ELSE IF good # {} THEN "PARTIAL"
                           ELSE "FAILED"
    BY DEF Aggregate
  <1> SUFFICES ASSUME batch'[b].status \in Finished
               PROVE  /\ ended \subseteq EndedItem
                      /\ batch'[b].status = "COMPLETED" => ended = {"SUCCEEDED"}
                      /\ batch'[b].status = "PARTIAL" => "SUCCEEDED" \in ended /\ ended # {"SUCCEEDED"}
                      /\ batch'[b].status = "FAILED" => "SUCCEEDED" \notin ended
    BY <1>3 DEF OverAsTold, Finished
  <1> HIDE DEF C, all
  <1>7. \A c \in all : C(c) \notin Unfinished
    BY <1>6
  <1>8. ended \subseteq EndedItem
    BY <1>5, <1>7
  <1>9. batch'[b].status = IF good = all THEN "COMPLETED" ELSE IF good # {} THEN "PARTIAL" ELSE "FAILED"
    BY <1>6, <1>7 DEF Finished
  <1>10. CASE good = all
    <2>1. \A c \in all : C(c) = "SUCCEEDED"
      BY <1>10
    <2>2. ended = {"SUCCEEDED"}
      BY <1>4, <2>1
    <2> QED BY <1>8, <1>9, <1>10, <2>2
  <1>11. CASE good # all /\ good # {}
    <2>1. \E c \in all : C(c) = "SUCCEEDED"
      BY <1>11
    <2>2. \E c \in all : C(c) # "SUCCEEDED"
      BY <1>11
    <2> QED BY <1>8, <1>9, <1>11, <2>1, <2>2
  <1>12. CASE good # all /\ good = {}
    BY <1>8, <1>9, <1>12
  <1> QED BY <1>10, <1>11, <1>12

(* What the reconciliation of a cancelled batch writes.                    *)
LEMMA ReconcileMoves ==
  ASSUME BatchInv, NEW b \in Batch, Reconcile(b), UNCHANGED admissionVars, batch[b].status # "NONE"
  PROVE  /\ batch' \in [Batch -> BatchRow] /\ item' \in [Confirmation -> BatchItem]
         /\ SnapshotsSound' /\ ClosedBatchIsOver'
         /\ \A d \in Batch : /\ d # b => batch'[d] = batch[d]
                             /\ batch'[d].size = batch[d].size /\ ItemsOf(d)' = ItemsOf(d)
         /\ batch'[b].cancel = batch[b].cancel
         /\ \/ batch'[b].status = batch[b].status
            \/ /\ batch[b].status = "ACTIVE"
               /\ batch'[b].status \in Finished \cup {"CANCELLED"}
               /\ batch[b].cancel => batch'[b].status = "CANCELLED"
  <1> DEFINE rows == ReconciledItems(b)
             old == batch[b]
             to == IF old.status \in Closed THEN old.status ELSE Aggregate(b, rows)
             r == [old EXCEPT !.status = to]
  <1>1. /\ item' = rows /\ MarkStatus(b, Aggregate(b, rows)) /\ old \in BatchRow
        /\ rows = [c \in Confirmation |-> rows[c]]
    BY BatchFacts DEF Reconcile, ReconciledItems
  <1>2. to \in {old.status} \cup Closed
    BY DEF Aggregate, Closed
  <1>3. \/ to = old.status
        \/ /\ old.status = "ACTIVE" /\ to \in Finished \cup {"CANCELLED"}
           /\ old.cancel => to = "CANCELLED"
    <2>1. old.status \in {"ACTIVE"} \cup Closed
      BY <1>1 DEF BatchRow
    <2> QED BY <2>1 DEF Aggregate, Finished
  <1> HIDE DEF rows
  <1>4. batch' = [batch EXCEPT ![b] = r]
    <2>1. CASE old.status \in Closed
      <3>1. r = old
        <4>1. to = old.status
          BY <2>1
        <4> HIDE DEF old, to
        <4> QED BY <1>1, <4>1 DEF BatchRow
      <3> HIDE DEF r
      <3> QED BY <1>1, <2>1, <3>1, BatchFacts DEF MarkStatus
    <2>2. CASE old.status \notin Closed
      BY <1>1, <2>2, BatchFacts DEF MarkStatus
    <2> QED BY <2>1, <2>2
  <1> HIDE DEF to
  <1>5. r \in BatchRow /\ r.status = to /\ r.size = old.size /\ r.cancel = old.cancel
    <2> HIDE DEF old
    <2> QED BY <1>1, <1>2 DEF BatchRow
  <1> HIDE DEF r
  <1>6. ASSUME NEW c \in Confirmation
        PROVE  /\ item'[c] \in BatchItem /\ item'[c].link = item[c].link
               /\ item[c].status # "NONE" => item'[c].status # "NONE"
               /\ c \notin ItemsOf(b) => item'[c] = item[c]
               /\ item[c].link = NoOne /\ item[c].status \notin {"PENDING", "ADMITTED"} =>
                    item'[c].status = item[c].status
    BY <1>1, ItemReconciled DEF rows
  <1>7. r.status # "NONE" /\ r.size = batch[b].size
    BY <1>2, <1>5 DEF Closed
  <1>8. item' = [c \in Confirmation |-> item'[c]]
    BY <1>1
  <1>9. /\ batch' \in [Batch -> BatchRow] /\ item' \in [Confirmation -> BatchItem]
        /\ batch'[b] = r /\ \A d \in Batch : d # b => batch'[d] = batch[d]
        /\ \A d \in Batch : ItemsOf(d)' = ItemsOf(d)
        /\ SnapshotsSound'
        /\ \A d \in Batch : d # b => \A c \in ItemsOf(d) : item'[c] = item[c]
    BY <1>4, <1>5, <1>6, <1>7, <1>8, ItemsKeep
  <1>10. KeepsEnds
    BY AdmissionRestsKeep
  <1>11. OverAsTold(b)'
    <2>1. CASE old.status \in Finished
      <3>1. batch'[b].status = batch[b].status
        BY <1>3, <1>5, <1>9, <2>1 DEF Finished
      <3>2. ASSUME NEW c \in ItemsOf(b)
            PROVE  item'[c].link = item[c].link /\
                   (item[c].link = NoOne => item'[c].status = item[c].status)
        <4>1. c \in Confirmation
          BY BatchFacts
        <4>2. Counted(item[c]) \in EndedItem
          BY <2>1, ClosedIsTold DEF BatchInv, OverAsTold, Ends
        <4>3. item[c].link = NoOne => item[c].status \notin {"PENDING", "ADMITTED"}
          BY <4>2 DEF Counted, EndedItem
        <4> QED BY <1>6, <4>1, <4>3
      <3> QED BY <1>7, <1>9, <1>10, <2>1, <3>1, <3>2, FinishedStays
    <2>2. CASE old.status \notin Finished
      <3>1. CASE to = old.status
        BY <1>5, <1>9, <2>2, <3>1 DEF OverAsTold, Finished
      <3>2. CASE to # old.status
        <4>1. to = Aggregate(b, item')
          BY <1>1, <3>2 DEF to
        <4>2. batch'[b].status = Aggregate(b, item') /\ batch'[b].size = batch[b].size
          BY <1>5, <1>7, <1>9, <4>1
        <4>3. \A c \in ItemsOf(b) : item'[c].status # "NONE" /\ item'[c].link = item[c].link
          BY <1>6, BatchFacts DEF SnapshotsSound
        <4>4. UNCHANGED life
          BY DEF admissionVars
        <4> QED BY <1>9, <2>2, <4>2, <4>3, <4>4, AggregateIsTold
      <3> QED BY <3>1, <3>2
    <2> QED BY <2>1, <2>2
  <1>12. ASSUME NEW d \in Batch, d # b PROVE OverAsTold(d)'
    <2>1. CASE batch[d].status \in Finished
      BY <1>9, <1>10, <1>12, <2>1, FinishedStays
    <2>2. CASE batch[d].status \notin Finished
      BY <1>9, <1>12, <2>2 DEF OverAsTold, Finished
    <2> QED BY <2>1, <2>2
  <1>13. ClosedBatchIsOver'
    BY <1>11, <1>12, ClosedIsToldNext
  <1>14. \A d \in Batch : batch'[d].size = batch[d].size
    BY <1>7, <1>9
  <1> QED BY <1>3, <1>5, <1>9, <1>13, <1>14 DEF old

LEMMA ReconcileCancelledKeeps ==
  ASSUME BatchInv, NEW b \in Batch, ReconcileCancelled(b)
  PROVE  BatchInv' /\ KeepsEnds /\ StartsOnce
  <1>1. /\ cancelling[b].pc = "jobs" /\ Reconcile(b) /\ UNCHANGED <<admissionVars, batchLoop>>
        /\ cancelling' = [cancelling EXCEPT ![b] = NoCancel]
    BY DEF ReconcileCancelled
  <1>2. batch[b].status # "NONE" /\ batch[b].cancel = TRUE
    BY <1>1, BatchFacts DEF CancelSound
  <1>3. UNCHANGED admissionVars
    BY <1>1
  <1>4. /\ batch' \in [Batch -> BatchRow] /\ item' \in [Confirmation -> BatchItem]
        /\ SnapshotsSound' /\ ClosedBatchIsOver'
        /\ \A d \in Batch : /\ d # b => batch'[d] = batch[d]
                            /\ batch'[d].size = batch[d].size
        /\ batch'[b].cancel = batch[b].cancel
        /\ batch'[b].status \in {batch[b].status, "CANCELLED"}
    BY <1>1, <1>2, <1>3, ReconcileMoves
  <1>5. NoCancel \in CancelTask
    BY DEF NoCancel, CancelTask
  <1>6. /\ cancelling' \in [Batch -> CancelTask]
        /\ \A d \in Batch : d # b => cancelling'[d] = cancelling[d]
    BY <1>1, <1>5, BatchFacts
  <1>7. BatchesTyped'
    BY <1>1, <1>4, <1>6, BatchFacts DEF BatchesTyped
  <1>8. CancelSound'
    BY <1>2, <1>4, <1>6, BatchFacts DEF CancelSound
  <1>9. \A d \in Batch : batch[d].status \notin Finished \cup {"NONE"} =>
          batch'[d].status \notin Finished \cup {"NONE"}
    BY <1>4 DEF Finished
  <1>10. \A s \in Submitter : LoopSound(s)'
    BY <1>1, <1>4, <1>9, LoopFacts, LoopStays
  <1>11. AdmInv' /\ KeepsEnds /\ StartsOnce
    BY <1>3, AdmissionRestsKeep
  <1> QED BY <1>4, <1>7, <1>8, <1>10, <1>11 DEF BatchInv

LEMMA BootKeeps ==
  ASSUME BatchInv, NEW b \in Batch, BootReconcile(b), batch[b].status # "NONE"
  PROVE  BatchInv' /\ KeepsEnds /\ StartsOnce
  <1>1. /\ \A s \in Submitter : batchLoop[s] = NoLoop
        /\ Reconcile(b) /\ UNCHANGED <<admissionVars, cancelling>>
    BY DEF BootReconcile
  <1>2. PICK s \in Submitter :
          IF batch'[b].status = "ACTIVE" /\ ~batch[b].cancel
          THEN LoopOver(s, b, ResumeTarget(b), TRUE) ELSE UNCHANGED batchLoop
    BY DEF BootReconcile
  <1>3. UNCHANGED admissionVars
    BY <1>1
  <1>4. /\ batch' \in [Batch -> BatchRow] /\ item' \in [Confirmation -> BatchItem]
        /\ SnapshotsSound' /\ ClosedBatchIsOver'
        /\ \A d \in Batch : /\ d # b => batch'[d] = batch[d]
                            /\ batch'[d].size = batch[d].size /\ ItemsOf(d)' = ItemsOf(d)
        /\ batch'[b].cancel = batch[b].cancel
        /\ \/ batch'[b].status = batch[b].status
           \/ batch[b].status = "ACTIVE" /\ batch'[b].status \in Finished \cup {"CANCELLED"}
    BY <1>1, <1>3, ReconcileMoves
  <1>5. batchLoop' \in [Submitter -> LoopRow] /\ \A y \in Submitter : LoopSound(y)'
    <2>1. CASE UNCHANGED batchLoop
      <3>1. \A y \in Submitter : LoopSound(y)'
        BY <1>1, <2>1, NoLoopTyped DEF LoopSound
      <3> QED BY <2>1, <3>1, BatchFacts
    <2>2. CASE batch'[b].status = "ACTIVE" /\ LoopOver(s, b, ResumeTarget(b), TRUE)
      <3> DEFINE m == ResumeTarget(b)
      <3>1. m \in Message
        BY BatchFacts, BatchAssumption DEF ResumeTarget, BatchRow
      <3>2. batch[b].status = "ACTIVE" /\ TRUE \in BOOLEAN
        BY <1>4, <2>2 DEF Finished
      <3>3. batch[b].status \notin Finished \cup {"NONE"} /\ b # NoOne
        BY <3>2, BatchAssumption DEF Finished
      <3>4. LoopOver(s, b, m, TRUE)
        BY <2>2
      <3> HIDE DEF m
      <3>5. /\ batchLoop' \in [Submitter -> LoopRow]
            /\ \A y \in Submitter : y # s => batchLoop'[y] = batchLoop[y]
            /\ batchLoop'[s].batch = b /\ batchLoop'[s].msg = m
            /\ \A i \in 1 .. Len(batchLoop'[s].todo) : batchLoop'[s].todo[i] \in ItemsOf(b)
        BY <3>1, <3>2, <3>3, <3>4, LoopBegins
      <3>6. \A y \in Submitter : y # s => LoopSound(y)'
        BY <1>1, <3>5, NoLoopTyped DEF LoopSound
      <3>7. LoopSound(s)'
        BY <1>4, <2>2, <3>1, <3>3, <3>5 DEF LoopSound, Finished
      <3> QED BY <3>5, <3>6, <3>7
    <2> QED BY <1>2, <2>1, <2>2
  <1>6. BatchesTyped'
    BY <1>1, <1>4, <1>5, BatchFacts DEF BatchesTyped
  <1>7. CancelSound'
    BY <1>1, <1>4, BatchFacts DEF CancelSound, Finished
  <1>8. AdmInv' /\ KeepsEnds /\ StartsOnce
    BY <1>3, AdmissionRestsKeep
  <1> QED BY <1>4, <1>5, <1>6, <1>7, <1>8 DEF BatchInv

-----------------------------------------------------------------------------
(* Startup: what it has still to look at are batches that exist.           *)

BootSound ==
  /\ booting \in Seq(Batch)
  /\ \A i \in 1 .. Len(booting) : batch[booting[i]].status # "NONE"

BatchesStay == \A b \in Batch : batch[b].status # "NONE" => batch'[b].status # "NONE"

LEMMA BootStays ==
  ASSUME BootSound, BatchesStay, UNCHANGED booting
  PROVE  BootSound'
  <1>1. \A i \in 1 .. Len(booting) : booting[i] \in Batch
    BY DEF BootSound
  <1> QED BY <1>1 DEF BootSound, BatchesStay

LEMMA OneBatchStays ==
  ASSUME BatchInv, NEW b \in Batch, NEW row,
         batch' = [batch EXCEPT ![b] = row] \/ batch' = batch, row.status # "NONE"
  PROVE  BatchesStay
  BY BatchFacts DEF BatchesStay

LEMMA BootKeepsSound ==
  ASSUME BatchInv, BootSound, BatchNext
  PROVE  BootSound'
  <1>1. CASE UNCHANGED <<batch, booting>>
    BY <1>1, BootStays DEF BatchesStay
  <1>2. ASSUME NEW b \in Batch, CreateBatch(b) \/ RetryFailed(b) PROVE BootSound'
    <2>1. UNCHANGED booting /\ \E tracks :
            batch' = [batch EXCEPT ![b] = [NoBatch EXCEPT !.status = "ACTIVE", !.size = Len(tracks)]]
      BY <1>2 DEF CreateBatch, RetryFailed, Snapshot
    <2>2. PICK tracks :
            batch' = [batch EXCEPT ![b] = [NoBatch EXCEPT !.status = "ACTIVE", !.size = Len(tracks)]]
      BY <2>1
    <2> DEFINE r == [NoBatch EXCEPT !.status = "ACTIVE", !.size = Len(tracks)]
    <2>3. r.status # "NONE" /\ batch' = [batch EXCEPT ![b] = r]
      BY <2>2 DEF NoBatch
    <2> HIDE DEF r
    <2> QED BY <2>1, <2>3, OneBatchStays, BootStays
  <1>3. ASSUME NEW b \in Batch, CancelBatch(b) PROVE BootSound'
    <2> DEFINE r == [batch[b] EXCEPT !.cancel = TRUE]
    <2>1. UNCHANGED booting /\ batch' = [batch EXCEPT ![b] = r] /\ batch[b].status = "ACTIVE"
          /\ batch[b] \in BatchRow
      BY <1>3, BatchFacts DEF CancelBatch
    <2>2. r.status # "NONE"
      BY <2>1 DEF BatchRow
    <2> HIDE DEF r
    <2> QED BY <2>1, <2>2, OneBatchStays, BootStays
  <1>4. ASSUME NEW s \in Submitter, EndLoop(s) PROVE BootSound'
    <2> DEFINE b == batchLoop[s].batch
               r == [batch[b] EXCEPT !.parent = CardSent[b]]
    <2>1. UNCHANGED booting /\ b # NoOne /\ (UNCHANGED batch \/ batch' = [batch EXCEPT ![b].parent = CardSent[b]])
      BY <1>4 DEF EndLoop
    <2>2. b \in Batch /\ batch[b].status # "NONE"
      BY <2>1, LoopFacts
    <2>3. batch[b] \in BatchRow /\ (batch' = [batch EXCEPT ![b] = r] \/ batch' = batch)
      BY <2>1, <2>2, BatchFacts
    <2>4. r.status # "NONE"
      BY <2>2, <2>3 DEF BatchRow
    <2> HIDE DEF r
    <2> QED BY <2>1, <2>2, <2>3, <2>4, OneBatchStays, BootStays
  <1>5. ASSUME NEW b \in Batch, ReconcileCancelled(b) PROVE BootSound'
    <2>1. Reconcile(b) /\ UNCHANGED admissionVars /\ UNCHANGED booting /\ batch[b].status # "NONE"
      BY <1>5, BatchFacts DEF ReconcileCancelled, CancelSound
    <2>2. BatchesStay
      BY <2>1, ReconcileMoves DEF BatchesStay, Finished
    <2> QED BY <2>1, <2>2, BootStays
  <1>6. ASSUME NEW b \in Batch, BootReconcile(b) PROVE BootSound'
    <2>1. /\ Reconcile(b) /\ UNCHANGED admissionVars /\ booting # <<>> /\ Head(booting) = b
          /\ booting' = Tail(booting) /\ booting \in Seq(Batch)
      BY <1>6 DEF BootReconcile, BootSound
    <2>2. batch[b].status # "NONE"
      BY <2>1 DEF BootSound
    <2>3. BatchesStay
      BY <2>1, <2>2, ReconcileMoves DEF BatchesStay, Finished
    <2>4. /\ booting' \in Seq(Batch)
          /\ \A i \in 1 .. Len(booting') : /\ booting'[i] = booting[i + 1] /\ i + 1 \in 1 .. Len(booting)
                                           /\ booting[i + 1] \in Batch
      BY <2>1
    <2> QED BY <2>3, <2>4 DEF BootSound, BatchesStay
  <1>7. CASE BatchRestart
    <2>1. UNCHANGED batch /\ booting' \in [1 .. Cardinality(ActiveBatches) -> ActiveBatches]
      BY <1>7 DEF BatchRestart, InSomeOrder
    <2>2. ActiveBatches \subseteq Batch /\ \A b \in ActiveBatches : batch[b].status = "ACTIVE"
      BY DEF ActiveBatches
    <2>3. Cardinality(ActiveBatches) \in Nat
      BY <2>2, BatchAssumption, FS_Subset, FS_CardinalityType
    <2>4. /\ booting' \in Seq(Batch)
          /\ \A i \in 1 .. Len(booting') : booting'[i] \in ActiveBatches
      BY <2>1, <2>2, <2>3
    <2> QED BY <2>1, <2>2, <2>4 DEF BootSound
  <1>8. (\/ \E b \in Batch, c \in Confirmation : CancelChild(b, c)
         \/ \E s \in Submitter : \/ \E b \in Batch : StartLoop(s, b)
                                 \/ ClaimItem(s) \/ ItemFails(s) \/ ItemAdmitted(s)
         \/ Around) => UNCHANGED <<batch, booting>>
    BY DEF CancelChild, StartLoop, ClaimItem, ItemFails, ItemAdmitted, Around
  <1> QED BY <1>1, <1>2, <1>3, <1>4, <1>5, <1>6, <1>7, <1>8 DEF BatchNext

BatchSafe == BatchInv /\ BootSound

(* The initial states.                                                     *)
LEMMA BatchStart == ASSUME BatchInit PROVE BatchSafe
  <1>1. AdmInv
    BY AdmissionStart DEF BatchInit
  <1>2. NoBatch \in BatchRow /\ NoBatch.status = "NONE" /\ NoBatch.size = 0
    BY DEF NoBatch, BatchRow
  <1>3. NoItem \in BatchItem /\ NoItem.link = NoOne
    BY DEF NoItem, BatchItem
  <1>4. NoCancel \in CancelTask /\ NoCancel.pc = "idle"
    BY DEF NoCancel, CancelTask
  <1>5. BatchesTyped
    BY <1>2, <1>3, <1>4, NoLoopTyped DEF BatchInit, BatchesTyped
  <1>6. SnapshotsSound
    <2>1. \A b \in Batch : batch[b].status = "NONE" /\ batch[b].size <= Len(ChildOf[b])
      <3>1. \A b \in Batch : Len(ChildOf[b]) \in Nat
        BY BatchAssumption
      <3> QED BY <1>2, <3>1 DEF BatchInit
    <2> QED BY <1>3, <2>1 DEF BatchInit, SnapshotsSound
  <1>7. \A s \in Submitter : LoopSound(s)
    BY NoLoopTyped DEF BatchInit, LoopSound
  <1>8. CancelSound
    BY <1>4 DEF BatchInit, CancelSound
  <1>9. ClosedBatchIsOver
    BY <1>2, ClosedIsTold DEF BatchInit, OverAsTold, Finished
  <1>10. BootSound
    BY DEF BatchInit, BootSound
  <1> QED BY <1>1, <1>5, <1>6, <1>7, <1>8, <1>9, <1>10 DEF BatchSafe, BatchInv

(* Every step keeps the invariant, and ends what it ends for good.         *)
LEMMA BatchStep ==
  ASSUME BatchSafe, [BatchNext]_batchVars
  PROVE  BatchSafe' /\ [KeepsEnds]_life /\ [StartsOnce]_admissionVars
  <1>1. BatchInv /\ BootSound
    BY DEF BatchSafe
  <1>2. CASE BatchNext
    <2>1. BootSound'
      BY <1>1, <1>2, BootKeepsSound
    <2>2. ASSUME NEW b \in Batch,
                 \/ CreateBatch(b) \/ RetryFailed(b)
                 \/ CancelBatch(b) \/ ReconcileCancelled(b)
                 \/ \E c \in Confirmation : CancelChild(b, c)
          PROVE  BatchInv' /\ KeepsEnds /\ StartsOnce
      BY <1>1, <2>2, CreateKeeps, CancelKeeps, ReconcileCancelledKeeps, CancelChildKeeps
    <2>3. ASSUME NEW b \in Batch, BootReconcile(b)
          PROVE  BatchInv' /\ KeepsEnds /\ StartsOnce
      <3>1. batch[b].status # "NONE"
        BY <1>1, <2>3 DEF BootReconcile, BootSound
      <3> QED BY <1>1, <2>3, <3>1, BootKeeps
    <2>4. ASSUME NEW s \in Submitter,
                 \/ \E b \in Batch : StartLoop(s, b)
                 \/ ClaimItem(s) \/ ItemFails(s) \/ ItemAdmitted(s) \/ EndLoop(s)
          PROVE  BatchInv' /\ KeepsEnds /\ StartsOnce
      BY <1>1, <2>4, StartLoopKeeps, ClaimItemKeeps, ItemFailsKeeps, ItemAdmittedKeeps, EndLoopKeeps
    <2>5. ASSUME Around,
                 \/ \E s \in Submitter : Submit(s)
                 \/ \E w \in Courier : Deliver(w)
                 \/ \E m \in Message : Press(m) \/ RequestLeaseExpires(m)
          PROVE  BatchInv' /\ KeepsEnds /\ StartsOnce
      BY <1>1, <2>5, TrackKeeps
    <2>6. BatchInv' /\ KeepsEnds /\ StartsOnce
      BY <1>1, <1>2, <2>2, <2>3, <2>4, <2>5, RestartKeeps DEF BatchNext
    <2> QED BY <2>1, <2>6 DEF BatchSafe
  <1>3. CASE UNCHANGED batchVars
    <2>1. UNCHANGED admissionVars /\ UNCHANGED <<batch, item, batchLoop, cancelling, booting>>
      BY <1>3 DEF batchVars
    <2>2. AdmInv' /\ KeepsEnds /\ StartsOnce /\ RecordsStay
      BY <1>1, <2>1, AdmissionRestsKeep
    <2>3. BatchInv'
      BY <1>1, <2>1, <2>2, AroundKeeps
    <2>4. BootSound'
      BY <1>1, <2>1 DEF BootSound
    <2> QED BY <2>2, <2>3, <2>4 DEF BatchSafe
  <1> QED BY <1>2, <1>3

(* Whatever admissions, workers, cancellations, restarts and               *)
(* reconciliations were interleaved, a batch that is closed has nothing    *)
(* under way, and its status says what its tracks came to.                 *)
THEOREM BatchesClose == BatchSpec => [](BatchTypeOK /\ ClosedBatchIsOver)
  <1>1. BatchSafe => BatchTypeOK /\ ClosedBatchIsOver
    BY BatchPromises DEF BatchSafe
  <1> QED BY <1>1, BatchStart, BatchStep, PTL DEF BatchSpec
=============================================================================
