------------------------- MODULE DownloadAdmission -------------------------
(***************************************************************************)
(* From a confirmed choice to a delivery request and its lifecycle record, *)
(* and back: DownloadService (confirmations), DownloadTrackUseCase and     *)
(* ExistingDeliverySubmissionService (submission), the request rows of     *)
(* TelegramTrackRequestService, and the observation of the outbox at the   *)
(* end of TelegramDeliveryWorker.process.                                  *)
(*                                                                         *)
(* A submission is a handler task: one step for every transaction, so two  *)
(* submissions, the user's other buttons and the delivery workers run      *)
(* between its steps.  TelegramDelivery models the outbox itself; here a   *)
(* worker takes a request, commits an outcome, reads the status back and   *)
(* reports it.                                                             *)
(***************************************************************************)
EXTENDS DownloadLifecycle

CONSTANTS
  Submitter,      \* handler tasks that submit
  Courier,        \* delivery worker tasks
  Dialog,         \* confirmations a user is shown (the others are batch items)
  CardOf,         \* the message each confirmation is shown on
  MaxClaims       \* deliveries of one request, its max_attempts

ASSUME AdmissionAssumption ==
  /\ Dialog \subseteq Confirmation
  /\ CardOf \in [Confirmation -> Message]
  /\ MaxClaims \in Nat

VARIABLES
  offer,      \* confirmation |-> the selected track of its context, or NoOne
  request,    \* message |-> its telegram_delivery_requests row
  sub,        \* submitter |-> the submission it is running
  courier,    \* courier |-> what its process() call is doing
  preferred   \* the user has chosen a quality before

admissionVars == <<life, offer, request, sub, courier, preferred>>

Waiting == {"AWAITING_QUALITY", "AWAITING_ACTION", "AWAITING_TRACK_QUALITY"}
Over == {"DELIVERED", "FAILED", "CANCELLED"}
RequestStatus == Waiting \cup {"NONE", "QUEUED", "WAITING", "SENDING"} \cup Over

NoRequest == [status |-> "NONE", track |-> NoOne, owner |-> NoOne, claims |-> 0]
NoSub == [pc |-> "idle", conf |-> NoOne, msg |-> NoOne, track |-> NoOne,
          quality |-> FALSE, seen |-> "NONE"]
NoDelivery == [pc |-> "idle", msg |-> NoOne, seen |-> "NONE"]

AdmissionInit ==
  /\ LifeInit
  /\ offer \in [Confirmation -> Title \cup {NoOne}]
  /\ \A c \in Confirmation : (offer[c] = NoOne) <=> (c \notin Dialog)
  /\ request = [m \in Message |-> NoRequest]
  /\ sub = [s \in Submitter |-> NoSub]
  /\ courier = [w \in Courier |-> NoDelivery]
  /\ preferred \in BOOLEAN

-----------------------------------------------------------------------------
(* Confirmation contexts: the user's buttons.                              *)

OwnedConfirmation(c) == offer[c] # NoOne

SelectAlternative(c, tr) ==
  /\ OwnedConfirmation(c) /\ tr # offer[c]
  /\ offer' = [offer EXCEPT ![c] = tr]
  /\ UNCHANGED <<life, request, sub, courier, preferred>>

(* cancel(), the Retry button, and a context whose TTL is over.            *)
DropConfirmation(c) ==
  /\ OwnedConfirmation(c)
  /\ offer' = [offer EXCEPT ![c] = NoOne]
  /\ UNCHANGED <<life, request, sub, courier, preferred>>

Confirm(s, c) ==
  /\ sub[s].pc = "idle"
  /\ OwnedConfirmation(c)
  /\ sub' = [sub EXCEPT ![s] = [NoSub EXCEPT !.pc = "resolve", !.conf = c,
                                             !.msg = CardOf[c], !.track = offer[c]]]
  /\ UNCHANGED <<life, offer, request, courier, preferred>>

-----------------------------------------------------------------------------
(* Submission.                                                             *)

Step(s, pc) == sub' = [sub EXCEPT ![s].pc = pc]
Seen(s, pc, status) == sub' = [sub EXCEPT ![s].pc = pc, ![s].seen = status]

(* An exception leaves the handler; the confirmation stays.                *)
SubmissionFails(s) == Step(s, "failed")

(* resolve_track_id, or the collection item's resolver, on its own.        *)
ResolveTrack(s) ==
  /\ sub[s].pc = "resolve"
  /\ Step(s, "request") \/ SubmissionFails(s)
  /\ UNCHANGED <<life, offer, request, courier, preferred>>

(* request_track_id: the row of this chat and message, or a new one.       *)
NewRequest(tr) ==
  [NoRequest EXCEPT !.track = tr,
                    !.status = IF preferred THEN "AWAITING_ACTION" ELSE "AWAITING_QUALITY"]

RequestTrack(s) ==
  LET m == sub[s].msg
      row == IF request[m].status = "NONE" THEN NewRequest(sub[s].track) ELSE request[m]
  IN /\ sub[s].pc = "request"
     /\ request' = [request EXCEPT ![m] = row]
     /\ Seen(s, IF sub[s].quality THEN "card"
                ELSE IF row.status = "AWAITING_ACTION" THEN "start" ELSE "record", row.status)
     /\ UNCHANGED <<life, offer, courier, preferred>>

(* Mutant: the UPDATE without the status it was read with.                 *)
MovesAnyway(m, from, to) ==
  /\ request[m].status # "NONE"
  /\ request' = [request EXCEPT ![m].status = to]

(* One guarded UPDATE of the request's status.                             *)
Moves(m, from, to) ==
  /\ request[m].status = from
  /\ request' = [request EXCEPT ![m].status = to]

(* start_default_quality; when another handler was first, the status that  *)
(* request_track_id returned is kept.                                      *)
StartDefaultQuality(s) ==
  /\ sub[s].pc = "start"
  /\ \/ Moves(sub[s].msg, "AWAITING_ACTION", "QUEUED") /\ Seen(s, "record", "QUEUED")
     \/ /\ request[sub[s].msg].status # "AWAITING_ACTION"
        /\ Step(s, "record")
        /\ UNCHANGED request
  /\ UNCHANGED <<life, offer, courier, preferred>>

(* _apply_requested_quality: the card is read, then one or two updates are *)
(* made, each in a transaction of its own.                                 *)
ReadCard(s) ==
  /\ sub[s].pc = "card"
  /\ CASE request[sub[s].msg].status = "AWAITING_QUALITY" -> Step(s, "first")
       [] request[sub[s].msg].status = "AWAITING_ACTION" -> Step(s, "open")
       [] OTHER -> SubmissionFails(s)
  /\ UNCHANGED <<life, offer, request, courier, preferred>>

ChooseFirstQuality(s) ==
  /\ sub[s].pc = "first"
  /\ \/ /\ Moves(sub[s].msg, "AWAITING_QUALITY", "QUEUED")
        /\ Seen(s, "record", "QUEUED")
        /\ preferred' = TRUE
     \/ /\ request[sub[s].msg].status # "AWAITING_QUALITY"
        /\ SubmissionFails(s)
        /\ UNCHANGED <<request, preferred>>
  /\ UNCHANGED <<life, offer, courier>>

OpenTrackQuality(s) ==
  /\ sub[s].pc = "open"
  /\ \/ Moves(sub[s].msg, "AWAITING_ACTION", "AWAITING_TRACK_QUALITY") /\ Step(s, "choose")
     \/ /\ request[sub[s].msg].status # "AWAITING_ACTION"
        /\ SubmissionFails(s)
        /\ UNCHANGED request
  /\ UNCHANGED <<life, offer, courier, preferred>>

ChooseTrackQuality(s) ==
  /\ sub[s].pc = "choose"
  /\ \/ Moves(sub[s].msg, "AWAITING_TRACK_QUALITY", "QUEUED") /\ Seen(s, "record", "QUEUED")
     \/ /\ request[sub[s].msg].status # "AWAITING_TRACK_QUALITY"
        /\ SubmissionFails(s)
        /\ UNCHANGED request
  /\ UNCHANGED <<life, offer, courier, preferred>>

(* lifecycle.admit with the status submit() has seen.                      *)
AdmitRecord(s) ==
  LET x == sub[s]
      initial == IF x.seen = "AWAITING_QUALITY" THEN "PENDING" ELSE "QUEUED"
  IN /\ x.pc = "record"
     /\ IF LinkFree(x.conf, x.msg) \/ Exists(x.conf)
        THEN life' = Admitted(x.conf, x.track, x.msg, initial) /\ Step(s, "done")
        ELSE SubmissionFails(s) /\ UNCHANGED life
     /\ UNCHANGED <<offer, request, courier, preferred>>

(* confirm() returns, or the exception reaches the callback's handler.     *)
ConfirmReturns(s) ==
  /\ sub[s].pc \in {"done", "failed"} /\ sub[s].conf \in Dialog
  /\ offer' = IF sub[s].pc = "done" THEN [offer EXCEPT ![sub[s].conf] = NoOne] ELSE offer
  /\ sub' = [sub EXCEPT ![s] = NoSub]
  /\ UNCHANGED <<life, request, courier, preferred>>

Submit(s) ==
  \/ ResolveTrack(s)       \/ RequestTrack(s)     \/ StartDefaultQuality(s)
  \/ ReadCard(s)           \/ ChooseFirstQuality(s)
  \/ OpenTrackQuality(s)   \/ ChooseTrackQuality(s)
  \/ AdmitRecord(s)

-----------------------------------------------------------------------------
(* The buttons of a request's card (its five callbacks).                   *)

FirstQuality(m) == Moves(m, "AWAITING_QUALITY", "QUEUED")
TrackDownload(m) == Moves(m, "AWAITING_ACTION", "QUEUED")
OtherQuality(m) == Moves(m, "AWAITING_ACTION", "AWAITING_TRACK_QUALITY")
TrackQuality(m) == Moves(m, "AWAITING_TRACK_QUALITY", "QUEUED")
TrackQualityBack(m) == Moves(m, "AWAITING_TRACK_QUALITY", "AWAITING_ACTION")

Press(m) ==
  /\ \/ FirstQuality(m) /\ preferred' = TRUE
     \/ /\ \/ TrackDownload(m) \/ OtherQuality(m)
           \/ TrackQuality(m)  \/ TrackQualityBack(m)
        /\ UNCHANGED preferred
  /\ UNCHANGED <<life, offer, sub, courier>>

-----------------------------------------------------------------------------
(* Delivery workers.                                                       *)

ClaimRequest(w, m) ==
  /\ courier[w].pc = "idle"
  /\ request[m].status \in {"QUEUED", "WAITING"} /\ request[m].claims < MaxClaims
  /\ request' = [request EXCEPT ![m].status = "SENDING", ![m].owner = w, ![m].claims = @ + 1]
  /\ courier' = [courier EXCEPT ![w] = [NoDelivery EXCEPT !.pc = "process", !.msg = m]]
  /\ UNCHANGED <<life, offer, sub, preferred>>

(* process() ends by one fenced update; QUEUED is a retry.                 *)
EndStatus(m) == {"DELIVERED", "FAILED", "CANCELLED"}
                  \cup (IF request[m].claims < MaxClaims THEN {"QUEUED", "WAITING"} ELSE {})

ProcessRequest(w) ==
  LET m == courier[w].msg
  IN /\ courier[w].pc = "process"
     /\ IF request[m].status = "SENDING" /\ request[m].owner = w
        THEN \E status \in EndStatus(m) :
               request' = [request EXCEPT ![m].status = status, ![m].owner = NoOne]
        ELSE UNCHANGED request
     /\ courier' = [courier EXCEPT ![w].pc = "look"]
     /\ UNCHANGED <<life, offer, sub, preferred>>

(* Mutant: the worker reports the end it meant to commit.                  *)
LookAtIntent(w) ==
  /\ courier[w].pc = "look"
  /\ \E status \in Over :
       courier' = [courier EXCEPT ![w].pc = "report", ![w].seen = status]
  /\ UNCHANGED <<life, offer, request, sub, preferred>>

(* The finally block: the status is read in one transaction ...            *)
LookBack(w) ==
  /\ courier[w].pc = "look"
  /\ courier' = [courier EXCEPT ![w].pc = "report", ![w].seen = request[courier[w].msg].status]
  /\ UNCHANGED <<life, offer, request, sub, preferred>>

(* ... and reported to the lifecycle in another.                           *)
Report(w) ==
  /\ courier[w].pc = "report"
  /\ life' = Reconciled(courier[w].msg, courier[w].seen)
  /\ courier' = [courier EXCEPT ![w] = NoDelivery]
  /\ UNCHANGED <<offer, request, sub, preferred>>

(* The lease of a claimed request runs out (outbox recover_expired).       *)
RequestLeaseExpires(m) ==
  /\ request[m].status = "SENDING"
  /\ request' = [request EXCEPT ![m].status = IF request[m].claims >= MaxClaims
                                              THEN "FAILED" ELSE "QUEUED",
                                ![m].owner = NoOne]
  /\ UNCHANGED <<life, offer, sub, courier, preferred>>

(* The process stops: tasks and confirmation contexts are gone.            *)
LoseTasks ==
  /\ offer' = [c \in Confirmation |-> NoOne]
  /\ sub' = [s \in Submitter |-> NoSub]
  /\ courier' = [w \in Courier |-> NoDelivery]

Deliver(w) == \/ \E m \in Message : ClaimRequest(w, m)
              \/ ProcessRequest(w) \/ LookBack(w) \/ Report(w)

AdmissionNext ==
  \/ \E c \in Confirmation : \/ \E tr \in Title : SelectAlternative(c, tr)
                             \/ DropConfirmation(c)
  \/ \E s \in Submitter : \/ \E c \in Dialog : Confirm(s, c)
                          \/ Submit(s)
                          \/ ConfirmReturns(s)
  \/ \E w \in Courier : Deliver(w)
  \/ \E m \in Message : Press(m) \/ RequestLeaseExpires(m)
  \/ LoseTasks /\ UNCHANGED <<life, request, preferred>>

AdmissionSpec == AdmissionInit /\ [][AdmissionNext]_admissionVars

-----------------------------------------------------------------------------
(* Properties.                                                             *)

AdmissionTypeOK ==
  /\ LifeTypeOK
  /\ offer \in [Confirmation -> Title \cup {NoOne}]
  /\ request \in [Message -> [status : RequestStatus, track : Title \cup {NoOne},
                              owner : Courier \cup {NoOne}, claims : 0 .. MaxClaims]]
  /\ \A s \in Submitter : sub[s].pc # "idle" => sub[s].msg \in Message
  /\ \A w \in Courier : courier[w].seen \in RequestStatus
  /\ preferred \in BOOLEAN

(* The record never claims an end the delivery request did not have, in    *)
(* whatever order observers report: SUCCEEDED only after a DELIVERED       *)
(* receipt (docs/stage21-download-lifecycle.md), FAILED only of a failed   *)
(* request, CANCELLED only of a cancelled one or at the user's wish.       *)
RecordIsTrue ==
  \A c \in Confirmation :
    LET row == life[c] IN
    row.link # NoOne =>
      /\ row.status = "SUCCEEDED" => request[row.link].status = "DELIVERED"
      /\ row.status = "FAILED" => request[row.link].status = "FAILED"
      /\ row.status = "CANCELLED" => row.cancel \/ request[row.link].status = "CANCELLED"
      /\ row.delivery = "DELIVERED" => request[row.link].status = "DELIVERED"

(* The record of a confirmation names the track its delivery request sends *)
(* (source_reference is what history, replay and the Stage 24 file cache   *)
(* take the file to be).                                                   *)
RecordNamesItsTrack ==
  \A c \in Confirmation :
    life[c].link # NoOne => life[c].track = request[life[c].link].track

StartsOnce ==
  \A m \in Message :
    /\ request[m].status \notin Waiting \cup {"NONE"} => request'[m].status \notin Waiting
    /\ request[m].status \in Over => request'[m].status = request[m].status

(* A request that is under way is never started a second time by a late    *)
(* button or submission, and one that is over stays as it ended.           *)
StartedOnce == [][StartsOnce]_admissionVars
=============================================================================
