--------------------------- MODULE TelegramDelivery ---------------------------
(***************************************************************************)
(* The delivery outbox: app/storage/repositories/telegram_delivery.py (the *)
(* rows), app/services/telegram_delivery.py (the workers),                 *)
(* app/services/delivery.py (preparation) and the two file caches, as far  *)
(* as deliveries use them.  The requests modelled are all for one track    *)
(* and quality profile; they may want different artifacts of it.  Each has *)
(* its lifecycle record, and so a cache key, the same for one artifact.    *)
(*                                                                         *)
(* Downloads and uploads are the promise of SharedResult, with the upload  *)
(* worker's store in the file cache made visible.  One action is one       *)
(* transaction, one answer of Telegram, or one step between two awaits.    *)
(* Backoffs and the order of claims are left to chance.                    *)
(***************************************************************************)
EXTENDS Naturals, FiniteSets

CONSTANTS
  Request,     (* telegram_delivery_requests rows                          *)
  Worker,      (* telegram-delivery-N, the same names in every process     *)
  Fingerprint, (* artifacts of the track and quality profile               *)
  Job,         (* download job ids                                         *)
  NoWorker, NoRequest, NoFingerprint,
  MaxAttempts, (* TELEGRAM_DELIVERY_MAX_ATTEMPTS                           *)
  SplitRetry,  (* may retry_or_fail lose the race between its SELECT and   *)
               (* its UPDATE?                                              *)
  MaxStops     (* bound: how often the process stops or crashes            *)

ASSUME DeliveryAssumption ==
  /\ Job \subseteq Nat \ {0}
  /\ NoWorker \notin Worker /\ NoRequest \notin Request
  /\ NoFingerprint \notin Fingerprint /\ IsFiniteSet(Worker)
  /\ MaxAttempts \in Nat \ {0} /\ MaxStops \in Nat
  /\ SplitRetry \in BOOLEAN

VARIABLES
  flight, (* the job of each artifact's open flight, 0 if there is none    *)
  sub,    (* status of the subscriber a request has on a job               *)
  job,    (* how far a job's work has come, and for which artifact         *)
  cache,  (* telegram_file_cache: status of each artifact's row            *)
  entry,  (* artifacts with a live telegram_artifact_cache entry           *)
  req,    (* telegram_delivery_requests                                    *)
  work,   (* what each delivery worker is doing                            *)
  mode,   (* the process: "up", "stopping" or "down"                       *)
  stops,  (* how often it has stopped; bounded by MaxStops                 *)
  copies, (* history: files a request's chat got; 2 stands for more        *)
  doubt   (* history: requests whose message may be out unrecorded         *)

shared == <<flight, sub, job>>
caches == <<cache, entry>>
process == <<mode, stops>>
history == <<copies, doubt>>
dvars == <<flight, sub, job, cache, entry, req, work, mode, stops, copies, doubt>>

Flights == INSTANCE SharedResult
             WITH Key <- Fingerprint, Group <- Job, current <- flight, result <- sub

Pending == {"QUEUED", "WAITING", "SENDING"}
Settled == {"DELIVERED", "FAILED", "CANCELLED"}

\* Mutant of NewRequest: the status of a card nobody has answered.
NewRequestUnanswered(f) ==
  [status |-> "AWAITING", wants |-> f, attempts |-> 0, owner |-> NoWorker,
   expired |-> FALSE, cached |-> FALSE, job |-> 0, repairs |-> 0]

NewRequest(f) ==
  [status |-> "QUEUED", wants |-> f, attempts |-> 0, owner |-> NoWorker,
   expired |-> FALSE, cached |-> FALSE, job |-> 0, repairs |-> 0]

NoRow == [NewRequest(NoFingerprint) EXCEPT !.status = "NONE"]

\* caught says that an except clause of process() is running.
Idle == [phase |-> "idle", req |-> NoRequest, cached |-> FALSE, job |-> 0,
         repairs |-> 0, caught |-> FALSE]

DeliveryInit ==
  /\ Flights!Init
  /\ job = [j \in Job |-> [stage |-> "NONE", of |-> NoFingerprint]]
  /\ cache = [f \in Fingerprint |-> "NONE"]
  /\ entry = {}
  /\ req = [r \in Request |-> NoRow]
  /\ work = [w \in Worker |-> Idle]
  /\ mode = "up" /\ stops = 0
  /\ copies = [r \in Request |-> 0] /\ doubt = {}

-----------------------------------------------------------------------------
(* The rows.                                                               *)

Released(row, s) ==
  [row EXCEPT !.status = s, !.owner = NoWorker, !.expired = FALSE]

\* Mutant of Recovered: the attempt limit is not looked at.
RecoveredUnbounded(row) ==
  IF row.status = "SENDING" /\ row.expired THEN Released(row, "QUEUED") ELSE row

\* recover_expired
Recovered(row) ==
  IF ~(row.status = "SENDING" /\ row.expired) THEN row
  ELSE Released(row, IF row.attempts >= MaxAttempts THEN "FAILED" ELSE "QUEUED")

\* What claim makes of the row it takes.
Claimed(row, w) ==
  [row EXCEPT !.status = "SENDING", !.owner = w, !.attempts = @ + 1]

Told(j, r) == j # 0 /\ sub[j][r] \in Flights!Result

\* Mutants of Claimable: a waiting request is claimed whatever its job does,
\* or not at all.
ClaimableWaiting(tbl, r) == tbl[r].status \in {"QUEUED", "WAITING"}

ClaimableQueued(tbl, r) == tbl[r].status = "QUEUED"

\* A waiting request is claimed only when its subscriber has been told.
Claimable(tbl, r) ==
  tbl[r].status = "QUEUED" \/ (tbl[r].status = "WAITING" /\ Told(tbl[r].job, r))

\* The fence of every conditional UPDATE.
Owned(w) == LET row == req[work[w].req] IN row.status = "SENDING" /\ row.owner = w

Wanted(w) == req[work[w].req].wants

-----------------------------------------------------------------------------
(* Users, the clock, and the work others do.                               *)

\* A track card is confirmed: the request enters the outbox.
Ask(r, f) ==
  /\ mode # "down" /\ req[r].status = "NONE"
  /\ req' = [req EXCEPT ![r] = NewRequest(f)]
  /\ UNCHANGED <<shared, caches, work, process, history>>

Withdraw(r, f) ==
  /\ Flights!Leave(r, f)
  /\ UNCHANGED <<job, caches, req, work, process, history>>

Unattended(r) == \A w \in Worker : work[w].req # r

\* The clock passes lease_expires_at; nobody renews a delivery lease.
LeaseExpires(r) ==
  /\ req[r].status = "SENDING" /\ ~req[r].expired
  /\ req' = [req EXCEPT ![r].expired = TRUE]
  /\ doubt' = IF Unattended(r) THEN doubt ELSE doubt \cup {r}
  /\ UNCHANGED <<shared, caches, work, process, copies>>

HandOff(j) ==
  /\ mode # "down" /\ job[j].stage = "downloading" /\ flight[job[j].of] = j
  /\ job' = [job EXCEPT ![j].stage = "uploading"]
  /\ UNCHANGED <<flight, sub, caches, req, work, process, history>>

\* The upload worker stores its file, or finds it stored; it does so for a
\* job given up meanwhile too, and again when its success is not committed.
StoreFile(j) ==
  /\ mode # "down"
  /\ \/ job[j].stage = "uploading"
     \/ job[j].stage = "stored" /\ flight[job[j].of] = j
  /\ job' = [job EXCEPT ![j].stage = "stored"]
  /\ cache' = [cache EXCEPT ![job[j].of] = "ACTIVE"]
  /\ UNCHANGED <<flight, sub, entry, req, work, process, history>>

\* Mutant of WorkSucceeds: success without a stored file.
WorkSucceedsEarly(f) ==
  /\ mode # "down" /\ Flights!Finish({f}, [j \in Job |-> "READY"])
  /\ UNCHANGED <<job, caches, req, work, process, history>>

WorkSucceeds(f) ==
  /\ mode # "down" /\ flight[f] # 0 /\ job[flight[f]].stage = "stored"
  /\ Flights!Finish({f}, [j \in Job |-> "READY"])
  /\ UNCHANGED <<job, caches, req, work, process, history>>

WorkFails(f, outcome) ==
  /\ mode # "down"
  /\ Flights!Finish({f}, [j \in Job |-> outcome])
  /\ UNCHANGED <<job, caches, req, work, process, history>>

-----------------------------------------------------------------------------
(* A worker and its request.                                               *)

Goes(w, phase) == work' = [work EXCEPT ![w].phase = phase]

Rests(w) == work' = [work EXCEPT ![w] = Idle]

\* An exception reaches process(): retry_or_fail, retryable or not.
Caught(w, phase) == work' = [work EXCEPT ![w].phase = phase, ![w].caught = TRUE]

\* Where process() goes on with a request, given what its row says.
Route(x) ==
  IF x.cached THEN "checking" ELSE IF x.job # 0 THEN "resolving" ELSE "preparing"

OnlyReq == UNCHANGED <<shared, caches, process, history>>
OnlyWork == UNCHANGED <<shared, caches, req, process, history>>

\* The worker keeps the row as it was when claimed.
TaskOn(r, row, phase) ==
  [phase |-> phase, req |-> r, cached |-> row.cached, job |-> row.job,
   repairs |-> row.repairs, caught |-> FALSE]

\* One transaction recovers expired leases and claims a request.  The first
\* look of process(), _try_artifact_cache's for an entry, is taken with it.
ClaimDelivery(w) ==
  LET rows == [r \in Request |-> Recovered(req[r])]
      ready == {r \in Request : Claimable(rows, r)}
  IN
  /\ mode = "up" /\ work[w].phase = "idle"
  /\ \/ \E r \in ready :
          /\ req' = [rows EXCEPT ![r] = Claimed(rows[r], w)]
          /\ work' = [work EXCEPT ![w] = TaskOn(r, rows[r],
               IF rows[r].wants \in entry THEN "sendingEntry" ELSE Route(rows[r]))]
     \/ ready = {} /\ rows # req /\ req' = rows /\ UNCHANGED work
  /\ OnlyReq

\* prepare(), under BEGIN IMMEDIATE: the cached file, or a place in the
\* flight; a request key already on the job keeps its subscriber.
PrepareFromCache(w) ==
  /\ work[w].phase = "preparing" /\ cache[Wanted(w)] = "ACTIVE"
  /\ work' = [work EXCEPT ![w].phase = "storing", ![w].cached = TRUE]
  /\ OnlyWork

PrepareFlight(w) ==
  LET f == Wanted(w)
      r == work[w].req
      Found(j) == work' = [work EXCEPT ![w].phase = "storing", ![w].job = j]
  IN
  /\ work[w].phase = "preparing" /\ cache[f] # "ACTIVE"
  /\ \/ Flights!Join(r, f) /\ Found(flight[f]) /\ UNCHANGED job
     \/ /\ flight[f] # 0 /\ sub[flight[f]][r] # "NONE"
        /\ Found(flight[f]) /\ UNCHANGED shared
     \/ \E j \in Job :
          /\ job[j].stage = "NONE" /\ Flights!Open(r, f, j) /\ Found(j)
          /\ job' = [job EXCEPT ![j] = [stage |-> "downloading", of |-> f]]
  /\ UNCHANGED <<caches, req, process, history>>

\* set_preparation
StorePreparation(w) ==
  LET x == work[w] IN
  /\ x.phase = "storing"
  /\ req' = IF Owned(w)
            THEN [req EXCEPT ![x.req] =
                   [Released(@, IF x.cached THEN "QUEUED" ELSE "WAITING")
                      EXCEPT !.cached = x.cached, !.job = x.job]]
            ELSE req
  /\ Rests(w) /\ OnlyReq

\* _resolve_subscriber.  READY without a file is an error, and retried.
Resolve(w) ==
  LET x == work[w]
      file == cache[job[x.job].of] = "ACTIVE"
  IN
  /\ x.phase = "resolving"
  /\ \/ sub[x.job][x.req] = "READY" /\ file /\ Goes(w, "attaching")
     \/ sub[x.job][x.req] = "READY" /\ ~file /\ Caught(w, "retrying")
     \/ sub[x.job][x.req] = "CANCELLED" /\ Goes(w, "cancelling")
     \/ sub[x.job][x.req] = "FAILED" /\ Goes(w, "ending")
     \/ sub[x.job][x.req] = "WAITING" /\ Goes(w, "retrying")
  /\ OnlyWork

\* attach_ready_cache, and the row read again, whoever holds it by now.
Attach(w) ==
  LET r == work[w].req
      rows == IF Owned(w) THEN [req EXCEPT ![r].cached = TRUE] ELSE req
      phase == IF rows[r].cached THEN "checking" ELSE "ending"
  IN
  /\ work[w].phase = "attaching"
  /\ req' = rows
  /\ work' = [work EXCEPT ![w] = TaskOn(r, rows[r], phase)]
  /\ OnlyReq

\* _repair gives up on the second time; the reason is not kept.
Repair(x) == IF x.repairs >= 1 THEN "ending" ELSE "invalidating"

CheckFile(w) ==
  /\ work[w].phase = "checking"
  /\ Goes(w, IF cache[Wanted(w)] = "ACTIVE" THEN "sending" ELSE Repair(work[w]))
  /\ OnlyWork

-----------------------------------------------------------------------------
(* What Telegram answers.                                                  *)

Sending == {"sending", "sendingEntry"}

\* Copies after the workers in S got their message out.
MoreCopies(S) == [r \in Request |->
  LET n == copies[r] + Cardinality({w \in S : work[w].req = r})
  IN IF n > 2 THEN 2 ELSE n]

SendSucceeds(w) ==
  /\ work[w].phase \in Sending
  /\ Goes(w, IF work[w].phase = "sending" THEN "sent" ELSE "sentEntry")
  /\ copies' = MoreCopies({w})
  /\ UNCHANGED <<shared, caches, req, process, doubt>>

\* _try_artifact_cache retries in an except clause of its own.
Refused(w, phase) ==
  IF work[w].phase = "sending" THEN Caught(w, phase) ELSE Goes(w, phase)

\* The answer is lost, or the call timed out, after the message went out.
AnswerLost(w) ==
  /\ work[w].phase \in Sending
  /\ Refused(w, "retrying")
  /\ copies' = MoreCopies({w})
  /\ doubt' = doubt \cup {work[w].req}
  /\ UNCHANGED <<shared, caches, req, process>>

SendFails(w) ==
  /\ work[w].phase \in Sending
  /\ Refused(w, "retrying") \/ Refused(w, "failing")
  /\ OnlyWork

\* Telegram rejects the file id.
FileRefused(w) ==
  \/ /\ work[w].phase = "sending"
     /\ Caught(w, Repair(work[w]))
     /\ OnlyWork
  \/ /\ work[w].phase = "sendingEntry"
     /\ entry' = entry \ {Wanted(w)}
     /\ Goes(w, Route(work[w]))
     /\ UNCHANGED <<shared, cache, req, process, history>>

\* Mutants of RecordDelivery: the row goes back to the queue; a file sent
\* from an entry is sent the usual way too.
RecordNothing(w) ==
  /\ work[w].phase \in {"sent", "sentEntry"}
  /\ req' = IF Owned(w) THEN [req EXCEPT ![work[w].req] = Released(@, "QUEUED")] ELSE req
  /\ Rests(w)
  /\ OnlyReq

RecordOnlyFiles(w) ==
  /\ work[w].phase \in {"sent", "sentEntry"}
  /\ IF work[w].phase = "sentEntry" THEN Goes(w, Route(work[w])) /\ UNCHANGED req
     ELSE /\ Rests(w)
          /\ req' = IF Owned(w) THEN [req EXCEPT ![work[w].req] = Released(@, "DELIVERED")]
                    ELSE req
  /\ entry' \in {entry, entry \cup {Wanted(w)}}
  /\ UNCHANGED <<shared, cache, process, history>>

\* delivered; what came out of the file cache then becomes an entry, unless
\* that fails.
RecordDelivery(w) ==
  /\ work[w].phase \in {"sent", "sentEntry"}
  /\ req' = IF Owned(w) THEN [req EXCEPT ![work[w].req] = Released(@, "DELIVERED")] ELSE req
  /\ entry' \in {entry} \cup
       (IF work[w].phase = "sent" /\ Owned(w) THEN {entry \cup {Wanted(w)}} ELSE {})
  /\ Rests(w)
  /\ UNCHANGED <<shared, cache, process, history>>

-----------------------------------------------------------------------------
(* How a claim ends otherwise.                                             *)

\* invalidate, by row id: whatever file the row holds by now.
Invalidate(w) ==
  /\ work[w].phase = "invalidating"
  /\ cache' = [cache EXCEPT ![Wanted(w)] = "INVALID"]
  /\ Goes(w, "scheduling")
  /\ UNCHANGED <<shared, entry, req, process, history>>

\* schedule_repair
ScheduleRepair(w) ==
  /\ work[w].phase = "scheduling"
  /\ req' = IF Owned(w) /\ req[work[w].req].repairs = 0
            THEN [req EXCEPT ![work[w].req] =
                   [Released(@, "QUEUED") EXCEPT !.repairs = 1, !.cached = FALSE, !.job = 0]]
            ELSE req
  /\ Rests(w) /\ OnlyReq

\* Mutant of EndDelivery: the lease is not looked at.
EndUnfenced(w) ==
  /\ work[w].phase \in {"ending", "cancelling"}
  /\ req' = [req EXCEPT ![work[w].req] =
               Released(@, IF work[w].phase = "ending" THEN "FAILED" ELSE "CANCELLED")]
  /\ Rests(w) /\ OnlyReq

\* fail_terminal
EndDelivery(w) ==
  /\ work[w].phase \in {"ending", "cancelling"}
  /\ req' = IF Owned(w)
            THEN [req EXCEPT ![work[w].req] =
                   Released(@, IF work[w].phase = "ending" THEN "FAILED" ELSE "CANCELLED")]
            ELSE req
  /\ Rests(w) /\ OnlyReq

RetryStatus(w) ==
  IF work[w].phase = "retrying" /\ req[work[w].req].attempts < MaxAttempts
  THEN "QUEUED" ELSE "FAILED"

\* Mutant of ReadForRetry: the lease is not looked at.
ReadUnfenced(w) ==
  /\ work[w].phase \in {"retrying", "failing"}
  /\ Goes(w, IF RetryStatus(w) = "QUEUED" THEN "requeue" ELSE "fail")
  /\ OnlyWork

\* retry_or_fail: a SELECT outside any write transaction ...
ReadForRetry(w) ==
  /\ work[w].phase \in {"retrying", "failing"}
  /\ IF Owned(w) THEN Goes(w, IF RetryStatus(w) = "QUEUED" THEN "requeue" ELSE "fail")
     ELSE Rests(w)
  /\ OnlyWork

\* ... and an UPDATE by primary key.
WriteRetry(w) ==
  /\ work[w].phase \in {"requeue", "fail"}
  /\ req' = [req EXCEPT ![work[w].req] =
               Released(@, IF work[w].phase = "requeue" THEN "QUEUED" ELSE "FAILED")]
  /\ Rests(w) /\ OnlyReq

\* A transaction or lookup of process() raises.
StepFails(w) ==
  /\ work[w].phase \notin Sending \cup {"idle"} /\ ~work[w].caught
  /\ Caught(w, "retrying")
  /\ doubt' = IF work[w].phase \in {"sent", "sentEntry"}
              THEN doubt \cup {work[w].req} ELSE doubt
  /\ UNCHANGED <<shared, caches, req, process, copies>>

\* One of an except clause does: the row keeps its lease.
Abandon(w) ==
  /\ work[w].caught
  /\ Rests(w) /\ OnlyWork

-----------------------------------------------------------------------------
(* The process.                                                            *)

\* Messages the workers in S were sending are out; nobody will record them,
\* nor those already answered.
CutOff(S) ==
  /\ S \subseteq {w \in Worker : work[w].phase \in Sending}
  /\ copies' = MoreCopies(S)
  /\ doubt' = doubt \cup {work[w].req : w \in S \cup
       {v \in Worker : work[v].phase \in {"sent", "sentEntry"}}}
  /\ stops < MaxStops /\ stops' = stops + 1

\* TelegramDeliveryFanoutManager.stop cancels every task: process() retries
\* the request; an except clause that was running is left.
Stop(S) ==
  /\ mode = "up" /\ mode' = "stopping"
  /\ CutOff(S)
  /\ work' = [w \in Worker |->
       IF work[w].phase = "idle" \/ work[w].caught THEN Idle
       ELSE [work[w] EXCEPT !.phase = "retrying", !.caught = TRUE]]
  /\ UNCHANGED <<shared, caches, req>>

Exit ==
  /\ mode = "stopping" /\ mode' = "down"
  /\ \A w \in Worker : work[w].phase = "idle"
  /\ UNCHANGED <<shared, caches, req, work, stops, history>>

Crash(S) ==
  /\ mode # "down" /\ mode' = "down"
  /\ CutOff(S)
  /\ work' = [w \in Worker |-> Idle]
  /\ UNCHANGED <<shared, caches, req>>

\* Mutant of OpenUploads: any open flight, handed off or not.
OpenFlights == {f \in Fingerprint : flight[f] # 0}

\* Artifacts whose upload is still open, and those with a reusable file.
OpenUploads ==
  {f \in Fingerprint : flight[f] # 0 /\ job[flight[f]].stage \in {"uploading", "stored"}}

ActiveFiles == {f \in Fingerprint : cache[f] = "ACTIVE"}

\* recover_startup: expired leases, then the open uploads.  The look-up in
\* the file cache names track and quality only, and raises if that is not
\* unique: then the process does not come up.
Restart ==
  /\ mode = "down" /\ mode' = "up"
  /\ OpenUploads # {} => Cardinality(ActiveFiles) <= 1
  /\ req' = [r \in Request |-> Recovered(req[r])]
  /\ IF ActiveFiles # {} THEN Flights!Finish(OpenUploads, [j \in Job |-> "READY"])
     ELSE UNCHANGED <<flight, sub>>
  /\ UNCHANGED <<job, caches, work, stops, history>>

-----------------------------------------------------------------------------
\* What a worker does by itself and with Telegram's answers.
Proceed(w) ==
  \/ PrepareFromCache(w) \/ PrepareFlight(w) \/ StorePreparation(w)
  \/ Resolve(w) \/ Attach(w) \/ CheckFile(w)
  \/ SendSucceeds(w) \/ AnswerLost(w) \/ SendFails(w) \/ FileRefused(w)
  \/ RecordDelivery(w)
  \/ Invalidate(w) \/ ScheduleRepair(w) \/ EndDelivery(w)
  \/ ReadForRetry(w) \/ WriteRetry(w) \/ StepFails(w)

FlightEnds(f) ==
  WorkSucceeds(f) \/ \E outcome \in {"FAILED", "CANCELLED"} : WorkFails(f, outcome)

Others ==
  \/ \E r \in Request :
       LeaseExpires(r) \/ \E f \in Fingerprint : Ask(r, f) \/ Withdraw(r, f)
  \/ \E j \in Job : HandOff(j) \/ StoreFile(j)
  \/ \E f \in Fingerprint : FlightEnds(f)

\* Without SplitRetry nothing comes between the two halves of a retry.
Rewriting == {w \in Worker : work[w].phase \in {"requeue", "fail"}}

InTurn(w) == SplitRetry \/ Rewriting \subseteq {w}

DeliveryNext ==
  \/ \E w \in Worker :
       InTurn(w) /\ (ClaimDelivery(w) \/ Proceed(w) \/ Abandon(w))
  \/ /\ SplitRetry \/ Rewriting = {}
     /\ Others \/ Exit \/ Restart \/ \E S \in SUBSET Worker : Stop(S) \/ Crash(S)

DeliverySpec == DeliveryInit /\ [][DeliveryNext]_dvars

\* Workers poll and every await of theirs is bounded; an unattended lease
\* expires; flights end (WaiterIsTold of SingleFlight); the supervisor
\* restarts the process.
DeliveryFairness ==
  /\ \A w \in Worker :
       WF_dvars(InTurn(w) /\ ClaimDelivery(w)) /\ WF_dvars(InTurn(w) /\ Proceed(w))
  /\ \A r \in Request : WF_dvars(Unattended(r) /\ LeaseExpires(r))
  /\ \A f \in Fingerprint : WF_dvars(FlightEnds(f))
  /\ WF_dvars(Exit) /\ WF_dvars(Restart)

DeliveryFairSpec == DeliverySpec /\ DeliveryFairness

-----------------------------------------------------------------------------
(* Properties.                                                             *)

Phase == Sending \cup
  {"idle", "preparing", "storing", "resolving", "attaching",
   "checking", "sent", "sentEntry", "invalidating", "scheduling",
   "ending", "cancelling", "retrying", "failing", "requeue", "fail"}

RequestRow ==
  [status : Pending \cup Settled \cup {"NONE"},
   wants : Fingerprint \cup {NoFingerprint}, attempts : Nat,
   owner : Worker \cup {NoWorker}, expired : BOOLEAN, cached : BOOLEAN,
   job : Job \cup {0}, repairs : 0..1]

Task ==
  [phase : Phase, req : Request \cup {NoRequest}, cached : BOOLEAN,
   job : Job \cup {0}, repairs : 0..1, caught : BOOLEAN]

JobRecord ==
  [stage : {"NONE", "downloading", "uploading", "stored"},
   of : Fingerprint \cup {NoFingerprint}]

DeliveryTypeOK ==
  /\ flight \in [Fingerprint -> Job \cup {0}]
  /\ sub \in [Job -> [Request -> Flights!Result \cup {"NONE", "WAITING"}]]
  /\ job \in [Job -> JobRecord]
  /\ cache \in [Fingerprint -> {"NONE", "ACTIVE", "INVALID"}]
  /\ entry \subseteq Fingerprint
  /\ req \in [Request -> RequestRow]
  /\ work \in [Worker -> Task]
  /\ mode \in {"up", "stopping", "down"} /\ stops \in 0..MaxStops
  /\ copies \in [Request -> 0..2] /\ doubt \subseteq Request

\* A worker never takes up a request whose subscriber still waits: such a
\* claim would use an attempt for nothing.
ClaimedIsTold ==
  \A w \in Worker : work[w].phase = "resolving" => Told(work[w].job, work[w].req)

\* Preparations and the one repair do not count against the limit, but there
\* are no more than three claims of that kind.
ClaimsBounded ==
  \A r \in Request : req[r].attempts <= MaxAttempts + 3

\* Both: claims are neither premature nor without end.
ClaimsAreJustified == ClaimedIsTold /\ ClaimsBounded

\* What the row says at the end is what happened, but for messages whose
\* answer or whose record was lost; and a chat gets a file twice only if
\* there was such a loss, or the lease ran out under a working task.
OutcomeIsTrue ==
  \A r \in Request :
    /\ req[r].status = "DELIVERED" => copies[r] > 0
    /\ req[r].status \in {"FAILED", "CANCELLED"} => copies[r] = 0 \/ r \in doubt
    /\ copies[r] > 1 => r \in doubt

\* READY is told only when a file of that very artifact has been stored.
ReadyWasStored ==
  \A j \in Job, r \in Request : sub[j][r] = "READY" => cache[job[j].of] # "NONE"

\* Where it is told without one, recovery told it: the upload was open when
\* the process went down, and some other artifact of the track had a file.
\* However requests, stops and artifacts come together, READY is never made
\* up for work that was not handed off, nor while nothing is stored at all.
ReadyWasStoredOrRescued ==
  \A j \in Job, r \in Request :
    sub[j][r] = "READY" /\ cache[job[j].of] = "NONE" =>
      /\ stops > 0 /\ job[j].stage = "uploading"
      /\ \E f \in Fingerprint \ {job[j].of} : cache[f] # "NONE"

\* An ended request stays as it is.
SettledIsFinal ==
  [][\A r \in Request : req[r].status \in Settled => req'[r] = req[r]]_dvars

\* What its row tells an observer of a request: what lies between the card
\* and the end is not told.
Outcome == [r \in Request |->
  IF req[r].status \in Pending THEN "OPEN" ELSE req[r].status]

Promise == INSTANCE Outbox WITH outcome <- Outcome

\* Step by step, the rows and the messages are those of Outbox: a request
\* opens once and ends once and truly, a file goes out to a chat only while
\* its request is open and has none, and the exceptions are requests in doubt.
KeepsPromise == Promise!Spec

\* Every request that was asked for ends.
RequestSettles ==
  \A r \in Request : req[r].status \in Pending ~> req[r].status \in Settled

=============================================================================
