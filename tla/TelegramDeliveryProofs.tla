----------------------- MODULE TelegramDeliveryProofs -----------------------
(***************************************************************************)
(* Theorems about TelegramDelivery, for any requests, workers, artifacts   *)
(* and jobs, any attempt limit and any number of stops: every reachable    *)
(* state is well typed, its flights are those of SharedResult, and, unless *)
(* retry_or_fail loses the race between its SELECT and its UPDATE, a       *)
(* request that has ended stays as it is and the outbox implements Outbox. *)
(*                                                                         *)
(* Each part of the state has its own lemma for each kind of step; an      *)
(* action is then the conjunction of the lemmas of its parts.              *)
(***************************************************************************)
EXTENDS TelegramDelivery, TLAPS, FiniteSetTheorems
\* A request that was asked for wants an artifact.
WantsArtifact ==
  \A r \in Request : req[r].status # "NONE" => req[r].wants \in Fingerprint

\* A busy worker has a request that was asked for.
TaskHasRequest ==
  \A w \in Worker : work[w].phase # "idle" =>
    work[w].req \in Request /\ req[work[w].req].status # "NONE"

Typed == DeliveryTypeOK /\ WantsArtifact /\ TaskHasRequest

\* A worker about to write its retry still holds the row it read.
RewriteFenced == \A w \in Rewriting : Owned(w)

\* The types of the parts of the state that lemmas treat separately.
FlightTypes ==
  /\ flight \in [Fingerprint -> Job \cup {0}]
  /\ sub \in [Job -> [Request -> Flights!Result \cup {"NONE", "WAITING"}]]

JobTypes == job \in [Job -> JobRecord]

FileTypes == cache \in [Fingerprint -> {"NONE", "ACTIVE", "INVALID"}] /\ entry \subseteq Fingerprint

ProcessTypes == mode \in {"up", "stopping", "down"} /\ stops \in 0..MaxStops

HistoryTypes == copies \in [Request -> 0..2] /\ doubt \subseteq Request

WorkTypes == work \in [Worker -> Task] /\ TaskHasRequest

RowTypes == req \in [Request -> RequestRow] /\ WantsArtifact

\* What may become of the requests in one step.  Only the race of
\* retry_or_fail changes one that has ended.
RowsMove ==
  /\ RowTypes'
  /\ \A r \in Request :
       /\ ~SplitRetry /\ req[r].status \in Settled => req'[r] = req[r]
       /\ req[r].status # "NONE" => req'[r].status # "NONE"

\* The inductive invariant.
DInv ==
  /\ Typed
  /\ ~SplitRetry => RewriteFenced

LEMMA PartsOfType ==
  DeliveryTypeOK /\ WantsArtifact /\ TaskHasRequest <=>
    /\ FlightTypes /\ JobTypes /\ FileTypes /\ ProcessTypes /\ HistoryTypes
    /\ WorkTypes /\ RowTypes
  BY DEF DeliveryTypeOK, FlightTypes, JobTypes, FileTypes, ProcessTypes, HistoryTypes,
         WorkTypes, RowTypes

-----------------------------------------------------------------------------
(* Requests.                                                               *)

LEMMA ReleasedRow ==
  ASSUME NEW row \in RequestRow, NEW s \in Pending \cup Settled
  PROVE  /\ Released(row, s) \in RequestRow
         /\ Released(row, s).status = s /\ Released(row, s).wants = row.wants
  BY DEF Released, RequestRow

LEMMA RecoveredRow ==
  ASSUME NEW row \in RequestRow
  PROVE  /\ Recovered(row) \in RequestRow
         /\ row.status \in Settled => Recovered(row) = row
         /\ row.status = "NONE" <=> Recovered(row).status = "NONE"
         /\ Recovered(row).wants = row.wants
<1>1. CASE ~(row.status = "SENDING" /\ row.expired)
  BY <1>1 DEF Recovered
<1>2. CASE row.status = "SENDING" /\ row.expired
  <2>1. PICK s \in {"FAILED", "QUEUED"} : Recovered(row) = Released(row, s)
    BY <1>2 DEF Recovered
  <2>2. s \in Pending \cup Settled /\ s # "NONE" /\ row.status \notin Settled
    BY <1>2 DEF Pending, Settled
  <2>3. QED
    BY <1>2, <2>1, <2>2, ReleasedRow
<1>3. QED
  BY <1>1, <1>2

LEMMA RowsStay ==
  ASSUME RowTypes, UNCHANGED req
  PROVE  RowsMove
  BY DEF RowsMove, RowTypes, WantsArtifact

\* One row that has not ended changes, or is created.
LEMMA OneRow ==
  ASSUME RowTypes, NEW r \in Request, NEW row \in RequestRow,
         req[r].status \notin Settled,
         row.status # "NONE", row.wants \in Fingerprint,
         req' = [req EXCEPT ![r] = row]
  PROVE  RowsMove
  BY DEF RowsMove, RowTypes, WantsArtifact

LEMMA FencedRow ==
  ASSUME RowTypes, WorkTypes,
         NEW w \in Worker, work[w].phase # "idle", NEW row,
         Owned(w) => row \in RequestRow /\ row.status # "NONE"
                     /\ row.wants = req[work[w].req].wants,
         req' = IF Owned(w) THEN [req EXCEPT ![work[w].req] = row] ELSE req
  PROVE  RowsMove
<1>1. work[w].req \in Request /\ req[work[w].req].wants \in Fingerprint
  BY DEF WorkTypes, TaskHasRequest, RowTypes, WantsArtifact
<1>2. CASE Owned(w)
  <2>1. req[work[w].req].status \notin Settled
    BY <1>2 DEF Owned, Settled
  <2>2. QED
    BY <1>1, <1>2, <2>1, OneRow
<1>3. CASE ~Owned(w)
  BY <1>3, RowsStay
<1>4. QED
  BY <1>2, <1>3

LEMMA AllRecovered ==
  ASSUME RowTypes, req' = [r \in Request |-> Recovered(req[r])]
  PROVE  RowsMove
  BY RecoveredRow DEF RowsMove, RowTypes, WantsArtifact

-----------------------------------------------------------------------------
(* The rest of the state.                                                  *)

\* A step of worker w: the others stay, and w is not about to write a retry.
WorkerMoves(w) ==
  /\ WorkTypes'
  /\ \A v \in Worker \ {w} : work'[v] = work[v]
  /\ work'[w].phase \notin {"requeue", "fail"}

LEMMA OneTask ==
  ASSUME WorkTypes, RowsMove, NEW w \in Worker, NEW task \in Task,
         task.phase # "idle" =>
           task.req \in Request /\ req'[task.req].status # "NONE",
         work' = [work EXCEPT ![w] = task]
  PROVE  /\ WorkTypes'
         /\ \A v \in Worker \ {w} : work'[v] = work[v]
         /\ work'[w] = task
  BY DEF WorkTypes, TaskHasRequest, RowsMove

LEMMA RestsMoves ==
  ASSUME WorkTypes, RowsMove, NEW w \in Worker, Rests(w)
  PROVE  WorkerMoves(w)
<1>1. Idle \in Task /\ Idle.phase = "idle"
  BY DEF Idle, Task, Phase
<1>2. QED
  BY <1>1, OneTask DEF Rests, WorkerMoves

LEMMA PhaseTask ==
  ASSUME WorkTypes, RowsMove, NEW w \in Worker, work[w].phase # "idle", NEW phase \in Phase,
         Goes(w, phase) \/ Caught(w, phase)
  PROVE  /\ WorkTypes'
         /\ \A v \in Worker \ {w} : work'[v] = work[v]
         /\ work'[w].phase = phase /\ work'[w].req = work[w].req
<1> DEFINE goes == [work[w] EXCEPT !.phase = phase]
           caught == [work[w] EXCEPT !.phase = phase, !.caught = TRUE]
<1>1. /\ work[w] \in Task /\ work[w].req \in Request
      /\ req'[work[w].req].status # "NONE"
  BY DEF WorkTypes, TaskHasRequest, RowsMove
<1>2. /\ goes \in Task /\ goes.phase = phase /\ goes.req = work[w].req
      /\ caught \in Task /\ caught.phase = phase /\ caught.req = work[w].req
  BY <1>1 DEF Task
<1>3. work' = [work EXCEPT ![w] = goes] \/ work' = [work EXCEPT ![w] = caught]
  BY DEF Goes, Caught
<1> HIDE DEF goes, caught
<1>4. QED
  BY <1>1, <1>2, <1>3, OneTask

LEMMA PhaseMoves ==
  ASSUME WorkTypes, RowsMove, NEW w \in Worker, work[w].phase # "idle",
         NEW phase \in Phase \ {"requeue", "fail"},
         Goes(w, phase) \/ Caught(w, phase)
  PROVE  WorkerMoves(w)
  BY PhaseTask DEF WorkerMoves

LEMMA FlightsStay ==
  ASSUME FlightTypes, UNCHANGED <<flight, sub>>
  PROVE  FlightTypes'
  BY DEF FlightTypes

LEMMA FilesStay ==
  ASSUME FileTypes, UNCHANGED caches
  PROVE  FileTypes'
  BY DEF FileTypes, caches

LEMMA ProcessStays ==
  ASSUME ProcessTypes, UNCHANGED process
  PROVE  ProcessTypes'
  BY DEF ProcessTypes, process

LEMMA HistoryStays ==
  ASSUME HistoryTypes, UNCHANGED history
  PROVE  HistoryTypes'
  BY DEF HistoryTypes, history

LEMMA SharedStays ==
  ASSUME FlightTypes, JobTypes, UNCHANGED shared
  PROVE  FlightTypes' /\ JobTypes'
  BY FlightsStay DEF JobTypes, shared

LEMMA WorkStays ==
  ASSUME WorkTypes, RowsMove, UNCHANGED work
  PROVE  WorkTypes'
  BY DEF WorkTypes, TaskHasRequest, RowsMove

LEMMA Assembled ==
  ASSUME FlightTypes', JobTypes', FileTypes', ProcessTypes', HistoryTypes', WorkTypes', RowTypes'
  PROVE  (DeliveryTypeOK /\ WantsArtifact /\ TaskHasRequest)'
  BY DEF DeliveryTypeOK, FlightTypes, JobTypes, FileTypes, ProcessTypes, HistoryTypes,
         WorkTypes, RowTypes

LEMMA FewCopies ==
  ASSUME HistoryTypes, NEW S \in SUBSET Worker
  PROVE  MoreCopies(S) \in [Request -> 0..2]
<1> SUFFICES ASSUME NEW r \in Request
             PROVE  LET n == copies[r] + Cardinality({w \in S : work[w].req = r})
                    IN (IF n > 2 THEN 2 ELSE n) \in 0..2
  BY DEF MoreCopies
<1> DEFINE T == {w \in S : work[w].req = r}
<1>1. IsFiniteSet(Worker) /\ T \subseteq Worker
  BY DeliveryAssumption
<1>2. Cardinality(T) \in Nat
  BY <1>1, FS_Subset, FS_CardinalityType
<1>3. copies[r] \in 0..2
  BY DEF HistoryTypes
<1> HIDE DEF T
<1>4. QED
  BY <1>2, <1>3 DEF T

-----------------------------------------------------------------------------
(* Flights.                                                                *)

LEMMA JoinTypes ==
  ASSUME FlightTypes, NEW r \in Request, NEW f \in Fingerprint, Flights!Join(r, f)
  PROVE  FlightTypes'
<1>1. flight[f] \in Job
  BY DEF FlightTypes, Flights!Join
<1>2. QED
  BY <1>1 DEF FlightTypes, Flights!Join

LEMMA OpenTypes ==
  ASSUME FlightTypes, NEW r \in Request, NEW f \in Fingerprint, NEW j \in Job,
         Flights!Open(r, f, j)
  PROVE  FlightTypes'
  BY DEF FlightTypes, Flights!Open

LEMMA LeaveTypes ==
  ASSUME FlightTypes, NEW r \in Request, NEW f \in Fingerprint, Flights!Leave(r, f)
  PROVE  FlightTypes'
<1>1. flight[f] \in Job
  BY DEF FlightTypes, Flights!Leave
<1>2. sub' \in [Job -> [Request -> Flights!Result \cup {"NONE", "WAITING"}]]
  BY <1>1 DEF FlightTypes, Flights!Leave, Flights!Result
<1>3. flight' \in [Fingerprint -> Job \cup {0}]
  BY DEF FlightTypes, Flights!Leave
<1>4. QED
  BY <1>2, <1>3 DEF FlightTypes

LEMMA FinishTypes ==
  ASSUME FlightTypes, NEW F \in SUBSET Fingerprint,
         NEW outcome \in [Job -> Flights!Result], Flights!Finish(F, outcome)
  PROVE  FlightTypes'
<1>1. sub' \in [Job -> [Request -> Flights!Result \cup {"NONE", "WAITING"}]]
  BY DEF FlightTypes, Flights!Finish
<1>2. flight' \in [Fingerprint -> Job \cup {0}]
  BY DEF FlightTypes, Flights!Finish
<1>3. QED
  BY <1>1, <1>2 DEF FlightTypes

-----------------------------------------------------------------------------
(* The steps of a worker, but for the two halves of a retry.               *)

WorkerStep(w) == Typed' /\ RowsMove /\ WorkerMoves(w)

LEMMA Parts ==
  ASSUME Typed
  PROVE  /\ FlightTypes /\ JobTypes /\ FileTypes /\ ProcessTypes /\ HistoryTypes
         /\ WorkTypes /\ RowTypes
  BY PartsOfType DEF Typed

LEMMA OnlyReqStep ==
  ASSUME Typed, NEW w \in Worker, OnlyReq, RowsMove, WorkerMoves(w)
  PROVE  WorkerStep(w)
<1>1. FlightTypes' /\ JobTypes' /\ FileTypes' /\ ProcessTypes' /\ HistoryTypes'
  BY Parts, SharedStays, FilesStay, ProcessStays, HistoryStays DEF OnlyReq
<1>2. QED
  BY <1>1, Assembled DEF WorkerStep, WorkerMoves, RowsMove, Typed

LEMMA OnlyWorkStep ==
  ASSUME Typed, NEW w \in Worker, OnlyWork, WorkerMoves(w)
  PROVE  WorkerStep(w)
<1>1. FlightTypes' /\ JobTypes' /\ FileTypes' /\ ProcessTypes' /\ HistoryTypes'
  BY Parts, SharedStays, FilesStay, ProcessStays, HistoryStays DEF OnlyWork
<1>2. RowsMove
  BY Parts, RowsStay DEF OnlyWork
<1>3. QED
  BY <1>1, <1>2, Assembled DEF WorkerStep, WorkerMoves, RowsMove, Typed

LEMMA RoutePhase ==
  ASSUME NEW x
  PROVE  Route(x) \in {"checking", "resolving", "preparing"}
  BY DEF Route

LEMMA ClaimedRow ==
  ASSUME NEW row \in RequestRow, NEW w \in Worker
  PROVE  /\ Claimed(row, w) \in RequestRow
         /\ Claimed(row, w).status = "SENDING" /\ Claimed(row, w).wants = row.wants
<1> DEFINE n == row.attempts + 1
<1>1. n \in Nat
  BY DEF RequestRow
<1>2. Claimed(row, w) = [row EXCEPT !.status = "SENDING", !.owner = w, !.attempts = n]
  BY DEF Claimed, RequestRow
<1> HIDE DEF n
<1>3. QED
  BY <1>1, <1>2 DEF RequestRow, Pending

LEMMA TaskOnRow ==
  ASSUME NEW row \in RequestRow, NEW r \in Request, NEW phase \in Phase
  PROVE  /\ TaskOn(r, row, phase) \in Task
         /\ TaskOn(r, row, phase).phase = phase /\ TaskOn(r, row, phase).req = r
  BY DEF TaskOn, RequestRow, Task

LEMMA ClaimStep ==
  ASSUME Typed, NEW w \in Worker, ClaimDelivery(w)
  PROVE  WorkerStep(w)
<1> DEFINE rows == [r \in Request |-> Recovered(req[r])]
<1>1. /\ rows \in [Request -> RequestRow]
      /\ \A r \in Request :
           /\ req[r].status \in Settled => rows[r] = req[r]
           /\ req[r].status = "NONE" <=> rows[r].status = "NONE"
           /\ rows[r].wants = req[r].wants
  BY Parts, RecoveredRow DEF RowTypes
<1>2. OnlyReq
  BY DEF ClaimDelivery
<1>3. CASE \E r \in Request :
             /\ Claimable(rows, r)
             /\ req' = [rows EXCEPT ![r] = Claimed(rows[r], w)]
             /\ work' = [work EXCEPT ![w] = TaskOn(r, rows[r],
                  IF rows[r].wants \in entry THEN "sendingEntry" ELSE Route(rows[r]))]
  <2> HIDE DEF rows
  <2>1. PICK r \in Request :
          /\ Claimable(rows, r)
          /\ req' = [rows EXCEPT ![r] = Claimed(rows[r], w)]
          /\ work' = [work EXCEPT ![w] = TaskOn(r, rows[r],
               IF rows[r].wants \in entry THEN "sendingEntry" ELSE Route(rows[r]))]
    BY <1>3
  <2>2. PICK phase \in {"sendingEntry", "checking", "resolving", "preparing"} :
          work' = [work EXCEPT ![w] = TaskOn(r, rows[r], phase)]
    BY <2>1, RoutePhase
  <2>3. phase \in Phase \ {"requeue", "fail"}
    BY DEF Phase, Sending
  <2>4. rows[r].status \notin Settled \cup {"NONE"}
    BY <2>1 DEF Claimable, Settled
  <2>5. RowsMove
    <3>1. rows[r].wants \in Fingerprint
      BY <1>1, <2>4, Parts DEF RowTypes, WantsArtifact
    <3>2. QED
      BY <1>1, <2>1, <2>4, <3>1, ClaimedRow, Parts DEF RowsMove, RowTypes, WantsArtifact
  <2>6. WorkerMoves(w)
    <3> DEFINE task == TaskOn(r, rows[r], phase)
    <3>1. task \in Task /\ task.phase = phase /\ task.req = r
      BY <1>1, <2>3, TaskOnRow
    <3>2. req'[r].status # "NONE"
      BY <1>1, <2>1, ClaimedRow
    <3> HIDE DEF task
    <3>3. WorkTypes' /\ (\A v \in Worker \ {w} : work'[v] = work[v]) /\ work'[w] = task
      BY <2>2, <2>5, <3>1, <3>2, Parts, OneTask DEF task
    <3>4. QED
      BY <2>3, <3>1, <3>3 DEF WorkerMoves
  <2>7. QED
    BY <1>2, <2>5, <2>6, OnlyReqStep
<1>4. CASE req' = rows /\ UNCHANGED work
  <2>1. RowsMove
    BY <1>4, Parts, AllRecovered
  <2>2. work[w].phase = "idle"
    BY DEF ClaimDelivery
  <2>3. WorkerMoves(w)
    BY <1>4, <2>1, <2>2, Parts, WorkStays DEF WorkerMoves
  <2>4. QED
    BY <1>2, <2>1, <2>3, OnlyReqStep
<1>5. QED
  BY <1>3, <1>4 DEF ClaimDelivery

\* A fenced update of the worker's row, after which the worker rests.
LEMMA FencedStep ==
  ASSUME Typed, NEW w \in Worker, work[w].phase # "idle", NEW row,
         Owned(w) => row \in RequestRow /\ row.status # "NONE"
                     /\ row.wants = req[work[w].req].wants,
         req' = IF Owned(w) THEN [req EXCEPT ![work[w].req] = row] ELSE req,
         Rests(w), OnlyReq
  PROVE  WorkerStep(w)
  BY Parts, FencedRow, RestsMoves, OnlyReqStep

LEMMA BusyRow ==
  ASSUME Typed, NEW w \in Worker, work[w].phase # "idle"
  PROVE  /\ work[w] \in Task /\ work[w].req \in Request
         /\ req[work[w].req] \in RequestRow /\ req[work[w].req].status # "NONE"
         /\ Wanted(w) \in Fingerprint
  BY Parts DEF WorkTypes, TaskHasRequest, RowTypes, WantsArtifact, Wanted

LEMMA PhaseStep ==
  ASSUME Typed, NEW w \in Worker, work[w].phase # "idle",
         NEW phase \in Phase \ {"requeue", "fail"},
         Goes(w, phase) \/ Caught(w, phase), OnlyWork
  PROVE  WorkerStep(w)
<1>1. RowsMove
  BY Parts, RowsStay DEF OnlyWork
<1>2. QED
  BY <1>1, Parts, PhaseMoves, OnlyWorkStep

LEMMA PrepareFromCacheStep ==
  ASSUME Typed, NEW w \in Worker, PrepareFromCache(w)
  PROVE  WorkerStep(w)
<1> DEFINE task == [work[w] EXCEPT !.phase = "storing", !.cached = TRUE]
<1>1. work[w].phase # "idle" /\ work' = [work EXCEPT ![w] = task] /\ OnlyWork
  BY DEF PrepareFromCache
<1>2. task \in Task /\ task.phase = "storing" /\ task.req = work[w].req
  BY <1>1, BusyRow DEF Task, Phase
<1> HIDE DEF task
<1>3. RowsMove /\ UNCHANGED req
  BY <1>1, Parts, RowsStay DEF OnlyWork
<1>4. WorkerMoves(w)
  BY <1>1, <1>2, <1>3, Parts, BusyRow, OneTask DEF WorkerMoves
<1>5. QED
  BY <1>1, <1>4, OnlyWorkStep

LEMMA PrepareFlightStep ==
  ASSUME Typed, NEW w \in Worker, PrepareFlight(w)
  PROVE  WorkerStep(w)
<1> DEFINE f == Wanted(w)
           r == work[w].req
           task(j) == [work[w] EXCEPT !.phase = "storing", !.job = j]
<1>1. work[w].phase = "preparing" /\ UNCHANGED <<caches, req, process, history>>
  BY DEF PrepareFlight
<1>2. work[w] \in Task /\ r \in Request /\ req[r].status # "NONE" /\ f \in Fingerprint
  BY <1>1, BusyRow
<1>3. RowsMove
  BY <1>1, Parts, RowsStay
<1>4. WorkerMoves(w)
  <2>1. PICK j \in Job \cup {0} : work' = [work EXCEPT ![w] = task(j)]
    <3>1. flight[f] \in Job \cup {0}
      BY <1>2, Parts DEF FlightTypes
    <3> HIDE DEF f
    <3>2. \/ work' = [work EXCEPT ![w] = task(flight[f])]
          \/ \E j \in Job : work' = [work EXCEPT ![w] = task(j)]
      BY DEF PrepareFlight, f
    <3> HIDE DEF task
    <3>3. QED
      BY <3>1, <3>2
  <2>2. task(j) \in Task /\ task(j).phase = "storing" /\ task(j).req = r
    BY <1>2 DEF Task, Phase
  <2> HIDE DEF task
  <2>3. QED
    BY <1>1, <1>2, <1>3, <2>1, <2>2, Parts, OneTask DEF WorkerMoves
<1>5. FlightTypes' /\ JobTypes'
  <2>1. CASE Flights!Join(r, f) /\ UNCHANGED job
    BY <1>2, <2>1, Parts, JoinTypes DEF JobTypes
  <2>2. CASE UNCHANGED shared
    BY <2>2, Parts, SharedStays
  <2>3. CASE \E j \in Job :
               /\ Flights!Open(r, f, j)
               /\ job' = [job EXCEPT ![j] = [stage |-> "downloading", of |-> f]]
    <3>1. PICK j \in Job :
            /\ Flights!Open(r, f, j)
            /\ job' = [job EXCEPT ![j] = [stage |-> "downloading", of |-> f]]
      BY <2>3
    <3>2. FlightTypes'
      BY <1>2, <3>1, Parts, OpenTypes
    <3>3. JobTypes'
      <4> HIDE DEF f
      <4>1. QED
        BY <1>2, <3>1, Parts DEF JobTypes, JobRecord
    <3>4. QED
      BY <3>2, <3>3
  <2>4. QED
    BY <2>1, <2>2, <2>3 DEF PrepareFlight
<1>6. FileTypes' /\ ProcessTypes' /\ HistoryTypes'
  BY <1>1, Parts, FilesStay, ProcessStays, HistoryStays
<1>7. QED
  BY <1>3, <1>4, <1>5, <1>6, Assembled DEF WorkerStep, WorkerMoves, RowsMove, Typed

LEMMA StorePreparationStep ==
  ASSUME Typed, NEW w \in Worker, StorePreparation(w)
  PROVE  WorkerStep(w)
<1> DEFINE x == work[w]
           s == IF x.cached THEN "QUEUED" ELSE "WAITING"
           row == [Released(req[x.req], s) EXCEPT !.cached = x.cached, !.job = x.job]
<1>1. x.phase # "idle" /\ Rests(w) /\ OnlyReq
      /\ req' = IF Owned(w) THEN [req EXCEPT ![x.req] = row] ELSE req
  BY DEF StorePreparation
<1>2. s \in Pending \cup Settled /\ s # "NONE"
  BY DEF Pending
<1>3. row \in RequestRow /\ row.status = s /\ row.wants = req[x.req].wants
  <2> HIDE DEF s
  <2>1. /\ Released(req[x.req], s) \in RequestRow
        /\ Released(req[x.req], s).status = s
        /\ Released(req[x.req], s).wants = req[x.req].wants
    BY <1>1, <1>2, BusyRow, ReleasedRow
  <2>2. x.cached \in BOOLEAN /\ x.job \in Job \cup {0}
    BY <1>1, BusyRow DEF Task
  <2>3. QED
    BY <2>1, <2>2 DEF RequestRow
<1> HIDE DEF row
<1>4. QED
  BY <1>1, <1>2, <1>3, FencedStep

LEMMA ResolveStep ==
  ASSUME Typed, NEW w \in Worker, Resolve(w)
  PROVE  WorkerStep(w)
<1>1. work[w].phase # "idle" /\ OnlyWork
  BY DEF Resolve
<1>2. \E phase \in {"attaching", "retrying", "cancelling", "ending"} :
        Goes(w, phase) \/ Caught(w, phase)
  BY DEF Resolve
<1>3. {"attaching", "retrying", "cancelling", "ending"} \subseteq Phase \ {"requeue", "fail"}
  BY DEF Phase
<1>4. QED
  BY <1>1, <1>2, <1>3, PhaseStep

LEMMA AttachStep ==
  ASSUME Typed, NEW w \in Worker, Attach(w)
  PROVE  WorkerStep(w)
<1> DEFINE r == work[w].req
           row == [req[r] EXCEPT !.cached = TRUE]
<1>1. work[w].phase # "idle" /\ OnlyReq
  BY DEF Attach
<1>2. r \in Request /\ req[r] \in RequestRow /\ req[r].status # "NONE"
      /\ req \in [Request -> RequestRow]
  BY <1>1, BusyRow, Parts DEF RowTypes
<1>3. req' = IF Owned(w) THEN [req EXCEPT ![r] = row] ELSE req
  BY <1>2 DEF Attach
<1>4. row \in RequestRow /\ row.status # "NONE" /\ row.wants = req[r].wants
  BY <1>2 DEF RequestRow
<1>5. RowsMove
  <2> HIDE DEF row
  <2>1. QED
    BY <1>1, <1>3, <1>4, Parts, FencedRow
<1>6. req'[r] \in RequestRow /\ req'[r].status # "NONE"
  BY <1>2, <1>5 DEF RowsMove, RowTypes
<1>7. PICK phase \in {"checking", "ending"} :
        work' = [work EXCEPT ![w] = TaskOn(r, req'[r], phase)]
  BY DEF Attach
<1>8. phase \in Phase \ {"requeue", "fail"}
  BY DEF Phase
<1> DEFINE task == TaskOn(r, req'[r], phase)
<1>9. task \in Task /\ task.phase = phase /\ task.req = r
  BY <1>2, <1>6, <1>8, TaskOnRow
<1>10. WorkerMoves(w)
  <2>1. work' = [work EXCEPT ![w] = task]
    BY <1>7
  <2> HIDE DEF task
  <2>2. QED
    BY <1>2, <1>5, <1>6, <1>8, <1>9, <2>1, Parts, OneTask DEF WorkerMoves
<1>11. QED
  BY <1>1, <1>5, <1>10, OnlyReqStep

LEMMA RepairPhase ==
  ASSUME NEW x
  PROVE  Repair(x) \in Phase \ {"requeue", "fail"}
  BY DEF Repair, Phase

LEMMA CheckFileStep ==
  ASSUME Typed, NEW w \in Worker, CheckFile(w)
  PROVE  WorkerStep(w)
<1>1. work[w].phase # "idle" /\ OnlyWork
  BY DEF CheckFile
<1>2. \E phase \in {"sending", Repair(work[w])} : Goes(w, phase)
  BY DEF CheckFile
<1>3. {"sending", Repair(work[w])} \subseteq Phase \ {"requeue", "fail"}
  BY RepairPhase DEF Phase, Sending
<1>4. QED
  BY <1>1, <1>2, <1>3, PhaseStep

\* A step that changes the worker's phase and the history.
LEMMA HistoryStep ==
  ASSUME Typed, NEW w \in Worker, work[w].phase # "idle",
         NEW phase \in Phase \ {"requeue", "fail"},
         Goes(w, phase) \/ Caught(w, phase),
         UNCHANGED <<shared, caches, req, process>>, HistoryTypes'
  PROVE  WorkerStep(w)
<1>1. RowsMove
  BY Parts, RowsStay
<1>2. WorkerMoves(w)
  BY <1>1, Parts, PhaseMoves
<1>3. FlightTypes' /\ JobTypes' /\ FileTypes' /\ ProcessTypes'
  BY Parts, SharedStays, FilesStay, ProcessStays
<1>4. QED
  BY <1>1, <1>2, <1>3, Assembled DEF WorkerStep, WorkerMoves, RowsMove, Typed

LEMMA SendSucceedsStep ==
  ASSUME Typed, NEW w \in Worker, SendSucceeds(w)
  PROVE  WorkerStep(w)
<1>1. work[w].phase # "idle"
  BY DEF SendSucceeds, Sending
<1>2. PICK phase \in {"sent", "sentEntry"} : Goes(w, phase)
  BY DEF SendSucceeds
<1>3. phase \in Phase \ {"requeue", "fail"}
  BY DEF Phase
<1>4. HistoryTypes'
  BY Parts, FewCopies DEF SendSucceeds, HistoryTypes
<1>5. QED
  BY <1>1, <1>2, <1>3, <1>4, HistoryStep DEF SendSucceeds

LEMMA AnswerLostStep ==
  ASSUME Typed, NEW w \in Worker, AnswerLost(w)
  PROVE  WorkerStep(w)
<1>1. work[w].phase # "idle"
  BY DEF AnswerLost, Sending
<1>2. Goes(w, "retrying") \/ Caught(w, "retrying")
  BY DEF AnswerLost, Refused
<1>3. "retrying" \in Phase \ {"requeue", "fail"}
  BY DEF Phase
<1>4. HistoryTypes'
  BY <1>1, Parts, BusyRow, FewCopies DEF AnswerLost, HistoryTypes
<1>5. QED
  BY <1>1, <1>2, <1>3, <1>4, HistoryStep DEF AnswerLost

LEMMA SendFailsStep ==
  ASSUME Typed, NEW w \in Worker, SendFails(w)
  PROVE  WorkerStep(w)
<1>1. work[w].phase # "idle" /\ OnlyWork
  BY DEF SendFails, Sending
<1>2. \E phase \in {"retrying", "failing"} : Goes(w, phase) \/ Caught(w, phase)
  BY DEF SendFails, Refused
<1>3. {"retrying", "failing"} \subseteq Phase \ {"requeue", "fail"}
  BY DEF Phase
<1>4. QED
  BY <1>1, <1>2, <1>3, PhaseStep

\* A step that changes the worker's phase and the files.
LEMMA FileStep ==
  ASSUME Typed, NEW w \in Worker, work[w].phase # "idle",
         NEW phase \in Phase \ {"requeue", "fail"}, Goes(w, phase),
         UNCHANGED <<shared, req, process, history>>, FileTypes'
  PROVE  WorkerStep(w)
<1>1. RowsMove
  BY Parts, RowsStay
<1>2. WorkerMoves(w)
  BY <1>1, Parts, PhaseMoves
<1>3. FlightTypes' /\ JobTypes' /\ ProcessTypes' /\ HistoryTypes'
  BY Parts, SharedStays, ProcessStays, HistoryStays
<1>4. QED
  BY <1>1, <1>2, <1>3, Assembled DEF WorkerStep, WorkerMoves, RowsMove, Typed

LEMMA FileRefusedStep ==
  ASSUME Typed, NEW w \in Worker, FileRefused(w)
  PROVE  WorkerStep(w)
<1>1. work[w].phase # "idle"
  BY DEF FileRefused
<1>2. CASE Caught(w, Repair(work[w])) /\ OnlyWork
  BY <1>1, <1>2, RepairPhase, PhaseStep
<1>3. CASE /\ entry' = entry \ {Wanted(w)}
           /\ Goes(w, Route(work[w]))
           /\ UNCHANGED <<shared, cache, req, process, history>>
  <2>1. Route(work[w]) \in Phase \ {"requeue", "fail"}
    BY RoutePhase DEF Phase
  <2>2. FileTypes'
    BY <1>3, Parts DEF FileTypes
  <2>3. QED
    BY <1>1, <1>3, <2>1, <2>2, FileStep
<1>4. QED
  BY <1>2, <1>3 DEF FileRefused

LEMMA InvalidateStep ==
  ASSUME Typed, NEW w \in Worker, Invalidate(w)
  PROVE  WorkerStep(w)
<1>1. "scheduling" \in Phase \ {"requeue", "fail"}
  BY DEF Phase
<1>2. FileTypes'
  BY Parts DEF Invalidate, FileTypes
<1>3. QED
  BY <1>1, <1>2, FileStep DEF Invalidate

LEMMA RecordDeliveryStep ==
  ASSUME Typed, NEW w \in Worker, RecordDelivery(w)
  PROVE  WorkerStep(w)
<1> DEFINE row == Released(req[work[w].req], "DELIVERED")
<1>1. work[w].phase # "idle"
  BY DEF RecordDelivery
<1>2. row \in RequestRow /\ row.status # "NONE" /\ row.wants = req[work[w].req].wants
  BY <1>1, BusyRow, ReleasedRow DEF Settled
<1>3. req' = IF Owned(w) THEN [req EXCEPT ![work[w].req] = row] ELSE req
  BY DEF RecordDelivery
<1> HIDE DEF row
<1>4. RowsMove
  BY <1>1, <1>2, <1>3, Parts, FencedRow
<1>5. WorkerMoves(w)
  BY <1>4, Parts, RestsMoves DEF RecordDelivery
<1>6. FileTypes'
  BY <1>1, Parts, BusyRow DEF RecordDelivery, FileTypes
<1>7. FlightTypes' /\ JobTypes' /\ ProcessTypes' /\ HistoryTypes'
  BY Parts, SharedStays, ProcessStays, HistoryStays DEF RecordDelivery
<1>8. QED
  BY <1>4, <1>5, <1>6, <1>7, Assembled DEF WorkerStep, WorkerMoves, RowsMove, Typed

LEMMA ScheduleRepairStep ==
  ASSUME Typed, NEW w \in Worker, ScheduleRepair(w)
  PROVE  WorkerStep(w)
<1> DEFINE r == work[w].req
           queued == Released(req[r], "QUEUED")
           row == [queued EXCEPT !.repairs = 1, !.cached = FALSE, !.job = 0]
<1>1. work[w].phase # "idle" /\ Rests(w) /\ OnlyReq
  BY DEF ScheduleRepair
<1>2. row \in RequestRow /\ row.status # "NONE" /\ row.wants = req[r].wants
  <2>1. queued \in RequestRow /\ queued.status = "QUEUED" /\ queued.wants = req[r].wants
    BY <1>1, BusyRow, ReleasedRow DEF Pending
  <2>2. 1 \in 0..1 /\ FALSE \in BOOLEAN /\ 0 \in Job \cup {0}
    OBVIOUS
  <2> HIDE DEF queued
  <2>3. row.status = "QUEUED" /\ row.wants = req[r].wants
    BY <2>1 DEF RequestRow
  <2>4. row \in RequestRow
    BY <2>1, <2>2 DEF RequestRow
  <2>5. QED
    BY <2>3, <2>4
<1>3. \/ req' = IF Owned(w) THEN [req EXCEPT ![r] = row] ELSE req
      \/ UNCHANGED req
  BY DEF ScheduleRepair
<1> HIDE DEF row
<1>4. RowsMove
  BY <1>1, <1>2, <1>3, Parts, FencedRow, RowsStay
<1>5. QED
  BY <1>1, <1>4, Parts, RestsMoves, OnlyReqStep

LEMMA EndDeliveryStep ==
  ASSUME Typed, NEW w \in Worker, EndDelivery(w)
  PROVE  WorkerStep(w)
<1> DEFINE s == IF work[w].phase = "ending" THEN "FAILED" ELSE "CANCELLED"
           row == Released(req[work[w].req], s)
<1>1. work[w].phase # "idle" /\ Rests(w) /\ OnlyReq
      /\ req' = IF Owned(w) THEN [req EXCEPT ![work[w].req] = row] ELSE req
  BY DEF EndDelivery
<1>2. row \in RequestRow /\ row.status # "NONE" /\ row.wants = req[work[w].req].wants
  <2>1. s \in Settled /\ s # "NONE"
    BY DEF Settled
  <2> HIDE DEF s
  <2>2. QED
    BY <1>1, <2>1, BusyRow, ReleasedRow
<1> HIDE DEF row
<1>3. QED
  BY <1>1, <1>2, FencedStep

LEMMA StepFailsStep ==
  ASSUME Typed, NEW w \in Worker, StepFails(w)
  PROVE  WorkerStep(w)
<1>1. work[w].phase # "idle" /\ Caught(w, "retrying")
  BY DEF StepFails
<1>2. "retrying" \in Phase \ {"requeue", "fail"}
  BY DEF Phase
<1>3. HistoryTypes'
  BY <1>1, Parts, BusyRow DEF StepFails, HistoryTypes
<1>4. QED
  BY <1>1, <1>2, <1>3, HistoryStep DEF StepFails

LEMMA AbandonStep ==
  ASSUME Typed, NEW w \in Worker, Abandon(w)
  PROVE  WorkerStep(w)
<1>1. RowsMove
  BY Parts, RowsStay DEF Abandon, OnlyWork
<1>2. WorkerMoves(w)
  BY <1>1, Parts, RestsMoves DEF Abandon
<1>3. QED
  BY <1>2, OnlyWorkStep DEF Abandon

\* The second half of a retry, which is fenced only by what comes before it.
LEMMA WriteRetryStep ==
  ASSUME Typed, NEW w \in Worker, WriteRetry(w), ~SplitRetry => Owned(w)
  PROVE  WorkerStep(w)
<1> DEFINE r == work[w].req
           s == IF work[w].phase = "requeue" THEN "QUEUED" ELSE "FAILED"
           row == Released(req[r], s)
<1>1. work[w].phase # "idle" /\ Rests(w) /\ OnlyReq /\ req' = [req EXCEPT ![r] = row]
  BY DEF WriteRetry
<1>2. r \in Request /\ req[r] \in RequestRow /\ req[r].wants \in Fingerprint
  BY <1>1, BusyRow DEF Wanted
<1>3. row \in RequestRow /\ row.status # "NONE" /\ row.wants = req[r].wants
  <2>1. s \in Pending \cup Settled /\ s # "NONE"
    BY DEF Pending, Settled
  <2> HIDE DEF s
  <2>2. QED
    BY <1>2, <2>1, ReleasedRow
<1>4. ~SplitRetry => req[r].status \notin Settled
  BY DEF Owned, Settled
<1> HIDE DEF row
<1>5. RowsMove
  BY <1>1, <1>2, <1>3, <1>4, Parts DEF RowsMove, RowTypes, WantsArtifact
<1>6. QED
  BY <1>1, <1>5, Parts, RestsMoves, OnlyReqStep

\* The first half leaves the worker with a row it holds.
LEMMA ReadForRetryStep ==
  ASSUME Typed, NEW w \in Worker, ReadForRetry(w)
  PROVE  /\ Typed' /\ RowsMove
         /\ \A v \in Worker \ {w} : work'[v] = work[v]
         /\ work'[w].phase \in {"requeue", "fail"} => Owned(w)'
<1>1. work[w].phase # "idle" /\ OnlyWork
  BY DEF ReadForRetry
<1>2. RowsMove /\ UNCHANGED req
  BY <1>1, Parts, RowsStay DEF OnlyWork
<1>3. CASE Owned(w)
  <2>1. PICK phase \in {"requeue", "fail"} : Goes(w, phase)
    BY <1>3 DEF ReadForRetry
  <2>2. phase \in Phase
    BY DEF Phase
  <2>3. /\ WorkTypes' /\ \A v \in Worker \ {w} : work'[v] = work[v]
        /\ work'[w].req = work[w].req
    BY <1>1, <1>2, <2>1, <2>2, Parts, PhaseTask
  <2>4. FlightTypes' /\ JobTypes' /\ FileTypes' /\ ProcessTypes' /\ HistoryTypes'
    BY <1>1, Parts, SharedStays, FilesStay, ProcessStays, HistoryStays DEF OnlyWork
  <2>5. Typed'
    BY <1>2, <2>3, <2>4, Assembled DEF RowsMove, Typed
  <2>6. Owned(w)'
    BY <1>2, <1>3, <2>3 DEF Owned
  <2>7. QED
    BY <1>2, <2>3, <2>5, <2>6
<1>4. CASE ~Owned(w)
  <2>1. WorkerStep(w)
    BY <1>1, <1>2, <1>4, Parts, RestsMoves, OnlyWorkStep DEF ReadForRetry
  <2>2. QED
    BY <2>1 DEF WorkerStep, WorkerMoves
<1>5. QED
  BY <1>3, <1>4

-----------------------------------------------------------------------------
(* The steps of everybody else.                                            *)

\* No worker is made to write a retry.
OtherStep ==
  /\ Typed' /\ RowsMove
  /\ \A w \in Worker :
       work'[w].phase \in {"requeue", "fail"} => work[w].phase \in {"requeue", "fail"}

\* A step that leaves the requests and the workers alone.
LEMMA AroundStep ==
  ASSUME Typed, UNCHANGED <<req, work>>,
         FlightTypes', JobTypes', FileTypes', ProcessTypes', HistoryTypes'
  PROVE  OtherStep
<1>1. RowsMove
  BY Parts, RowsStay
<1>2. WorkTypes'
  BY <1>1, Parts, WorkStays
<1>3. QED
  BY <1>1, <1>2, Assembled DEF OtherStep, RowsMove, Typed

LEMMA AskStep ==
  ASSUME Typed, NEW r \in Request, NEW f \in Fingerprint, Ask(r, f)
  PROVE  OtherStep
<1>1. /\ NewRequest(f) \in RequestRow /\ NewRequest(f).status # "NONE"
      /\ NewRequest(f).wants = f
  BY DEF NewRequest, RequestRow, Pending
<1>2. req[r].status \notin Settled
  BY DEF Ask, Settled
<1>3. RowsMove
  BY <1>1, <1>2, Parts, OneRow DEF Ask
<1>4. WorkTypes'
  BY <1>3, Parts, WorkStays DEF Ask
<1>5. FlightTypes' /\ JobTypes' /\ FileTypes' /\ ProcessTypes' /\ HistoryTypes'
  BY Parts, SharedStays, FilesStay, ProcessStays, HistoryStays DEF Ask
<1>6. QED
  BY <1>3, <1>4, <1>5, Assembled DEF OtherStep, RowsMove, Typed, Ask

LEMMA LeaseExpiresStep ==
  ASSUME Typed, NEW r \in Request, LeaseExpires(r)
  PROVE  OtherStep
<1> DEFINE row == [req[r] EXCEPT !.expired = TRUE]
<1>1. /\ req[r] \in RequestRow /\ req[r].wants \in Fingerprint
      /\ req[r].status = "SENDING" /\ req' = [req EXCEPT ![r] = row]
  BY Parts DEF LeaseExpires, RowTypes, WantsArtifact
<1>2. /\ row \in RequestRow /\ row.status # "NONE" /\ row.wants = req[r].wants
      /\ req[r].status \notin Settled
  BY <1>1 DEF RequestRow, Settled
<1> HIDE DEF row
<1>3. RowsMove
  BY <1>1, <1>2, Parts, OneRow
<1>4. WorkTypes'
  BY <1>3, Parts, WorkStays DEF LeaseExpires
<1>5. HistoryTypes'
  BY Parts DEF LeaseExpires, HistoryTypes
<1>6. FlightTypes' /\ JobTypes' /\ FileTypes' /\ ProcessTypes'
  BY Parts, SharedStays, FilesStay, ProcessStays DEF LeaseExpires
<1>7. QED
  BY <1>3, <1>4, <1>5, <1>6, Assembled DEF OtherStep, RowsMove, Typed, LeaseExpires

LEMMA WithdrawStep ==
  ASSUME Typed, NEW r \in Request, NEW f \in Fingerprint, Withdraw(r, f)
  PROVE  OtherStep
<1>1. FlightTypes' /\ JobTypes'
  BY Parts, LeaveTypes DEF Withdraw, JobTypes
<1>2. FileTypes' /\ ProcessTypes' /\ HistoryTypes'
  BY Parts, FilesStay, ProcessStays, HistoryStays DEF Withdraw
<1>3. QED
  BY <1>1, <1>2, AroundStep DEF Withdraw

LEMMA HandOffStep ==
  ASSUME Typed, NEW j \in Job, HandOff(j)
  PROVE  OtherStep
<1>1. JobTypes'
  BY Parts DEF HandOff, JobTypes, JobRecord
<1>2. FlightTypes' /\ FileTypes' /\ ProcessTypes' /\ HistoryTypes'
  BY Parts, FlightsStay, FilesStay, ProcessStays, HistoryStays DEF HandOff
<1>3. QED
  BY <1>1, <1>2, AroundStep DEF HandOff

LEMMA StoreFileStep ==
  ASSUME Typed, NEW j \in Job, StoreFile(j)
  PROVE  OtherStep
<1>1. JobTypes' /\ FileTypes'
  BY Parts DEF StoreFile, JobTypes, JobRecord, FileTypes
<1>2. FlightTypes' /\ ProcessTypes' /\ HistoryTypes'
  BY Parts, FlightsStay, ProcessStays, HistoryStays DEF StoreFile
<1>3. QED
  BY <1>1, <1>2, AroundStep DEF StoreFile

LEMMA FlightEndsStep ==
  ASSUME Typed, NEW f \in Fingerprint, FlightEnds(f)
  PROVE  OtherStep
<1>1. PICK outcome \in Flights!Result : Flights!Finish({f}, [j \in Job |-> outcome])
  BY DEF FlightEnds, WorkSucceeds, WorkFails, Flights!Result
<1>2. UNCHANGED <<job, caches, req, work, process, history>>
  BY DEF FlightEnds, WorkSucceeds, WorkFails
<1>3. FlightTypes'
  BY <1>1, Parts, FinishTypes
<1>4. JobTypes' /\ FileTypes' /\ ProcessTypes' /\ HistoryTypes'
  BY <1>2, Parts, FilesStay, ProcessStays, HistoryStays DEF JobTypes
<1>5. QED
  BY <1>2, <1>3, <1>4, AroundStep

-----------------------------------------------------------------------------
(* The process.                                                            *)

LEMMA CutOffTypes ==
  ASSUME Typed, NEW S \in SUBSET Worker, CutOff(S)
  PROVE  HistoryTypes' /\ stops' \in 0..MaxStops
<1> DEFINE interrupted == S \cup {v \in Worker : work[v].phase \in {"sent", "sentEntry"}}
<1>1. \A w \in interrupted : work[w].req \in Request
  BY Parts DEF WorkTypes, TaskHasRequest, CutOff, Sending
<1>2. doubt' \subseteq Request
  BY <1>1, Parts DEF CutOff, HistoryTypes
<1>3. copies' \in [Request -> 0..2]
  BY Parts, FewCopies DEF CutOff
<1>4. stops' \in 0..MaxStops
  BY Parts, DeliveryAssumption DEF CutOff, ProcessTypes
<1>5. QED
  BY <1>2, <1>3, <1>4 DEF HistoryTypes

LEMMA IdleTask == Idle \in Task /\ Idle.phase = "idle"
  BY DEF Idle, Task, Phase

LEMMA StopStep ==
  ASSUME Typed, NEW S \in SUBSET Worker, Stop(S)
  PROVE  OtherStep
<1> DEFINE retried(w) == [work[w] EXCEPT !.phase = "retrying", !.caught = TRUE]
<1>1. /\ mode' = "stopping" /\ CutOff(S) /\ UNCHANGED <<shared, caches, req>>
      /\ work' = [w \in Worker |->
           IF work[w].phase = "idle" \/ work[w].caught THEN Idle ELSE retried(w)]
  BY DEF Stop
<1>2. RowsMove
  BY <1>1, Parts, RowsStay
<1>3. ASSUME NEW w \in Worker, work[w].phase # "idle"
      PROVE  retried(w) \in Task /\ retried(w).phase = "retrying"
             /\ retried(w).req = work[w].req
  BY <1>3, BusyRow DEF Task, Phase
<1>4. ASSUME NEW w \in Worker
      PROVE  /\ work'[w] \in Task /\ work'[w].phase \in {"idle", "retrying"}
             /\ work'[w].phase # "idle" =>
                  work'[w].req = work[w].req /\ work[w].phase # "idle"
  <2> HIDE DEF retried
  <2>1. QED
    BY <1>1, <1>3, IdleTask
<1>5. work' \in [Worker -> Task]
  <2>1. work' = [w \in Worker |-> work'[w]]
    BY <1>1
  <2>2. QED
    BY <1>4, <2>1
<1>6. WorkTypes'
  BY <1>2, <1>4, <1>5, Parts DEF WorkTypes, TaskHasRequest, RowsMove
<1>7. FlightTypes' /\ JobTypes' /\ FileTypes' /\ ProcessTypes' /\ HistoryTypes'
  BY <1>1, Parts, SharedStays, FilesStay, CutOffTypes DEF ProcessTypes
<1>8. QED
  BY <1>2, <1>4, <1>6, <1>7, Assembled DEF OtherStep, RowsMove, Typed

LEMMA CrashStep ==
  ASSUME Typed, NEW S \in SUBSET Worker, Crash(S)
  PROVE  OtherStep
<1>1. /\ mode' = "down" /\ CutOff(S) /\ UNCHANGED <<shared, caches, req>>
      /\ work' = [w \in Worker |-> Idle]
  BY DEF Crash
<1>2. RowsMove
  BY <1>1, Parts, RowsStay
<1>3. WorkTypes' /\ \A w \in Worker : work'[w].phase = "idle"
  BY <1>1, IdleTask DEF WorkTypes, TaskHasRequest
<1>4. FlightTypes' /\ JobTypes' /\ FileTypes' /\ ProcessTypes' /\ HistoryTypes'
  BY <1>1, Parts, SharedStays, FilesStay, CutOffTypes DEF ProcessTypes
<1>5. QED
  BY <1>2, <1>3, <1>4, Assembled DEF OtherStep, RowsMove, Typed

LEMMA ExitStep ==
  ASSUME Typed, Exit
  PROVE  OtherStep
<1>1. ProcessTypes'
  BY Parts DEF Exit, ProcessTypes
<1>2. FlightTypes' /\ JobTypes' /\ FileTypes' /\ HistoryTypes'
  BY Parts, SharedStays, FilesStay, HistoryStays DEF Exit
<1>3. QED
  BY <1>1, <1>2, AroundStep DEF Exit

LEMMA RestartStep ==
  ASSUME Typed, Restart
  PROVE  OtherStep
<1>1. UNCHANGED <<job, caches, work, stops, history>> /\ mode' = "up"
      /\ req' = [r \in Request |-> Recovered(req[r])]
  BY DEF Restart
<1>2. RowsMove
  BY <1>1, Parts, AllRecovered
<1>3. WorkTypes'
  BY <1>1, <1>2, Parts, WorkStays
<1>4. FlightTypes'
  <2>1. CASE Flights!Finish(OpenUploads, [j \in Job |-> "READY"])
    <3>1. OpenUploads \in SUBSET Fingerprint
      BY DEF OpenUploads
    <3>2. [j \in Job |-> "READY"] \in [Job -> Flights!Result]
      BY DEF Flights!Result
    <3>3. QED
      BY <2>1, <3>1, <3>2, Parts, FinishTypes
  <2>2. CASE UNCHANGED <<flight, sub>>
    BY <2>2, Parts, FlightsStay
  <2>3. QED
    BY <2>1, <2>2 DEF Restart
<1>5. JobTypes' /\ FileTypes' /\ ProcessTypes' /\ HistoryTypes'
  BY <1>1, Parts, FilesStay, HistoryStays DEF JobTypes, ProcessTypes
<1>6. QED
  BY <1>1, <1>2, <1>3, <1>4, <1>5, Assembled DEF OtherStep, RowsMove, Typed

-----------------------------------------------------------------------------
(* The theorems.                                                           *)

LEMMA InitDInv == DeliveryInit => DInv
<1> SUFFICES ASSUME DeliveryInit
             PROVE  DInv
  OBVIOUS
<1>1. FlightTypes /\ JobTypes
  BY DEF DeliveryInit, Flights!Init, FlightTypes, JobTypes, JobRecord
<1>2. FileTypes /\ HistoryTypes
  BY DEF DeliveryInit, FileTypes, HistoryTypes
<1>3. ProcessTypes
  BY DeliveryAssumption DEF DeliveryInit, ProcessTypes
<1>4. WorkTypes
  BY IdleTask DEF DeliveryInit, WorkTypes, TaskHasRequest
<1>5. RowTypes
  <2>1. NoRow \in RequestRow /\ NoRow.status = "NONE"
    <3> DEFINE new == NewRequest(NoFingerprint)
    <3>1. new \in RequestRow
      BY DEF NewRequest, RequestRow, Pending
    <3>2. NoRow = [new EXCEPT !.status = "NONE"]
      BY DEF NoRow
    <3> HIDE DEF new
    <3>3. QED
      BY <3>1, <3>2 DEF RequestRow
  <2>2. QED
    BY <2>1 DEF DeliveryInit, RowTypes, WantsArtifact
<1>6. Rewriting = {}
  BY IdleTask DEF DeliveryInit, Rewriting
<1>7. QED
  BY <1>1, <1>2, <1>3, <1>4, <1>5, <1>6, PartsOfType DEF DInv, Typed, RewriteFenced

\* What worker w does, but for the first half of a retry.
LEMMA WorkerSteps ==
  ASSUME DInv, NEW w \in Worker,
         ClaimDelivery(w) \/ (Proceed(w) /\ ~ReadForRetry(w)) \/ Abandon(w)
  PROVE  WorkerStep(w)
<1>1. Typed
  BY DEF DInv
<1>2. CASE ClaimDelivery(w)
  BY <1>1, <1>2, ClaimStep
<1>3. CASE PrepareFromCache(w) \/ PrepareFlight(w) \/ StorePreparation(w)
  BY <1>1, <1>3, PrepareFromCacheStep, PrepareFlightStep, StorePreparationStep
<1>4. CASE Resolve(w) \/ Attach(w) \/ CheckFile(w)
  BY <1>1, <1>4, ResolveStep, AttachStep, CheckFileStep
<1>5. CASE SendSucceeds(w) \/ AnswerLost(w) \/ SendFails(w) \/ FileRefused(w)
  BY <1>1, <1>5, SendSucceedsStep, AnswerLostStep, SendFailsStep, FileRefusedStep
<1>6. CASE RecordDelivery(w) \/ Invalidate(w) \/ ScheduleRepair(w) \/ EndDelivery(w)
  BY <1>1, <1>6, RecordDeliveryStep, InvalidateStep, ScheduleRepairStep, EndDeliveryStep
<1>7. CASE WriteRetry(w)
  <2>1. ~SplitRetry => Owned(w)
    BY <1>7 DEF DInv, RewriteFenced, Rewriting, WriteRetry
  <2>2. QED
    BY <1>1, <1>7, <2>1, WriteRetryStep
<1>8. CASE StepFails(w) \/ Abandon(w)
  BY <1>1, <1>8, StepFailsStep, AbandonStep
<1>9. QED
  BY <1>2, <1>3, <1>4, <1>5, <1>6, <1>7, <1>8 DEF Proceed

LEMMA OtherSteps ==
  ASSUME Typed,
         Others \/ Exit \/ Restart \/ \E S \in SUBSET Worker : Stop(S) \/ Crash(S)
  PROVE  OtherStep
<1>1. CASE Others
  BY <1>1, AskStep, LeaseExpiresStep, WithdrawStep, HandOffStep, StoreFileStep, FlightEndsStep
     DEF Others
<1>2. CASE Exit \/ Restart
  BY <1>2, ExitStep, RestartStep
<1>3. CASE \E S \in SUBSET Worker : Stop(S) \/ Crash(S)
  BY <1>3, StopStep, CrashStep
<1>4. QED
  BY <1>1, <1>2, <1>3

LEMMA NextDInv ==
  ASSUME DInv, [DeliveryNext]_dvars
  PROVE  DInv' /\ RowsMove
<1>1. Typed /\ (~SplitRetry => RewriteFenced)
  BY DEF DInv
<1>2. ASSUME NEW w \in Worker, InTurn(w),
             ClaimDelivery(w) \/ (Proceed(w) /\ ~ReadForRetry(w)) \/ Abandon(w)
      PROVE  DInv' /\ RowsMove
  <2>1. Typed' /\ RowsMove /\ WorkerMoves(w)
    BY <1>2, WorkerSteps DEF WorkerStep
  <2>2. ~SplitRetry => Rewriting' = {}
    BY <1>2, <2>1 DEF InTurn, Rewriting, WorkerMoves
  <2>3. QED
    BY <2>1, <2>2 DEF DInv, RewriteFenced
<1>3. ASSUME NEW w \in Worker, InTurn(w), ReadForRetry(w)
      PROVE  DInv' /\ RowsMove
  <2>1. /\ Typed' /\ RowsMove
        /\ \A v \in Worker \ {w} : work'[v] = work[v]
        /\ work'[w].phase \in {"requeue", "fail"} => Owned(w)'
    BY <1>1, <1>3, ReadForRetryStep
  <2>2. ~SplitRetry => RewriteFenced'
    <3> SUFFICES ASSUME ~SplitRetry, NEW v \in Rewriting'
                 PROVE  Owned(v)'
      BY DEF RewriteFenced
    <3>1. v \in Worker /\ work'[v].phase \in {"requeue", "fail"}
      BY DEF Rewriting
    <3>2. v = w
      BY <1>3, <2>1, <3>1 DEF InTurn, Rewriting
    <3>3. QED
      BY <2>1, <3>1, <3>2
  <2>3. QED
    BY <2>1, <2>2 DEF DInv
<1>4. CASE /\ SplitRetry \/ Rewriting = {}
           /\ Others \/ Exit \/ Restart \/ \E S \in SUBSET Worker : Stop(S) \/ Crash(S)
  <2>1. OtherStep
    BY <1>1, <1>4, OtherSteps
  <2>2. ~SplitRetry => Rewriting' = {}
    BY <1>4, <2>1 DEF OtherStep, Rewriting
  <2>3. QED
    BY <2>1, <2>2 DEF DInv, RewriteFenced, OtherStep
<1>5. CASE UNCHANGED dvars
  <2>1. UNCHANGED <<flight, sub, job, cache, entry, req, work, mode, stops, copies, doubt>>
    BY <1>5 DEF dvars
  <2>2. FlightTypes' /\ JobTypes' /\ FileTypes' /\ ProcessTypes' /\ HistoryTypes'
    BY <1>1, <2>1, Parts, SharedStays, FilesStay, ProcessStays, HistoryStays
       DEF shared, caches, process, history
  <2>3. OtherStep
    BY <1>1, <2>1, <2>2, AroundStep
  <2>4. RewriteFenced => RewriteFenced'
    BY <2>1 DEF RewriteFenced, Rewriting, Owned
  <2>5. QED
    BY <1>1, <2>3, <2>4 DEF DInv, OtherStep
<1>6. QED
  BY <1>2, <1>3, <1>4, <1>5 DEF DeliveryNext

\* The inductive invariant of the outbox.
THEOREM DeliveryInductive == DeliverySpec => []DInv
  BY InitDInv, NextDInv, PTL DEF DeliverySpec

\* Every reachable state of the outbox is well typed, with or without the
\* race of retry_or_fail.
THEOREM DeliveryTypeCorrect == DeliverySpec => []DeliveryTypeOK
<1>1. DInv => DeliveryTypeOK
  BY DEF DInv, Typed
<1>2. QED
  BY <1>1, DeliveryInductive, PTL

\* While nothing comes between the SELECT and the UPDATE of retry_or_fail, a
\* delivery that has ended is never touched again, by whatever worker still
\* holds an old claim of it, by recovery or by a restart.
THEOREM EndedDeliveriesStay ==
  ASSUME ~SplitRetry
  PROVE  DeliverySpec => SettledIsFinal
<1>1. DInv /\ [DeliveryNext]_dvars =>
        [\A r \in Request : req[r].status \in Settled => req'[r] = req[r]]_dvars
  BY NextDInv DEF RowsMove
<1>2. QED
  BY <1>1, DeliveryInductive, PTL DEF DeliverySpec, SettledIsFinal

-----------------------------------------------------------------------------
(***************************************************************************)
(* More theorems about TelegramDelivery, on top of its types: what a row   *)
(* says at the end is what its chat got, a second copy has a cause, nobody *)
(* is claimed before it was told a result, and claims are bounded.         *)
(***************************************************************************)
-----------------------------------------------------------------------------
(* What a chat got.                                                        *)

Sent == {"sent", "sentEntry"}

\* The phases of an except clause.
CaughtPhase ==
  {"retrying", "failing", "ending", "invalidating", "scheduling", "requeue", "fail"}

\* Only a leased row can expire, and a delivered one had a copy.
RowSound(r) ==
  /\ req[r].status # "SENDING" => ~req[r].expired
  /\ req[r].status = "DELIVERED" => copies[r] > 0

\* While nothing went unrecorded, a request is in the hands of the one worker
\* that holds its lease, and ...
Held(r) ==
  \A w \in Worker : work[w].req = r =>
    req[r].status = "SENDING" /\ req[r].owner = w /\ ~req[r].expired

\* ... its chat has the file exactly if the row says so or is about to.
GotIt(r) ==
  req[r].status = "DELIVERED" \/ \E w \in Worker : work[w].req = r /\ work[w].phase \in Sent

Counted(r) == copies[r] = IF GotIt(r) THEN 1 ELSE 0

TaskSound(w) ==
  /\ work[w].phase \in Sent => copies[work[w].req] > 0
  /\ work[w].caught => work[w].phase \in CaughtPhase

StoryInv ==
  /\ \A r \in Request : RowSound(r) /\ (r \notin doubt => Held(r) /\ Counted(r))
  /\ \A w \in Worker : TaskSound(w)

\* Worker w alone moves.
Alone(w) == \A v \in Worker \ {w} : work'[v] = work[v]

\* Rows look the same to the story.
RowsKept ==
  \A r \in Request : /\ req'[r].status = req[r].status /\ req'[r].owner = req[r].owner
                     /\ req'[r].expired = req[r].expired

\* The task goes on with its request or gives it up, and is not past a send.
LEMMA QuietStory ==
  ASSUME StoryInv, NEW w \in Worker, Alone(w), RowsKept, UNCHANGED history,
         work'[w].req \in {work[w].req, NoRequest},
         work[w].phase \notin Sent, work'[w].phase \notin Sent,
         work'[w].caught => work'[w].phase \in CaughtPhase
  PROVE  StoryInv'
<1>1. \A r \in Request : GotIt(r)' <=> GotIt(r)
  BY DEF Alone, RowsKept, GotIt
<1>2. ASSUME NEW r \in Request
      PROVE  RowSound(r)' /\ (r \notin doubt' => Held(r)' /\ Counted(r)')
  BY <1>1, DeliveryAssumption DEF StoryInv, RowSound, Held, Counted, Alone, RowsKept, history
<1>3. ASSUME NEW v \in Worker
      PROVE  TaskSound(v)'
  BY DEF StoryInv, TaskSound, Alone, history
<1>4. QED
  BY <1>2, <1>3 DEF StoryInv

\* The message is, or may be, out, and the history says that nobody knows.
LEMMA DoubtStory ==
  ASSUME Typed, StoryInv, NEW w \in Worker, work[w].phase # "idle", Alone(w), RowsKept,
         doubt' = doubt \cup {work[w].req},
         copies' \in [Request -> 0..2], \A r \in Request : copies'[r] >= copies[r],
         \A r \in Request \ {work[w].req} : copies'[r] = copies[r],
         work'[w].req = work[w].req, work'[w].phase \notin Sent,
         work'[w].caught => work'[w].phase \in CaughtPhase
  PROVE  StoryInv'
<1>1. copies \in [Request -> 0..2]
  BY Parts DEF HistoryTypes
<1>2. \A r \in Request \ {work[w].req} : GotIt(r)' <=> GotIt(r)
  BY DEF Alone, RowsKept, GotIt
<1>3. ASSUME NEW r \in Request
      PROVE  RowSound(r)' /\ (r \notin doubt' => Held(r)' /\ Counted(r)')
  <2>1. RowSound(r)'
    BY <1>1 DEF StoryInv, RowSound, RowsKept
  <2>2. CASE r \notin doubt'
    BY <1>2, <2>1, <2>2 DEF StoryInv, Held, Counted, Alone, RowsKept
  <2>3. QED
    BY <2>1, <2>2
<1>4. ASSUME NEW v \in Worker
      PROVE  TaskSound(v)'
  <2>1. CASE v = w
    BY <2>1 DEF TaskSound
  <2>2. CASE v # w
    <3>1. work'[v] = work[v] /\ TaskSound(v)
      BY <2>2 DEF Alone, StoryInv
    <3>2. work[v].phase \in Sent => work[v].req \in Request
      BY Parts DEF WorkTypes, TaskHasRequest, Sent
    <3>3. QED
      BY <1>1, <3>1, <3>2 DEF TaskSound
  <2>3. QED
    BY <2>1, <2>2
<1>5. QED
  BY <1>3, <1>4 DEF StoryInv

\* The task ends with a fenced update, or with none at all.
LEMMA SettleStory ==
  ASSUME Typed, StoryInv, NEW w \in Worker, work[w].phase # "idle",
         Rests(w), UNCHANGED history, NEW row,
         \/ req' = [req EXCEPT ![work[w].req] = row]
         \/ req' = req /\ work[w].req \in doubt,
         ~row.expired, row.status # "SENDING",
         row.status = "DELIVERED" <=> work[w].phase \in Sent
  PROVE  StoryInv'
<1> DEFINE q == work[w].req
<1>1. /\ work \in [Worker -> Task] /\ q \in Request /\ req \in [Request -> RequestRow]
      /\ copies \in [Request -> 0..2]
  BY Parts DEF WorkTypes, TaskHasRequest, RowTypes, HistoryTypes
<1>2. /\ work'[w] = Idle /\ Idle.phase = "idle" /\ Idle.req = NoRequest /\ ~Idle.caught
      /\ NoRequest \notin Request /\ Alone(w)
  BY <1>1, DeliveryAssumption DEF Rests, Idle, Alone
<1>3. "idle" \notin Sent
  BY DEF Sent
<1>4. UNCHANGED <<copies, doubt>>
  BY DEF history
<1>5. ASSUME NEW v \in Worker
      PROVE  TaskSound(v)'
  BY <1>2, <1>3, <1>4 DEF StoryInv, TaskSound, Alone
<1>6. ASSUME NEW r \in Request, r # q
      PROVE  RowSound(r)' /\ (r \notin doubt' => Held(r)' /\ Counted(r)')
  <2>1. req'[r] = req[r]
    BY <1>1, <1>6
  <2>2. GotIt(r)' <=> GotIt(r)
    BY <1>2, <1>3, <1>6, <2>1 DEF GotIt, Alone
  <2>3. QED
    BY <1>2, <1>4, <1>6, <2>1, <2>2 DEF StoryInv, RowSound, Held, Counted, Alone
<1>7. ASSUME NEW r \in Request, r = q
      PROVE  RowSound(r)'
  <2>1. CASE req' = req
    BY <1>4, <2>1 DEF StoryInv, RowSound
  <2>2. CASE req' = [req EXCEPT ![q] = row]
    <3>1. work[w].phase \in Sent => copies[r] > 0
      BY <1>7 DEF StoryInv, TaskSound
    <3>2. QED
      BY <1>1, <1>4, <1>7, <2>2, <3>1 DEF RowSound
  <2>3. QED
    BY <2>1, <2>2
<1>8. ASSUME NEW r \in Request, r = q, r \notin doubt
      PROVE  Held(r)' /\ Counted(r)'
  <2>1. req'[r] = row
    BY <1>1, <1>8
  <2>2. Held(r) /\ Counted(r)
    BY <1>8 DEF StoryInv
  <2>3. /\ \A v \in Worker : work[v].req = r => v = w
        /\ req[r].status # "DELIVERED"
    BY <1>8, <2>2 DEF Held
  <2>4. \A v \in Worker : work'[v].req # r
    BY <1>2, <1>8, <2>3 DEF Alone
  <2>5. GotIt(r)' <=> work[w].phase \in Sent
    BY <2>1, <2>4 DEF GotIt
  <2>6. GotIt(r) <=> work[w].phase \in Sent
    BY <1>8, <2>3 DEF GotIt
  <2>7. QED
    BY <1>4, <2>2, <2>4, <2>5, <2>6 DEF Held, Counted
<1>9. QED
  BY <1>4, <1>5, <1>6, <1>7, <1>8 DEF StoryInv

-----------------------------------------------------------------------------
(* The steps of a worker.                                                  *)

LEMMA RestFacts ==
  ASSUME Typed, NEW w \in Worker, Rests(w)
  PROVE  /\ Alone(w) /\ work'[w].req = NoRequest /\ work'[w].phase = "idle"
         /\ ~work'[w].caught
  BY Parts DEF Rests, Idle, WorkTypes, Alone

LEMMA PhaseFacts ==
  ASSUME Typed, NEW w \in Worker, NEW phase, Goes(w, phase) \/ Caught(w, phase)
  PROVE  /\ Alone(w) /\ work'[w].req = work[w].req /\ work'[w].phase = phase
         /\ Goes(w, phase) => work'[w].caught = work[w].caught
  BY Parts DEF Goes, Caught, WorkTypes, Task, Alone

LEMMA RestStory ==
  ASSUME Typed, StoryInv, NEW w \in Worker, work[w].phase \notin Sent, Rests(w), OnlyWork
  PROVE  StoryInv'
<1>1. RowsKept /\ UNCHANGED history
  BY DEF RowsKept, OnlyWork
<1>2. QED
  BY <1>1, RestFacts, QuietStory DEF Sent

LEMMA PhaseStory ==
  ASSUME Typed, StoryInv, NEW w \in Worker, NEW phase, OnlyWork,
         work[w].phase \notin Sent, phase \notin Sent,
         \/ Goes(w, phase) /\ (work[w].phase \in CaughtPhase => phase \in CaughtPhase)
         \/ Caught(w, phase) /\ phase \in CaughtPhase
  PROVE  StoryInv'
<1>1. RowsKept /\ UNCHANGED history
  BY DEF RowsKept, OnlyWork
<1>2. work[w].caught => work[w].phase \in CaughtPhase
  BY DEF StoryInv, TaskSound
<1>3. QED
  BY <1>1, <1>2, PhaseFacts, QuietStory

\* A fenced update of the worker's row, after which the worker rests.
LEMMA FencedStory ==
  ASSUME Typed, StoryInv, NEW w \in Worker, work[w].phase # "idle", Rests(w),
         UNCHANGED history, NEW row, ~row.expired, row.status # "SENDING",
         row.status = "DELIVERED" <=> work[w].phase \in Sent,
         req' = IF Owned(w) THEN [req EXCEPT ![work[w].req] = row] ELSE req
  PROVE  StoryInv'
<1>1. CASE Owned(w)
  BY <1>1, SettleStory
<1>2. CASE ~Owned(w)
  <2>1. work[w].req \in Request
    BY BusyRow
  <2>2. work[w].req \in doubt
    BY <1>2, <2>1 DEF StoryInv, Held, Owned
  <2>3. QED
    BY <1>2, <2>2, SettleStory
<1>3. QED
  BY <1>1, <1>2

LEMMA ReleasedFacts ==
  ASSUME NEW row \in RequestRow, NEW s
  PROVE  Released(row, s).status = s /\ ~Released(row, s).expired
  BY DEF Released, RequestRow

LEMMA PrepareStory ==
  ASSUME Typed, StoryInv, NEW w \in Worker, PrepareFromCache(w) \/ PrepareFlight(w)
  PROVE  StoryInv'
<1>1. /\ work[w].phase = "preparing" /\ RowsKept /\ UNCHANGED history
  BY DEF PrepareFromCache, PrepareFlight, OnlyWork, RowsKept
<1>2. \/ work' = [work EXCEPT ![w].phase = "storing", ![w].cached = TRUE]
      \/ \E j : work' = [work EXCEPT ![w].phase = "storing", ![w].job = j]
  BY DEF PrepareFromCache, PrepareFlight
<1>3. /\ Alone(w) /\ work'[w].req = work[w].req /\ work'[w].phase = "storing"
      /\ work'[w].caught = work[w].caught
  BY <1>2, Parts DEF WorkTypes, Task, Alone
<1>4. ~work[w].caught
  BY <1>1 DEF StoryInv, TaskSound, CaughtPhase
<1>5. QED
  BY <1>1, <1>3, <1>4, QuietStory DEF Sent

LEMMA StorePreparationStory ==
  ASSUME Typed, StoryInv, NEW w \in Worker, StorePreparation(w)
  PROVE  StoryInv'
<1> DEFINE x == work[w]
           s == IF x.cached THEN "QUEUED" ELSE "WAITING"
           row == [Released(req[x.req], s) EXCEPT !.cached = x.cached, !.job = x.job]
<1>1. /\ x.phase = "storing" /\ Rests(w) /\ UNCHANGED history
      /\ req' = IF Owned(w) THEN [req EXCEPT ![x.req] = row] ELSE req
  BY DEF StorePreparation, OnlyReq
<1>2. req[x.req] \in RequestRow
  BY <1>1, BusyRow
<1>3. s \notin {"SENDING", "DELIVERED"}
  OBVIOUS
<1>4. ~row.expired /\ row.status = s
  BY <1>2 DEF Released, RequestRow
<1> HIDE DEF row, s
<1>5. QED
  BY <1>1, <1>3, <1>4, FencedStory DEF Sent

LEMMA LookStory ==
  ASSUME Typed, StoryInv, NEW w \in Worker, Resolve(w) \/ CheckFile(w)
  PROVE  StoryInv'
<1>1. OnlyWork /\ work[w].phase \in {"resolving", "checking"}
  BY DEF Resolve, CheckFile
<1>2. PICK phase \in {"attaching", "retrying", "cancelling", "ending", "sending",
                      "invalidating"} :
        Goes(w, phase) \/ (Caught(w, phase) /\ phase = "retrying")
  BY DEF Resolve, CheckFile, Repair
<1>3. QED
  BY <1>1, <1>2, PhaseStory DEF Sent, CaughtPhase

LEMMA AttachStory ==
  ASSUME Typed, StoryInv, NEW w \in Worker, Attach(w)
  PROVE  StoryInv'
<1> DEFINE r == work[w].req
<1>1. work[w].phase = "attaching" /\ UNCHANGED history
  BY DEF Attach, OnlyReq
<1>2. /\ r \in Request /\ req \in [Request -> RequestRow]
  BY <1>1, BusyRow, Parts DEF RowTypes
<1>3. req' = IF Owned(w) THEN [req EXCEPT ![r] = [req[r] EXCEPT !.cached = TRUE]] ELSE req
  BY <1>2 DEF Attach
<1>4. RowsKept
  BY <1>2, <1>3 DEF RowsKept, RequestRow
<1>5. PICK phase \in {"checking", "ending"} :
        work' = [work EXCEPT ![w] = TaskOn(r, req'[r], phase)]
  BY DEF Attach
<1>6. /\ Alone(w) /\ work'[w].req = r /\ work'[w].phase = phase /\ ~work'[w].caught
  BY <1>5, Parts DEF WorkTypes, Alone, TaskOn
<1>7. QED
  BY <1>1, <1>4, <1>6, QuietStory DEF Sent

\* One message more.
LEMMA OneMore ==
  ASSUME Typed, NEW w \in Worker
  PROVE  MoreCopies({w}) = [copies EXCEPT ![work[w].req] =
           IF copies[work[w].req] = 2 THEN 2 ELSE copies[work[w].req] + 1]
<1> DEFINE q == work[w].req
<1>1. copies \in [Request -> 0..2]
  BY Parts DEF HistoryTypes
<1>2. ASSUME NEW r \in Request
      PROVE  MoreCopies({w})[r] =
               IF r # q THEN copies[r] ELSE IF copies[r] = 2 THEN 2 ELSE copies[r] + 1
  <2>1. MoreCopies({w})[r] = LET n == copies[r] + Cardinality({v \in {w} : work[v].req = r})
                             IN IF n > 2 THEN 2 ELSE n
    BY DEF MoreCopies
  <2>2. copies[r] \in 0..2
    BY <1>1
  <2>3. CASE r = q
    <3>1. {v \in {w} : work[v].req = r} = {w}
      BY <2>3
    <3>2. Cardinality({w}) = 1
      BY FS_Singleton
    <3>3. QED
      BY <2>1, <2>2, <2>3, <3>1, <3>2
  <2>4. CASE r # q
    <3>1. {v \in {w} : work[v].req = r} = {}
      BY <2>4
    <3>2. Cardinality({}) = 0
      BY FS_EmptySet
    <3>3. QED
      BY <2>1, <2>2, <2>4, <3>1, <3>2
  <2>5. QED
    BY <2>3, <2>4
<1>3. MoreCopies({w}) = [r \in Request |-> MoreCopies({w})[r]]
  BY DEF MoreCopies
<1>4. QED
  BY <1>1, <1>2, <1>3

LEMMA SendSucceedsStory ==
  ASSUME Typed, StoryInv, NEW w \in Worker, SendSucceeds(w)
  PROVE  StoryInv'
<1> DEFINE q == work[w].req
<1>1. /\ work[w].phase \in Sending /\ copies' = MoreCopies({w})
      /\ UNCHANGED <<req, doubt>>
  BY DEF SendSucceeds
<1>2. PICK phase \in Sent : Goes(w, phase)
  BY DEF SendSucceeds, Sent
<1>3. /\ Alone(w) /\ work'[w].req = q /\ work'[w].phase \in Sent
      /\ work'[w].caught = work[w].caught
  BY <1>2, PhaseFacts
<1>4. work[w].phase \notin Sent /\ ~work[w].caught /\ q \in Request
  <2>1. work[w].phase # "idle"
    BY <1>1 DEF Sending
  <2>2. QED
    BY <1>1, <2>1, BusyRow DEF Sending, Sent, CaughtPhase, StoryInv, TaskSound
<1>5. copies \in [Request -> 0..2]
  BY Parts DEF HistoryTypes
<1>6. ASSUME NEW r \in Request
      PROVE  copies'[r] = IF r # q THEN copies[r] ELSE IF copies[r] = 0 THEN 1 ELSE 2
  <2>1. copies' = [copies EXCEPT ![q] = IF copies[q] = 2 THEN 2 ELSE copies[q] + 1]
    BY <1>1, OneMore
  <2>2. copies[r] \in 0..2
    BY <1>5
  <2>3. QED
    BY <1>4, <1>5, <2>1, <2>2
<1>7. ASSUME NEW r \in Request, r # q
      PROVE  RowSound(r)' /\ (r \notin doubt' => Held(r)' /\ Counted(r)')
  <2>1. GotIt(r)' <=> GotIt(r)
    BY <1>1, <1>3, <1>7 DEF GotIt, Alone
  <2>2. copies'[r] = copies[r]
    BY <1>6, <1>7
  <2>3. QED
    BY <1>1, <1>3, <1>7, <2>1, <2>2 DEF StoryInv, RowSound, Held, Counted, Alone
<1>8. ASSUME NEW r \in Request, r = q
      PROVE  RowSound(r)' /\ (r \notin doubt' => Held(r)' /\ Counted(r)')
  <2>1. copies'[r] > 0
    BY <1>6, <1>8
  <2>2. RowSound(r)'
    BY <1>1, <2>1 DEF StoryInv, RowSound
  <2>3. CASE r \notin doubt
    <3>1. Held(r) /\ Counted(r)
      BY <2>3 DEF StoryInv
    <3>2. Held(r)'
      BY <1>1, <1>3, <3>1 DEF Held, Alone
    <3>3. ~GotIt(r)
      BY <1>4, <1>8, <3>1 DEF GotIt, Held
    <3>4. GotIt(r)'
      BY <1>3, <1>8 DEF GotIt
    <3>5. copies'[r] = 1
      BY <1>6, <1>8, <3>1, <3>3 DEF Counted
    <3>6. QED
      BY <2>2, <3>2, <3>4, <3>5 DEF Counted
  <2>4. QED
    BY <1>1, <2>2, <2>3
<1>9. ASSUME NEW v \in Worker
      PROVE  TaskSound(v)'
  <2>1. CASE v = w
    <3>1. \A r \in Request : r = q => copies'[r] > 0
      BY <1>6
    <3>2. copies'[work'[w].req] > 0
      BY <1>3, <1>4, <3>1
    <3>3. QED
      BY <1>3, <1>4, <2>1, <3>2 DEF TaskSound
  <2>2. CASE v # w
    <3>1. work'[v] = work[v] /\ TaskSound(v)
      BY <1>3, <2>2 DEF Alone, StoryInv
    <3>2. work[v].phase \in Sent => work[v].req \in Request
      BY Parts DEF WorkTypes, TaskHasRequest, Sent
    <3>3. QED
      BY <1>5, <1>6, <3>1, <3>2 DEF TaskSound
  <2>3. QED
    BY <2>1, <2>2
<1>10. QED
  BY <1>7, <1>8, <1>9 DEF StoryInv

LEMMA MoreIsMore ==
  ASSUME Typed, NEW S \in SUBSET Worker
  PROVE  /\ MoreCopies(S) \in [Request -> 0..2]
         /\ \A r \in Request :
              /\ MoreCopies(S)[r] >= copies[r]
              /\ (\A w \in S : work[w].req # r) => MoreCopies(S)[r] = copies[r]
<1> SUFFICES ASSUME NEW r \in Request
             PROVE  /\ MoreCopies(S)[r] >= copies[r]
                    /\ (\A w \in S : work[w].req # r) => MoreCopies(S)[r] = copies[r]
  BY Parts, FewCopies
<1> DEFINE T == {w \in S : work[w].req = r}
<1>1. IsFiniteSet(Worker) /\ T \subseteq Worker
  BY DeliveryAssumption
<1>2. Cardinality(T) \in Nat
  BY <1>1, FS_Subset, FS_CardinalityType
<1>3. copies[r] \in 0..2
  BY Parts DEF HistoryTypes
<1>4. (\A w \in S : work[w].req # r) => Cardinality(T) = 0
  <2>1. SUFFICES ASSUME \A w \in S : work[w].req # r
                 PROVE  Cardinality(T) = 0
    OBVIOUS
  <2>2. T = {}
    BY <2>1
  <2>3. QED
    BY <2>2, FS_EmptySet
<1>5. MoreCopies(S)[r] = LET n == copies[r] + Cardinality(T) IN IF n > 2 THEN 2 ELSE n
  BY DEF MoreCopies
<1> HIDE DEF T
<1>6. QED
  BY <1>2, <1>3, <1>4, <1>5

LEMMA AnswerLostStory ==
  ASSUME Typed, StoryInv, NEW w \in Worker, AnswerLost(w)
  PROVE  StoryInv'
<1>1. /\ work[w].phase \in Sending /\ copies' = MoreCopies({w}) /\ RowsKept
      /\ doubt' = doubt \cup {work[w].req}
  BY DEF AnswerLost, RowsKept
<1>2. Goes(w, "retrying") \/ Caught(w, "retrying")
  BY DEF AnswerLost, Refused
<1>3. /\ Alone(w) /\ work'[w].req = work[w].req /\ work'[w].phase = "retrying"
  BY <1>2, PhaseFacts
<1>4. /\ copies' \in [Request -> 0..2] /\ \A r \in Request : copies'[r] >= copies[r]
      /\ \A r \in Request \ {work[w].req} : copies'[r] = copies[r]
  BY <1>1, MoreIsMore
<1>5. work[w].phase # "idle" /\ "retrying" \notin Sent /\ "retrying" \in CaughtPhase
  BY <1>1 DEF Sending, Sent, CaughtPhase
<1>6. QED
  BY <1>1, <1>3, <1>4, <1>5, DoubtStory

LEMMA SendFailsStory ==
  ASSUME Typed, StoryInv, NEW w \in Worker, SendFails(w)
  PROVE  StoryInv'
<1>1. OnlyWork /\ work[w].phase \notin Sent
  BY DEF SendFails, Sending, Sent
<1>2. PICK phase \in {"retrying", "failing"} : Goes(w, phase) \/ Caught(w, phase)
  BY DEF SendFails, Refused
<1>3. QED
  BY <1>1, <1>2, PhaseStory DEF Sent, CaughtPhase

LEMMA FileRefusedStory ==
  ASSUME Typed, StoryInv, NEW w \in Worker, FileRefused(w)
  PROVE  StoryInv'
<1>1. CASE work[w].phase = "sending"
  <2>1. OnlyWork /\ \E phase \in {"ending", "invalidating"} : Caught(w, phase)
    BY <1>1 DEF FileRefused, Repair
  <2>2. QED
    BY <1>1, <2>1, PhaseStory DEF Sent, CaughtPhase
<1>2. CASE work[w].phase = "sendingEntry"
  <2>1. /\ RowsKept /\ UNCHANGED history
        /\ \E phase \in {"checking", "resolving", "preparing"} : Goes(w, phase)
    BY <1>2, RoutePhase DEF FileRefused, RowsKept
  <2>2. ~work[w].caught
    BY <1>2 DEF StoryInv, TaskSound, CaughtPhase
  <2>3. QED
    BY <1>2, <2>1, <2>2, PhaseFacts, QuietStory DEF Sent
<1>3. QED
  BY <1>1, <1>2 DEF FileRefused

LEMMA RecordDeliveryStory ==
  ASSUME Typed, StoryInv, NEW w \in Worker, RecordDelivery(w)
  PROVE  StoryInv'
<1> DEFINE row == Released(req[work[w].req], "DELIVERED")
<1>1. /\ work[w].phase \in Sent /\ Rests(w) /\ UNCHANGED history
      /\ req' = IF Owned(w) THEN [req EXCEPT ![work[w].req] = row] ELSE req
  BY DEF RecordDelivery, Sent
<1>2. work[w].phase # "idle"
  BY <1>1 DEF Sent
<1>3. row.status = "DELIVERED" /\ ~row.expired
  BY <1>2, BusyRow, ReleasedFacts
<1> HIDE DEF row
<1>4. QED
  BY <1>1, <1>2, <1>3, FencedStory

LEMMA InvalidateStory ==
  ASSUME Typed, StoryInv, NEW w \in Worker, Invalidate(w)
  PROVE  StoryInv'
<1>1. /\ work[w].phase = "invalidating" /\ Goes(w, "scheduling") /\ RowsKept
      /\ UNCHANGED history
  BY DEF Invalidate, RowsKept
<1>2. QED
  BY <1>1, PhaseFacts, QuietStory DEF Sent, CaughtPhase

LEMMA ScheduleRepairStory ==
  ASSUME Typed, StoryInv, NEW w \in Worker, ScheduleRepair(w)
  PROVE  StoryInv'
<1> DEFINE row == [Released(req[work[w].req], "QUEUED")
                     EXCEPT !.repairs = 1, !.cached = FALSE, !.job = 0]
<1>1. /\ work[w].phase = "scheduling" /\ Rests(w) /\ OnlyReq /\ UNCHANGED history
      /\ req' = IF Owned(w) /\ req[work[w].req].repairs = 0
                THEN [req EXCEPT ![work[w].req] = row] ELSE req
  BY DEF ScheduleRepair, OnlyReq
<1>2. req[work[w].req] \in RequestRow
  BY <1>1, BusyRow
<1>3. row.status = "QUEUED" /\ ~row.expired
  BY <1>2 DEF Released, RequestRow
<1> HIDE DEF row
<1>4. CASE req' = req
  BY <1>1, <1>4, RestStory DEF OnlyReq, OnlyWork, Sent
<1>5. CASE req' = [req EXCEPT ![work[w].req] = row]
  BY <1>1, <1>3, <1>5, SettleStory DEF Sent
<1>6. QED
  BY <1>1, <1>4, <1>5

LEMMA EndDeliveryStory ==
  ASSUME Typed, StoryInv, NEW w \in Worker, EndDelivery(w)
  PROVE  StoryInv'
<1> DEFINE s == IF work[w].phase = "ending" THEN "FAILED" ELSE "CANCELLED"
           row == Released(req[work[w].req], s)
<1>1. /\ work[w].phase \in {"ending", "cancelling"} /\ Rests(w) /\ UNCHANGED history
      /\ req' = IF Owned(w) THEN [req EXCEPT ![work[w].req] = row] ELSE req
  BY DEF EndDelivery, OnlyReq
<1>2. s \notin {"SENDING", "DELIVERED"}
  OBVIOUS
<1> HIDE DEF s
<1>3. row.status = s /\ ~row.expired
  BY <1>1, BusyRow, ReleasedFacts
<1> HIDE DEF row
<1>4. QED
  BY <1>1, <1>2, <1>3, FencedStory DEF Sent

LEMMA ReadForRetryStory ==
  ASSUME Typed, StoryInv, NEW w \in Worker, ReadForRetry(w)
  PROVE  StoryInv'
<1>1. OnlyWork /\ work[w].phase \in {"retrying", "failing"}
  BY DEF ReadForRetry
<1>2. Rests(w) \/ \E phase \in {"requeue", "fail"} : Goes(w, phase)
  BY DEF ReadForRetry
<1>3. QED
  BY <1>1, <1>2, RestStory, PhaseStory DEF Sent, CaughtPhase

\* The late half of a retry is not fenced, but whoever has lost the lease to
\* another has done so under a working task, which is a doubt.
LEMMA WriteRetryStory ==
  ASSUME Typed, StoryInv, NEW w \in Worker, WriteRetry(w)
  PROVE  StoryInv'
<1> DEFINE s == IF work[w].phase = "requeue" THEN "QUEUED" ELSE "FAILED"
           row == Released(req[work[w].req], s)
<1>1. /\ work[w].phase \in {"requeue", "fail"} /\ Rests(w) /\ UNCHANGED history
      /\ req' = [req EXCEPT ![work[w].req] = row]
  BY DEF WriteRetry, OnlyReq
<1>2. s \notin {"SENDING", "DELIVERED"}
  OBVIOUS
<1> HIDE DEF s
<1>3. row.status = s /\ ~row.expired
  BY <1>1, BusyRow, ReleasedFacts
<1> HIDE DEF row
<1>4. QED
  BY <1>1, <1>2, <1>3, SettleStory DEF Sent

LEMMA StepFailsStory ==
  ASSUME Typed, StoryInv, NEW w \in Worker, StepFails(w)
  PROVE  StoryInv'
<1>1. /\ work[w].phase # "idle" /\ Caught(w, "retrying") /\ RowsKept
      /\ copies' = copies
      /\ doubt' = IF work[w].phase \in Sent THEN doubt \cup {work[w].req} ELSE doubt
  BY DEF StepFails, RowsKept, Sent
<1>2. /\ Alone(w) /\ work'[w].req = work[w].req /\ work'[w].phase = "retrying"
      /\ "retrying" \notin Sent /\ "retrying" \in CaughtPhase
  BY <1>1, PhaseFacts DEF Sent, CaughtPhase
<1>3. CASE work[w].phase \in Sent
  <2>1. copies \in [Request -> 0..2]
    BY Parts DEF HistoryTypes
  <2>2. \A r \in Request : copies'[r] >= copies[r]
    BY <1>1, <2>1
  <2>3. QED
    BY <1>1, <1>2, <1>3, <2>1, <2>2, DoubtStory
<1>4. CASE work[w].phase \notin Sent
  BY <1>1, <1>2, <1>4, QuietStory DEF history
<1>5. QED
  BY <1>3, <1>4

LEMMA AbandonStory ==
  ASSUME Typed, StoryInv, NEW w \in Worker, Abandon(w)
  PROVE  StoryInv'
<1>1. Rests(w) /\ OnlyWork /\ work[w].phase \in CaughtPhase
  BY DEF Abandon, StoryInv, TaskSound
<1>2. QED
  BY <1>1, RestStory DEF Sent, CaughtPhase

LEMMA RecoveredFacts ==
  ASSUME NEW row \in RequestRow
  PROVE  /\ ~(row.status = "SENDING" /\ row.expired) => Recovered(row) = row
         /\ row.status = "SENDING" /\ row.expired =>
              Recovered(row).status \in {"QUEUED", "FAILED"} /\ ~Recovered(row).expired
         /\ Recovered(row).job = row.job /\ Recovered(row).cached = row.cached
         /\ Recovered(row).repairs = row.repairs /\ Recovered(row).attempts = row.attempts
  BY DEF Recovered, Released, RequestRow

\* Expired leases are given up: nobody works on them.
LEMMA RecoveryStory ==
  ASSUME Typed, StoryInv, NEW r \in Request, NEW rows,
         rows = [q \in Request |-> Recovered(req[q])]
  PROVE  /\ rows[r].status # "SENDING" => ~rows[r].expired
         /\ rows[r].status = "DELIVERED" <=> req[r].status = "DELIVERED"
         /\ r \notin doubt /\ rows[r] # req[r] => \A w \in Worker : work[w].req # r
<1>1. req[r] \in RequestRow /\ rows[r] = Recovered(req[r])
  BY Parts DEF RowTypes
<1>2. QED
  BY <1>1, RecoveredFacts DEF StoryInv, RowSound, Held

LEMMA ClaimStory ==
  ASSUME Typed, StoryInv, NEW w \in Worker, ClaimDelivery(w)
  PROVE  StoryInv'
<1> DEFINE rows == [q \in Request |-> Recovered(req[q])]
<1>1. /\ UNCHANGED <<copies, doubt>> /\ work[w].phase = "idle"
      /\ work \in [Worker -> Task] /\ req \in [Request -> RequestRow]
  BY Parts DEF ClaimDelivery, OnlyReq, history, WorkTypes, RowTypes
<1>2. \A r \in Request :
         /\ rows[r].status # "SENDING" => ~rows[r].expired
         /\ rows[r].status = "DELIVERED" <=> req[r].status = "DELIVERED"
         /\ r \notin doubt /\ rows[r] # req[r] => \A v \in Worker : work[v].req # r
         /\ rows[r] \in RequestRow
  <2> SUFFICES ASSUME NEW r \in Request
               PROVE  /\ rows[r].status # "SENDING" => ~rows[r].expired
                      /\ rows[r].status = "DELIVERED" <=> req[r].status = "DELIVERED"
                      /\ r \notin doubt /\ rows[r] # req[r] =>
                           \A v \in Worker : work[v].req # r
                      /\ rows[r] \in RequestRow
    OBVIOUS
  <2>1. rows[r] \in RequestRow
    BY <1>1, RecoveredRow
  <2>2. rows = [q \in Request |-> Recovered(req[q])]
    OBVIOUS
  <2> HIDE DEF rows
  <2>3. QED
    BY <2>1, <2>2, RecoveryStory
<1> HIDE DEF rows
<1>3. CASE req' = rows /\ UNCHANGED work
  <2>1. ASSUME NEW r \in Request
        PROVE  RowSound(r)' /\ (r \notin doubt' => Held(r)' /\ Counted(r)')
    <3>1. GotIt(r)' <=> GotIt(r)
      BY <1>2, <1>3 DEF GotIt
    <3>2. QED
      BY <1>1, <1>2, <1>3, <3>1 DEF StoryInv, RowSound, Held, Counted
  <2>2. \A v \in Worker : TaskSound(v)'
    BY <1>1, <1>3 DEF StoryInv, TaskSound
  <2>3. QED
    BY <2>1, <2>2 DEF StoryInv
<1>4. CASE \E r \in Request :
             /\ Claimable(rows, r)
             /\ req' = [rows EXCEPT ![r] = Claimed(rows[r], w)]
             /\ work' = [work EXCEPT ![w] = TaskOn(r, rows[r],
                  IF rows[r].wants \in entry THEN "sendingEntry" ELSE Route(rows[r]))]
  <2>1. PICK q \in Request :
          /\ Claimable(rows, q)
          /\ req' = [rows EXCEPT ![q] = Claimed(rows[q], w)]
          /\ work' = [work EXCEPT ![w] = TaskOn(q, rows[q],
               IF rows[q].wants \in entry THEN "sendingEntry" ELSE Route(rows[q]))]
    BY <1>4
  <2>2. /\ Alone(w) /\ work'[w].req = q /\ ~work'[w].caught
        /\ work'[w].phase \in {"sendingEntry", "checking", "resolving", "preparing"}
    BY <1>1, <2>1, RoutePhase DEF Alone, TaskOn
  <2>3. work'[w].phase \notin Sent /\ work[w].phase \notin Sent
    BY <1>1, <2>2 DEF Sent
  <2>4. rows[q].status \in {"QUEUED", "WAITING"} /\ ~rows[q].expired
    BY <1>2, <2>1 DEF Claimable
  <2>5. /\ req'[q].status = "SENDING" /\ req'[q].owner = w /\ ~req'[q].expired
        /\ \A r \in Request : r # q => req'[r] = rows[r]
    <3>1. req'[q] = Claimed(rows[q], w) /\ \A r \in Request : r # q => req'[r] = rows[r]
      <4>1. rows \in [Request -> RequestRow]
        BY <1>1, RecoveredRow DEF rows
      <4>2. QED
        BY <2>1, <4>1
    <3>2. rows[q] \in RequestRow
      BY <1>2
    <3>3. QED
      BY <2>4, <3>1, <3>2 DEF Claimed, RequestRow
  <2>6. ASSUME NEW r \in Request, r # q
        PROVE  RowSound(r)' /\ (r \notin doubt' => Held(r)' /\ Counted(r)')
    <3>1. GotIt(r)' <=> GotIt(r)
      BY <1>2, <2>2, <2>3, <2>5, <2>6 DEF GotIt, Alone
    <3>2. QED
      BY <1>1, <1>2, <2>2, <2>5, <2>6, <3>1 DEF StoryInv, RowSound, Held, Counted, Alone
  <2>7. RowSound(q)'
    BY <2>5 DEF RowSound
  <2>8. ASSUME q \notin doubt
        PROVE  Held(q)' /\ Counted(q)'
    <3>1. Held(q) /\ Counted(q)
      BY <2>8 DEF StoryInv
    <3>2. \A v \in Worker : work[v].req # q
      BY <1>2, <2>4, <2>8, <3>1 DEF Held
    <3>3. Held(q)'
      BY <2>2, <2>5, <3>2 DEF Held, Alone
    <3>4. ~GotIt(q) /\ ~GotIt(q)'
      BY <1>2, <2>2, <2>3, <2>4, <2>5, <3>2 DEF GotIt, Alone
    <3>5. QED
      BY <1>1, <3>1, <3>3, <3>4 DEF Counted
  <2>9. ASSUME NEW v \in Worker
        PROVE  TaskSound(v)'
    BY <1>1, <2>2, <2>3 DEF StoryInv, TaskSound, Alone
  <2>10. QED
    BY <1>1, <2>6, <2>7, <2>8, <2>9 DEF StoryInv
<1>5. QED
  BY <1>3, <1>4 DEF ClaimDelivery, rows

-----------------------------------------------------------------------------
(* Everybody else, and the theorems.                                       *)

LEMMA AroundStory ==
  ASSUME StoryInv, UNCHANGED <<req, work, copies, doubt>>
  PROVE  StoryInv'
<1>1. \A r \in Request : GotIt(r)' <=> GotIt(r)
  BY DEF GotIt
<1>2. QED
  BY <1>1 DEF StoryInv, RowSound, Held, Counted, TaskSound

LEMMA AskStory ==
  ASSUME Typed, StoryInv, NEW q \in Request, NEW f \in Fingerprint, Ask(q, f)
  PROVE  StoryInv'
<1>1. /\ UNCHANGED <<work, copies, doubt>> /\ req[q].status = "NONE"
      /\ req \in [Request -> RequestRow]
  BY Parts DEF Ask, history, RowTypes
<1>2. /\ req'[q].status = "QUEUED" /\ ~req'[q].expired
      /\ \A r \in Request : r # q => req'[r] = req[r]
  BY <1>1 DEF Ask, NewRequest
<1>3. ASSUME NEW r \in Request
      PROVE  RowSound(r)' /\ (r \notin doubt' => Held(r)' /\ Counted(r)')
  <2>1. GotIt(r)' <=> GotIt(r)
    BY <1>1, <1>2 DEF GotIt
  <2>2. QED
    BY <1>1, <1>2, <2>1 DEF StoryInv, RowSound, Held, Counted
<1>4. \A w \in Worker : TaskSound(w)'
  BY <1>1 DEF StoryInv, TaskSound
<1>5. QED
  BY <1>3, <1>4 DEF StoryInv

LEMMA LeaseExpiresStory ==
  ASSUME Typed, StoryInv, NEW q \in Request, LeaseExpires(q)
  PROVE  StoryInv'
<1>1. /\ UNCHANGED <<work, copies>> /\ req[q].status = "SENDING"
      /\ req \in [Request -> RequestRow]
      /\ doubt' = IF Unattended(q) THEN doubt ELSE doubt \cup {q}
  BY Parts DEF LeaseExpires, RowTypes
<1>2. /\ req'[q].status = "SENDING" /\ req'[q].owner = req[q].owner
      /\ \A r \in Request : r # q => req'[r] = req[r]
  BY <1>1 DEF LeaseExpires, RequestRow
<1>3. ASSUME NEW r \in Request
      PROVE  RowSound(r)' /\ (r \notin doubt' => Held(r)' /\ Counted(r)')
  <2>1. GotIt(r)' <=> GotIt(r)
    BY <1>1, <1>2 DEF GotIt
  <2>2. CASE r # q
    BY <1>1, <1>2, <2>1, <2>2 DEF StoryInv, RowSound, Held, Counted
  <2>3. CASE r = q
    <3>1. r \notin doubt' => \A w \in Worker : work[w].req # r
      BY <1>1, <2>3 DEF Unattended
    <3>2. QED
      BY <1>1, <1>2, <2>1, <2>3, <3>1 DEF StoryInv, RowSound, Held, Counted
  <2>4. QED
    BY <2>2, <2>3
<1>4. \A w \in Worker : TaskSound(w)'
  BY <1>1 DEF StoryInv, TaskSound
<1>5. QED
  BY <1>3, <1>4 DEF StoryInv

\* A stop or a crash: whatever was past a send, or may have been, is in doubt.
LEMMA CutOffStory ==
  ASSUME Typed, StoryInv, NEW S \in SUBSET Worker, CutOff(S), UNCHANGED req,
         \A w \in Worker :
           /\ work'[w].phase \notin Sent
           /\ work'[w].req \in {work[w].req, NoRequest}
           /\ work'[w].caught => work'[w].phase \in CaughtPhase
  PROVE  StoryInv'
<1>1. /\ copies' \in [Request -> 0..2] /\ copies \in [Request -> 0..2]
      /\ \A r \in Request :
           /\ copies'[r] >= copies[r]
           /\ (\A w \in S : work[w].req # r) => copies'[r] = copies[r]
  BY Parts, MoreIsMore DEF CutOff, HistoryTypes
<1>2. doubt' = doubt \cup {work[w].req : w \in S \cup {v \in Worker : work[v].phase \in Sent}}
  BY DEF CutOff, Sent
<1>3. ASSUME NEW r \in Request
      PROVE  RowSound(r)' /\ (r \notin doubt' => Held(r)' /\ Counted(r)')
  <2>1. RowSound(r)'
    BY <1>1 DEF StoryInv, RowSound
  <2>2. ASSUME r \notin doubt'
        PROVE  Held(r)' /\ Counted(r)'
    <3>1. /\ r \notin doubt /\ copies'[r] = copies[r]
          /\ \A w \in Worker : work[w].phase \in Sent => work[w].req # r
      BY <1>1, <1>2, <2>2
    <3>2. GotIt(r)' <=> GotIt(r)
      BY <3>1 DEF GotIt
    <3>3. QED
      BY <3>1, <3>2, DeliveryAssumption DEF StoryInv, Held, Counted
  <2>3. QED
    BY <2>1, <2>2
<1>4. \A w \in Worker : TaskSound(w)'
  BY DEF TaskSound
<1>5. QED
  BY <1>3, <1>4 DEF StoryInv

LEMMA StopStory ==
  ASSUME Typed, StoryInv, NEW S \in SUBSET Worker, Stop(S) \/ Crash(S)
  PROVE  StoryInv'
<1>1. CutOff(S) /\ UNCHANGED req
  BY DEF Stop, Crash
<1>2. ASSUME NEW w \in Worker
      PROVE  /\ work'[w].phase \notin Sent
             /\ work'[w].req \in {work[w].req, NoRequest}
             /\ work'[w].caught => work'[w].phase \in CaughtPhase
  <2>1. work[w] \in Task
    BY Parts DEF WorkTypes
  <2>2. \/ work'[w] = Idle
        \/ work'[w] = [work[w] EXCEPT !.phase = "retrying", !.caught = TRUE]
    BY DEF Stop, Crash
  <2>3. CASE work'[w] = Idle
    <3>1. Idle.phase = "idle" /\ Idle.req = NoRequest /\ Idle.caught = FALSE
      BY DEF Idle
    <3>2. QED
      BY <2>3, <3>1 DEF Sent
  <2>4. CASE work'[w] = [work[w] EXCEPT !.phase = "retrying", !.caught = TRUE]
    <3>1. /\ work'[w].phase = "retrying" /\ work'[w].req = work[w].req
      BY <2>1, <2>4 DEF Task
    <3>2. QED
      BY <3>1 DEF Sent, CaughtPhase
  <2>5. QED
    BY <2>2, <2>3, <2>4
<1>3. QED
  BY <1>1, <1>2, CutOffStory

LEMMA RestartStory ==
  ASSUME Typed, StoryInv, Restart
  PROVE  StoryInv'
<1>1. UNCHANGED <<work, copies, doubt>> /\ req' = [r \in Request |-> Recovered(req[r])]
  BY DEF Restart, history
<1>2. ASSUME NEW r \in Request
      PROVE  RowSound(r)' /\ (r \notin doubt' => Held(r)' /\ Counted(r)')
  <2>1. /\ req'[r].status # "SENDING" => ~req'[r].expired
        /\ req'[r].status = "DELIVERED" <=> req[r].status = "DELIVERED"
        /\ r \notin doubt /\ req'[r] # req[r] => \A w \in Worker : work[w].req # r
    <3>1. PICK rows : rows = req'
      OBVIOUS
    <3>2. QED
      BY <1>1, <3>1, RecoveryStory
  <2>2. GotIt(r)' <=> GotIt(r)
    BY <1>1, <2>1 DEF GotIt
  <2>3. QED
    BY <1>1, <2>1, <2>2 DEF StoryInv, RowSound, Held, Counted
<1>3. \A w \in Worker : TaskSound(w)'
  BY <1>1 DEF StoryInv, TaskSound
<1>4. QED
  BY <1>2, <1>3 DEF StoryInv

LEMMA InitStory == DeliveryInit => StoryInv
<1> SUFFICES ASSUME DeliveryInit
             PROVE  StoryInv
  OBVIOUS
<1>1. \A r \in Request : req[r].status = "NONE" /\ ~req[r].expired /\ copies[r] = 0
  BY DEF DeliveryInit, NoRow, NewRequest
<1>2. \A w \in Worker : work[w].phase = "idle" /\ ~work[w].caught /\ work[w].req = NoRequest
  BY DEF DeliveryInit, Idle
<1>3. \A r \in Request : ~GotIt(r)
  BY <1>1, <1>2 DEF GotIt, Sent
<1>4. QED
  BY <1>1, <1>2, <1>3, DeliveryAssumption DEF StoryInv, RowSound, Held, Counted, TaskSound, Sent

LEMMA NextStory ==
  ASSUME Typed, StoryInv, [DeliveryNext]_dvars
  PROVE  StoryInv'
<1>1. ASSUME NEW w \in Worker, ClaimDelivery(w) \/ Proceed(w) \/ Abandon(w)
      PROVE  StoryInv'
  <2>1. CASE ClaimDelivery(w) \/ Abandon(w) \/ StepFails(w)
    BY <2>1, ClaimStory, AbandonStory, StepFailsStory
  <2>2. CASE PrepareFromCache(w) \/ PrepareFlight(w) \/ StorePreparation(w)
    BY <2>2, PrepareStory, StorePreparationStory
  <2>3. CASE Resolve(w) \/ Attach(w) \/ CheckFile(w)
    BY <2>3, LookStory, AttachStory
  <2>4. CASE SendSucceeds(w) \/ AnswerLost(w) \/ SendFails(w) \/ FileRefused(w)
    BY <2>4, SendSucceedsStory, AnswerLostStory, SendFailsStory, FileRefusedStory
  <2>5. CASE RecordDelivery(w) \/ Invalidate(w) \/ ScheduleRepair(w) \/ EndDelivery(w)
    BY <2>5, RecordDeliveryStory, InvalidateStory, ScheduleRepairStory, EndDeliveryStory
  <2>6. CASE ReadForRetry(w) \/ WriteRetry(w)
    BY <2>6, ReadForRetryStory, WriteRetryStory
  <2>7. QED
    BY <1>1, <2>1, <2>2, <2>3, <2>4, <2>5, <2>6 DEF Proceed
<1>2. CASE Others
  <2>1. CASE \E r \in Request, f \in Fingerprint : Ask(r, f)
    BY <2>1, AskStory
  <2>2. CASE \E r \in Request : LeaseExpires(r)
    BY <2>2, LeaseExpiresStory
  <2>3. CASE \/ \E r \in Request, f \in Fingerprint : Withdraw(r, f)
             \/ \E j \in Job : HandOff(j) \/ StoreFile(j)
             \/ \E f \in Fingerprint : FlightEnds(f)
    BY <2>3, AroundStory
       DEF Withdraw, HandOff, StoreFile, FlightEnds, WorkSucceeds, WorkFails, history
  <2>4. QED
    BY <1>2, <2>1, <2>2, <2>3 DEF Others
<1>3. CASE Exit
  BY <1>3, AroundStory DEF Exit, history
<1>4. CASE Restart
  BY <1>4, RestartStory
<1>5. CASE \E S \in SUBSET Worker : Stop(S) \/ Crash(S)
  BY <1>5, StopStory
<1>6. CASE UNCHANGED dvars
  BY <1>6, AroundStory DEF dvars
<1>7. QED
  BY <1>1, <1>2, <1>3, <1>4, <1>5, <1>6 DEF DeliveryNext

\* The inductive invariant behind the next two: the holder of a lease is the
\* only one at work on its row, and the chat's copies are accounted for.
THEOREM StoryInductive == DeliverySpec => []StoryInv
<1>1. DInv => Typed
  BY DEF DInv
<1>2. QED
  BY <1>1, InitStory, NextStory, DeliveryInductive, PTL DEF DeliverySpec

\* What a row says at the end is what its chat got, unless an answer or a
\* record was lost, and a second copy has such a loss or an overrun lease
\* behind it, with or without the race of retry_or_fail.
LEMMA StoryTrue ==
  ASSUME Typed, StoryInv
  PROVE  OutcomeIsTrue
<1> SUFFICES ASSUME NEW r \in Request
             PROVE  /\ req[r].status = "DELIVERED" => copies[r] > 0
                    /\ req[r].status \in {"FAILED", "CANCELLED"} => copies[r] = 0 \/ r \in doubt
                    /\ copies[r] > 1 => r \in doubt
  BY DEF OutcomeIsTrue
<1>1. CASE r \in doubt
  BY <1>1 DEF StoryInv, RowSound
<1>2. CASE r \notin doubt
  <2>1. RowSound(r) /\ Held(r) /\ Counted(r)
    BY <1>2 DEF StoryInv
  <2>2. QED
    BY <2>1 DEF RowSound, Held, Counted, GotIt
<1>3. QED
  BY <1>1, <1>2

\* So every row that has ended is true of its chat in every reachable state.
THEOREM OutcomesAreTrue == DeliverySpec => []OutcomeIsTrue
<1>1. DInv => Typed
  BY DEF DInv
<1>2. QED
  BY <1>1, StoryTrue, StoryInductive, DeliveryInductive, PTL

-----------------------------------------------------------------------------
(* Nobody is claimed before its subscriber was told, unless retry_or_fail  *)
(* loses its race.                                                         *)

\* A result that the row or the task leads to has been told, once the row is
\* no longer waiting for it.
RowTold(r) ==
  req[r].status # "WAITING" /\ req[r].job # 0 /\ ~req[r].cached => Told(req[r].job, r)

\* Phases that are on their way to the subscriber's result.
Looking == {"sendingEntry", "resolving"}

TaskTold(w) ==
  /\ work[w].phase \in Looking /\ work[w].job # 0 /\ ~work[w].cached =>
       Told(work[w].job, work[w].req)
  /\ work[w].phase = "resolving" => work[w].job # 0 /\ ~work[w].cached

ToldInv == (\A r \in Request : RowTold(r)) /\ (\A w \in Worker : TaskTold(w))

\* What SharedResult promises: a result stays a result.
ToldStays ==
  \A j \in Job, r \in Request : sub[j][r] \in Flights!Result => sub'[j][r] \in Flights!Result

\* A row keeps its result, waits for one, or needs none.
RowGoesOn(r) ==
  \/ req'[r].status = "WAITING" \/ req'[r].cached \/ req'[r].job = 0
  \/ /\ req'[r].cached = req[r].cached /\ req'[r].job = req[r].job
     /\ req[r].status # "WAITING" \/ Told(req[r].job, r)

TaskGoesOn(w) ==
  \/ work'[w] = work[w] \/ work'[w].phase \notin Looking
  \/ /\ work[w].phase = "sendingEntry"
     /\ work'[w] = [work[w] EXCEPT !.phase = Route(work[w])]

LEMMA TypesOfTold ==
  ASSUME Typed
  PROVE  /\ work \in [Worker -> Task] /\ req \in [Request -> RequestRow]
         /\ \A w \in Worker : work[w] \in Task
         /\ \A r \in Request : req[r] \in RequestRow /\ req[r].job \in Job \cup {0}
         /\ \A w \in Worker : work[w].phase # "idle" => work[w].req \in Request
         /\ \A w \in Worker : work[w].job \in Job \cup {0}
<1>1. work \in [Worker -> Task] /\ req \in [Request -> RequestRow]
  BY Parts DEF WorkTypes, RowTypes
<1>2. \A w \in Worker : work[w].phase # "idle" => work[w].req \in Request
  BY Parts DEF WorkTypes, TaskHasRequest
<1>3. QED
  BY <1>1, <1>2 DEF Task, RequestRow

LEMMA RowsTold ==
  ASSUME Typed, ToldInv, ToldStays, NEW r \in Request, RowGoesOn(r)
  PROVE  RowTold(r)'
  BY TypesOfTold DEF ToldInv, RowTold, Told, ToldStays, RowGoesOn

LEMMA TasksTold ==
  ASSUME Typed, ToldInv, ToldStays, NEW w \in Worker, TaskGoesOn(w)
  PROVE  TaskTold(w)'
<1>1. CASE work'[w] = work[w]
  <2>1. work[w].phase \in Looking => work[w].req \in Request
    BY TypesOfTold DEF Looking
  <2>2. QED
    BY <1>1, <2>1, TypesOfTold DEF ToldInv, TaskTold, Told, ToldStays
<1>2. CASE work'[w].phase \notin Looking
  BY <1>2 DEF TaskTold, Looking
<1>3. CASE /\ work[w].phase = "sendingEntry"
           /\ work'[w] = [work[w] EXCEPT !.phase = Route(work[w])]
  <2>1. /\ work'[w].phase = Route(work[w]) /\ work'[w].job = work[w].job
        /\ work'[w].cached = work[w].cached /\ work'[w].req = work[w].req
    BY <1>3, TypesOfTold DEF Task
  <2>2. work'[w].phase = "resolving" => work[w].job # 0 /\ ~work[w].cached
    BY <2>1 DEF Route
  <2>3. work'[w].phase \in Looking => work'[w].phase = "resolving"
    BY <2>1, RoutePhase DEF Looking
  <2>4. work[w].req \in Request /\ work[w].phase \in Looking
    BY <1>3, TypesOfTold DEF Looking
  <2>5. QED
    BY <2>1, <2>2, <2>3, <2>4, TypesOfTold DEF ToldInv, TaskTold, Told, ToldStays
<1>4. QED
  BY <1>1, <1>2, <1>3 DEF TaskGoesOn

LEMMA StillTold ==
  ASSUME Typed, ToldInv, ToldStays,
         \A r \in Request : RowGoesOn(r), \A w \in Worker : TaskGoesOn(w)
  PROVE  ToldInv'
  BY RowsTold, TasksTold DEF ToldInv

\* What the outbox does to flights and subscribers, SharedResult does.
FlightsMove == [Flights!Next]_<<flight, sub>>

LEMMA FlightSteps ==
  ASSUME Typed, [DeliveryNext]_dvars
  PROVE  FlightsMove
<1>1. ASSUME UNCHANGED <<flight, sub>>
      PROVE  FlightsMove
  BY <1>1 DEF FlightsMove
<1>2. ASSUME NEW r \in Request, NEW f \in Fingerprint,
             \/ Flights!Join(r, f) \/ Flights!Leave(r, f)
             \/ \E j \in Job : Flights!Open(r, f, j)
      PROVE  FlightsMove
  BY <1>2 DEF FlightsMove, Flights!Next
<1>3. ASSUME NEW F \in SUBSET Fingerprint, NEW outcome \in [Job -> Flights!Result],
             Flights!Finish(F, outcome)
      PROVE  FlightsMove
  BY <1>3 DEF FlightsMove, Flights!Next
<1>4. ASSUME NEW w \in Worker, ClaimDelivery(w) \/ Proceed(w) \/ Abandon(w)
      PROVE  FlightsMove
  <2>1. CASE PrepareFlight(w)
    <3>1. work[w].req \in Request /\ Wanted(w) \in Fingerprint
      BY <2>1, Parts
         DEF PrepareFlight, WorkTypes, TaskHasRequest, RowTypes, WantsArtifact, Wanted
    <3>2. QED
      BY <1>1, <1>2, <2>1, <3>1 DEF PrepareFlight, shared
  <2>2. CASE ~PrepareFlight(w)
    <3>1. UNCHANGED <<flight, sub>>
      BY <1>4, <2>2
         DEF Proceed, ClaimDelivery, Abandon, PrepareFromCache, StorePreparation, Resolve, Attach,
             CheckFile, SendSucceeds, AnswerLost, SendFails, FileRefused, RecordDelivery,
             Invalidate, ScheduleRepair, EndDelivery, ReadForRetry, WriteRetry, StepFails,
             OnlyReq, OnlyWork, shared
    <3>2. QED
      BY <1>1, <3>1
  <2>3. QED
    BY <2>1, <2>2
<1>5. CASE Others
  <2>1. ASSUME NEW f \in Fingerprint, FlightEnds(f)
        PROVE  FlightsMove
    <3>1. \E outcome \in [Job -> Flights!Result] : Flights!Finish({f}, outcome)
      BY <2>1 DEF FlightEnds, WorkSucceeds, WorkFails, Flights!Result
    <3>2. QED
      BY <1>3, <3>1
  <2>2. ASSUME NEW r \in Request, NEW f \in Fingerprint, Withdraw(r, f)
        PROVE  FlightsMove
    BY <1>2, <2>2 DEF Withdraw
  <2>3. QED
    BY <1>1, <1>5, <2>1, <2>2 DEF Others, LeaseExpires, Ask, HandOff, StoreFile, shared
<1>6. CASE Restart
  <2>1. [j \in Job |-> "READY"] \in [Job -> Flights!Result] /\ OpenUploads \in SUBSET Fingerprint
    BY DEF Flights!Result, OpenUploads
  <2>2. QED
    BY <1>1, <1>3, <1>6, <2>1 DEF Restart
<1>7. CASE Exit \/ (\E S \in SUBSET Worker : Stop(S) \/ Crash(S)) \/ UNCHANGED dvars
  BY <1>1, <1>7 DEF Exit, Stop, Crash, dvars, shared
<1>8. QED
  BY <1>4, <1>5, <1>6, <1>7 DEF DeliveryNext

\* Whatever the outbox does, its flights are shared results: those who wait
\* in one learn the same in one step, and what was told stays.
THEOREM FlightsAreShared == DeliverySpec => Flights!Spec
<1>1. DInv => Typed
  BY DEF DInv
<1>2. DeliveryInit => Flights!Init
  BY DEF DeliveryInit
<1>3. Typed /\ [DeliveryNext]_dvars => [Flights!Next]_<<flight, sub>>
  BY FlightSteps DEF FlightsMove
<1>4. QED
  BY <1>1, <1>2, <1>3, DeliveryInductive, PTL DEF DeliverySpec, Flights!Spec

LEMMA ResultsStay ==
  ASSUME Typed, [DeliveryNext]_dvars
  PROVE  ToldStays
<1>1. FlightTypes
  BY Parts
<1>2. CASE UNCHANGED <<flight, sub>>
  BY <1>2 DEF ToldStays
<1>3. ASSUME NEW r \in Request, NEW f \in Fingerprint, Flights!Join(r, f) \/ Flights!Leave(r, f)
      PROVE  ToldStays
  <2>1. flight[f] \in Job
    BY <1>1, <1>3 DEF FlightTypes, Flights!Join, Flights!Leave
  <2>2. QED
    BY <1>1, <1>3, <2>1
       DEF FlightTypes, Flights!Join, Flights!Leave, Flights!Result, ToldStays
<1>4. ASSUME NEW r \in Request, NEW f \in Fingerprint, NEW j \in Job, Flights!Open(r, f, j)
      PROVE  ToldStays
  BY <1>1, <1>4 DEF FlightTypes, Flights!Open, Flights!Result, ToldStays
<1>5. ASSUME NEW F, NEW outcome \in [Job -> Flights!Result], Flights!Finish(F, outcome)
      PROVE  ToldStays
  BY <1>1, <1>5 DEF FlightTypes, Flights!Finish, Flights!Waiting, Flights!Result, ToldStays
<1>6. QED
  BY <1>2, <1>3, <1>4, <1>5, FlightSteps DEF FlightsMove, Flights!Next

LEMMA RowsUnmoved ==
  ASSUME UNCHANGED req
  PROVE  \A r \in Request : RowGoesOn(r)
  BY DEF RowGoesOn

LEMMA FencedGoesOn ==
  ASSUME Typed, NEW w \in Worker, work[w].phase # "idle", NEW row,
         \/ row.status = "WAITING" \/ row.cached \/ row.job = 0
         \/ row.cached = req[work[w].req].cached /\ row.job = req[work[w].req].job,
         req' = IF Owned(w) THEN [req EXCEPT ![work[w].req] = row] ELSE req
  PROVE  \A r \in Request : RowGoesOn(r)
  BY TypesOfTold DEF Owned, RowGoesOn

LEMMA ReleasedResult ==
  ASSUME NEW row \in RequestRow, NEW s
  PROVE  /\ Released(row, s).job = row.job /\ Released(row, s).cached = row.cached
         /\ Released(row, s).repairs = row.repairs /\ Released(row, s).attempts = row.attempts
  BY DEF Released, RequestRow

LEMMA RecoveredGoOn ==
  ASSUME Typed, req' = [r \in Request |-> Recovered(req[r])]
  PROVE  \A r \in Request : RowGoesOn(r)
  BY TypesOfTold, RecoveredFacts DEF RowGoesOn

LEMMA ClaimGoesOn ==
  ASSUME Typed, NEW w \in Worker, ClaimDelivery(w)
  PROVE  \A r \in Request : RowGoesOn(r)
<1> DEFINE rows == [r \in Request |-> Recovered(req[r])]
<1>1. \A r \in Request :
         /\ rows[r] \in RequestRow
         /\ rows[r].job = req[r].job /\ rows[r].cached = req[r].cached
         /\ rows[r].status = "WAITING" <=> req[r].status = "WAITING"
  BY TypesOfTold, RecoveredRow, RecoveredFacts
<1>2. CASE \E r \in Request :
             Claimable(rows, r) /\ req' = [rows EXCEPT ![r] = Claimed(rows[r], w)]
  <2>1. PICK q \in Request :
          Claimable(rows, q) /\ req' = [rows EXCEPT ![q] = Claimed(rows[q], w)]
    BY <1>2
  <2>2. /\ Claimed(rows[q], w).job = rows[q].job /\ Claimed(rows[q], w).cached = rows[q].cached
    BY <1>1 DEF Claimed, RequestRow
  <2>3. rows[q].status # "WAITING" \/ Told(rows[q].job, q)
    BY <2>1 DEF Claimable
  <2>4. RowGoesOn(q)
    <3>1. req'[q] = Claimed(rows[q], w)
      BY <2>1
    <3> HIDE DEF rows
    <3>2. QED
      BY <1>1, <2>2, <2>3, <3>1 DEF RowGoesOn
  <2>5. ASSUME NEW r \in Request, r # q
        PROVE  RowGoesOn(r)
    <3>1. req'[r] = rows[r]
      BY <2>1, <2>5
    <3> HIDE DEF rows
    <3>2. QED
      BY <1>1, <3>1 DEF RowGoesOn
  <2>6. QED
    BY <2>4, <2>5
<1>3. CASE req' = rows
  BY <1>3, RecoveredGoOn
<1>4. QED
  BY <1>2, <1>3 DEF ClaimDelivery

LEMMA WorkerRowsGoOn ==
  ASSUME DInv, ~SplitRetry, NEW w \in Worker, Proceed(w) \/ Abandon(w)
  PROVE  \A r \in Request : RowGoesOn(r)
<1> DEFINE q == work[w].req
<1>1. Typed
  BY DEF DInv
<1>2. work[w].phase # "idle" => q \in Request /\ req[q] \in RequestRow
  BY <1>1, BusyRow
<1>3. CASE StorePreparation(w)
  <2> DEFINE x == work[w]
             s == IF x.cached THEN "QUEUED" ELSE "WAITING"
             row == [Released(req[x.req], s) EXCEPT !.cached = x.cached, !.job = x.job]
  <2>1. x.phase = "storing" /\ req' = IF Owned(w) THEN [req EXCEPT ![x.req] = row] ELSE req
    BY <1>3 DEF StorePreparation
  <2>2. row.status = s /\ row.cached = x.cached
    BY <1>2, <2>1 DEF Released, RequestRow
  <2>3. row.cached \/ row.status = "WAITING"
    BY <2>2
  <2> HIDE DEF row
  <2>4. QED
    BY <1>1, <2>1, <2>3, FencedGoesOn
<1>4. CASE Attach(w)
  <2> DEFINE row == [req[q] EXCEPT !.cached = TRUE]
  <2>1. work[w].phase = "attaching" /\ req \in [Request -> RequestRow]
    BY <1>1, <1>4, TypesOfTold DEF Attach
  <2>2. req' = IF Owned(w) THEN [req EXCEPT ![q] = row] ELSE req
    BY <1>2, <1>4, <2>1 DEF Attach
  <2>3. row.cached
    BY <1>2, <2>1 DEF RequestRow
  <2> HIDE DEF row
  <2>4. QED
    BY <1>1, <2>1, <2>2, <2>3, FencedGoesOn
<1>5. CASE ScheduleRepair(w)
  <2> DEFINE row == [Released(req[q], "QUEUED") EXCEPT !.repairs = 1, !.cached = FALSE, !.job = 0]
  <2>1. /\ work[w].phase = "scheduling"
        /\ req' = IF Owned(w) /\ req[q].repairs = 0 THEN [req EXCEPT ![q] = row] ELSE req
    BY <1>5 DEF ScheduleRepair
  <2>2. row.job = 0
    BY <1>2, <2>1 DEF Released, RequestRow
  <2> HIDE DEF row
  <2>3. CASE Owned(w) /\ req[q].repairs = 0
    BY <1>1, <2>1, <2>2, <2>3, FencedGoesOn
  <2>4. CASE ~(Owned(w) /\ req[q].repairs = 0)
    BY <2>1, <2>4, RowsUnmoved
  <2>5. QED
    BY <2>3, <2>4
<1>6. CASE RecordDelivery(w) \/ EndDelivery(w) \/ WriteRetry(w)
  <2>1. PICK s : req' = IF Owned(w) THEN [req EXCEPT ![q] = Released(req[q], s)] ELSE req
    <3>1. WriteRetry(w) => Owned(w)
      BY DEF DInv, RewriteFenced, Rewriting, WriteRetry
    <3>2. QED
      BY <1>6, <3>1 DEF RecordDelivery, EndDelivery, WriteRetry
  <2>2. work[w].phase # "idle"
    BY <1>6 DEF RecordDelivery, EndDelivery, WriteRetry
  <2>3. QED
    BY <1>1, <1>2, <2>1, <2>2, ReleasedResult, FencedGoesOn
<1>7. CASE /\ ~StorePreparation(w) /\ ~Attach(w) /\ ~ScheduleRepair(w)
           /\ ~(RecordDelivery(w) \/ EndDelivery(w) \/ WriteRetry(w))
  <2>1. UNCHANGED req
    BY <1>7
       DEF Proceed, Abandon, PrepareFromCache, PrepareFlight, Resolve, CheckFile, SendSucceeds,
           AnswerLost, SendFails, FileRefused, Invalidate, ReadForRetry, StepFails, OnlyWork
  <2>2. QED
    BY <2>1, RowsUnmoved
<1>8. QED
  BY <1>3, <1>4, <1>5, <1>6, <1>7

LEMMA TaskLeavesOff ==
  ASSUME NEW w \in Worker, Alone(w), work'[w].phase \notin Looking
  PROVE  \A v \in Worker : TaskGoesOn(v)
  BY DEF Alone, TaskGoesOn

LEMMA WorkerTasksGoOn ==
  ASSUME Typed, NEW w \in Worker, Proceed(w) \/ Abandon(w)
  PROVE  \A v \in Worker : TaskGoesOn(v)
<1>1. ASSUME NEW phase, phase \notin Looking, Goes(w, phase) \/ Caught(w, phase)
      PROVE  \A v \in Worker : TaskGoesOn(v)
  BY <1>1, PhaseFacts, TaskLeavesOff
<1>2. ASSUME Rests(w)
      PROVE  \A v \in Worker : TaskGoesOn(v)
  BY <1>2, RestFacts, TaskLeavesOff DEF Looking
<1>3. CASE PrepareFromCache(w) \/ PrepareFlight(w)
  <2>1. \/ work' = [work EXCEPT ![w].phase = "storing", ![w].cached = TRUE]
        \/ \E j : work' = [work EXCEPT ![w].phase = "storing", ![w].job = j]
    BY <1>3 DEF PrepareFromCache, PrepareFlight
  <2>2. Alone(w) /\ work'[w].phase = "storing"
    BY <2>1, TypesOfTold DEF Task, Alone
  <2>3. QED
    BY <2>2, TaskLeavesOff DEF Looking
<1>4. CASE Attach(w)
  <2>1. PICK phase \in {"checking", "ending"} :
          work' = [work EXCEPT ![w] = TaskOn(work[w].req, req'[work[w].req], phase)]
    BY <1>4 DEF Attach
  <2>2. Alone(w) /\ work'[w].phase = phase
    BY <2>1, TypesOfTold DEF Alone, TaskOn
  <2>3. QED
    BY <2>2, TaskLeavesOff DEF Looking
<1>5. CASE FileRefused(w)
  <2>1. CASE work[w].phase = "sendingEntry"
    <3>1. work' = [work EXCEPT ![w] = [work[w] EXCEPT !.phase = Route(work[w])]]
      BY <1>5, <2>1, TypesOfTold DEF FileRefused, Goes
    <3>2. QED
      BY <2>1, <3>1, TypesOfTold DEF TaskGoesOn
  <2>2. CASE work[w].phase = "sending"
    BY <1>1, <1>5, <2>2 DEF FileRefused, Repair, Looking
  <2>3. QED
    BY <1>5, <2>1, <2>2 DEF FileRefused
<1>6. CASE Resolve(w) \/ CheckFile(w) \/ SendSucceeds(w) \/ AnswerLost(w) \/ SendFails(w)
           \/ Invalidate(w) \/ StepFails(w)
  BY <1>1, <1>6 DEF Resolve, CheckFile, SendSucceeds, AnswerLost, SendFails, Invalidate,
                    StepFails, Repair, Refused, Looking
<1>7. CASE ReadForRetry(w)
  BY <1>1, <1>2, <1>7 DEF ReadForRetry, Looking
<1>8. CASE StorePreparation(w) \/ RecordDelivery(w) \/ ScheduleRepair(w) \/ EndDelivery(w)
           \/ WriteRetry(w) \/ Abandon(w)
  BY <1>2, <1>8 DEF StorePreparation, RecordDelivery, ScheduleRepair, EndDelivery,
                    WriteRetry, Abandon
<1>9. QED
  BY <1>3, <1>4, <1>5, <1>6, <1>7, <1>8 DEF Proceed

\* A claim takes over what the row knows, and that has been told.
LEMMA ClaimTold ==
  ASSUME Typed, ToldInv, ToldStays, NEW w \in Worker, ClaimDelivery(w)
  PROVE  ToldInv'
<1> DEFINE rows == [r \in Request |-> Recovered(req[r])]
<1>1. \A r \in Request : RowTold(r)'
  BY ClaimGoesOn, RowsTold
<1>2. \A r \in Request :
         /\ rows[r] \in RequestRow
         /\ rows[r].job = req[r].job /\ rows[r].cached = req[r].cached
         /\ rows[r].status = "WAITING" <=> req[r].status = "WAITING"
         /\ rows[r].job \in Job \cup {0}
  BY TypesOfTold, RecoveredRow, RecoveredFacts
<1>3. CASE UNCHANGED work
  BY <1>1, <1>3, TasksTold DEF ToldInv, TaskGoesOn
<1>4. CASE \E r \in Request :
             /\ Claimable(rows, r)
             /\ work' = [work EXCEPT ![w] = TaskOn(r, rows[r],
                  IF rows[r].wants \in entry THEN "sendingEntry" ELSE Route(rows[r]))]
  <2> HIDE DEF rows
  <2>1. PICK r \in Request :
          /\ Claimable(rows, r)
          /\ work' = [work EXCEPT ![w] = TaskOn(r, rows[r],
               IF rows[r].wants \in entry THEN "sendingEntry" ELSE Route(rows[r]))]
    BY <1>4
  <2> DEFINE phase == IF rows[r].wants \in entry THEN "sendingEntry" ELSE Route(rows[r])
  <2>2. /\ work' = [work EXCEPT ![w] = TaskOn(r, rows[r], phase)]
        /\ phase = "resolving" => rows[r].job # 0 /\ ~rows[r].cached
    BY <2>1 DEF Route
  <2> HIDE DEF phase
  <2>3. /\ \A v \in Worker \ {w} : work'[v] = work[v]
        /\ work'[w].phase = phase /\ work'[w].req = r /\ work'[w].job = rows[r].job
        /\ work'[w].cached = rows[r].cached
    BY <2>2, TypesOfTold DEF TaskOn
  <2>4. rows[r].job # 0 /\ ~rows[r].cached => Told(rows[r].job, r)
    BY <1>2, <2>1 DEF ToldInv, RowTold, Claimable
  <2>5. TaskTold(w)'
    BY <1>2, <2>2, <2>3, <2>4 DEF TaskTold, Told, ToldStays
  <2>6. ASSUME NEW v \in Worker, v # w
        PROVE  TaskTold(v)'
    BY <2>3, <2>6, TasksTold DEF TaskGoesOn
  <2>7. QED
    BY <1>1, <2>5, <2>6 DEF ToldInv
<1>5. QED
  BY <1>3, <1>4 DEF ClaimDelivery

LEMMA OtherRowsGoOn ==
  ASSUME Typed, Others \/ Exit \/ Restart \/ \E S \in SUBSET Worker : Stop(S) \/ Crash(S)
  PROVE  \A r \in Request : RowGoesOn(r)
<1>1. ASSUME NEW r \in Request, NEW f \in Fingerprint, Ask(r, f)
      PROVE  \A q \in Request : RowGoesOn(q)
  <2>1. req' = [req EXCEPT ![r] = NewRequest(f)] /\ NewRequest(f).job = 0
    BY <1>1 DEF Ask, NewRequest
  <2>2. QED
    BY <2>1, TypesOfTold DEF RowGoesOn
<1>2. ASSUME NEW r \in Request, LeaseExpires(r)
      PROVE  \A q \in Request : RowGoesOn(q)
  BY <1>2, TypesOfTold DEF LeaseExpires, RequestRow, RowGoesOn
<1>3. CASE Restart
  BY <1>3, RecoveredGoOn DEF Restart
<1>4. ASSUME UNCHANGED req
      PROVE  \A r \in Request : RowGoesOn(r)
  BY <1>4, RowsUnmoved
<1>5. QED
  BY <1>1, <1>2, <1>3, <1>4
     DEF Others, Withdraw, HandOff, StoreFile, FlightEnds, WorkSucceeds, WorkFails,
         Exit, Stop, Crash

LEMMA OtherTasksGoOn ==
  ASSUME Typed, Others \/ Exit \/ Restart \/ \E S \in SUBSET Worker : Stop(S) \/ Crash(S)
  PROVE  \A v \in Worker : TaskGoesOn(v)
<1>1. ASSUME NEW S \in SUBSET Worker, Stop(S) \/ Crash(S), NEW v \in Worker
      PROVE  TaskGoesOn(v)
  <2>1. \/ work'[v] = Idle
        \/ work'[v] = [work[v] EXCEPT !.phase = "retrying", !.caught = TRUE]
    BY <1>1 DEF Stop, Crash
  <2>2. work'[v].phase \in {"idle", "retrying"}
    BY <2>1, TypesOfTold, IdleTask DEF Task
  <2>3. QED
    BY <2>2 DEF TaskGoesOn, Looking
<1>2. CASE UNCHANGED work
  BY <1>2 DEF TaskGoesOn
<1>3. QED
  BY <1>1, <1>2
     DEF Others, Ask, LeaseExpires, Withdraw, HandOff, StoreFile, FlightEnds, WorkSucceeds,
         WorkFails, Exit, Restart

LEMMA NextTold ==
  ASSUME DInv, ~SplitRetry, ToldInv, [DeliveryNext]_dvars
  PROVE  ToldInv'
<1>1. Typed /\ ToldStays
  BY ResultsStay DEF DInv
<1>2. ASSUME NEW w \in Worker, ClaimDelivery(w)
      PROVE  ToldInv'
  BY <1>1, <1>2, ClaimTold
<1>3. ASSUME NEW w \in Worker, Proceed(w) \/ Abandon(w)
      PROVE  ToldInv'
  BY <1>1, <1>3, WorkerRowsGoOn, WorkerTasksGoOn, StillTold
<1>4. CASE Others \/ Exit \/ Restart \/ \E S \in SUBSET Worker : Stop(S) \/ Crash(S)
  BY <1>1, <1>4, OtherRowsGoOn, OtherTasksGoOn, StillTold
<1>5. CASE UNCHANGED dvars
  BY <1>1, <1>5, RowsUnmoved, StillTold DEF dvars, TaskGoesOn
<1>6. QED
  BY <1>2, <1>3, <1>4, <1>5 DEF DeliveryNext

LEMMA InitTold == DeliveryInit => ToldInv
<1> SUFFICES ASSUME DeliveryInit
             PROVE  ToldInv
  OBVIOUS
<1>1. \A r \in Request : req[r].job = 0
  BY DEF DeliveryInit, NoRow, NewRequest
<1>2. \A w \in Worker : work[w].phase = "idle"
  BY DEF DeliveryInit, Idle
<1>3. QED
  BY <1>1, <1>2 DEF ToldInv, RowTold, TaskTold, Looking

\* While retry_or_fail does not lose its race, no worker ever takes up a
\* request whose subscriber still waits.
THEOREM ClaimsAreTold ==
  ASSUME ~SplitRetry
  PROVE  DeliverySpec => []ClaimedIsTold
<1>1. DInv /\ ToldInv /\ [DeliveryNext]_dvars => ToldInv'
  BY NextTold
<1>2. ToldInv => ClaimedIsTold
  BY DEF ToldInv, TaskTold, ClaimedIsTold, Looking
<1>3. QED
  BY <1>1, <1>2, InitTold, DeliveryInductive, PTL DEF DeliverySpec

-----------------------------------------------------------------------------
(* Claims are bounded, unless retry_or_fail loses its race.                *)

\* A preparation, of which there is one before and one after the repair, and
\* the repair itself put a request back without looking at the limit.
Free(row) == 2 * row.repairs + (IF row.cached \/ row.job # 0 THEN 1 ELSE 0)

Affordable(row) ==
  row.attempts <= Free(row) +
    (IF row.status \in {"QUEUED", "WAITING"} THEN MaxAttempts - 1 ELSE MaxAttempts)

\* A preparation is stored in a row without one; a retry was read from a row
\* within the limit.
TaskFits(w) ==
  LET x == work[w] IN
  /\ x.phase = "preparing" => ~x.cached /\ x.job = 0
  /\ x.phase = "storing" => x.cached \/ x.job # 0
  /\ x.phase \in {"preparing", "storing"} /\ Owned(w) =>
       ~req[x.req].cached /\ req[x.req].job = 0
  /\ x.phase = "sendingEntry" /\ Owned(w) =>
       req[x.req].cached = x.cached /\ req[x.req].job = x.job
  /\ x.phase = "requeue" => req[x.req].attempts < MaxAttempts

ClaimInv == (\A r \in Request : Affordable(req[r])) /\ (\A w \in Worker : TaskFits(w))

Watched == {"preparing", "storing", "sendingEntry", "requeue"}

\* Nobody but w touches what a leaseholder reads from its row.
LeaseKept(r, w) ==
  req'[r].status = "SENDING" /\ req'[r].owner # w =>
    /\ req[r].status = "SENDING" /\ req'[r].owner = req[r].owner
    /\ req'[r].cached = req[r].cached /\ req'[r].job = req[r].job

LEMMA Limits == MaxAttempts \in Nat /\ MaxAttempts > 0
  BY DeliveryAssumption

LEMMA ReleasedAffords ==
  ASSUME NEW row \in RequestRow, NEW s \in Settled, Affordable(row)
  PROVE  Affordable(Released(row, s))
<1>1. /\ Released(row, s).status = s /\ s \notin {"QUEUED", "WAITING"}
      /\ Free(Released(row, s)) = Free(row)
      /\ Released(row, s).attempts = row.attempts
  BY ReleasedResult, ReleasedFacts DEF Free, Settled
<1>2. row.attempts \in Nat /\ Free(row) \in Nat
  BY DEF RequestRow, Free
<1> HIDE DEF Released
<1>3. QED
  BY <1>1, <1>2, Limits DEF Affordable

LEMMA RecoveredAffords ==
  ASSUME NEW row \in RequestRow, Affordable(row)
  PROVE  Affordable(Recovered(row))
<1>1. Free(row) \in Nat /\ row.attempts \in Nat
  BY DEF RequestRow, Free
<1>2. CASE ~(row.status = "SENDING" /\ row.expired)
  BY <1>2 DEF Recovered
<1>3. CASE row.status = "SENDING" /\ row.expired
  <2>1. CASE row.attempts >= MaxAttempts
    <3>1. Recovered(row) = Released(row, "FAILED")
      BY <1>3, <2>1 DEF Recovered
    <3>2. QED
      BY <3>1, ReleasedAffords DEF Settled
  <2>2. CASE ~(row.attempts >= MaxAttempts)
    <3>1. Recovered(row) = Released(row, "QUEUED")
      BY <1>3, <2>2 DEF Recovered
    <3>2. /\ Released(row, "QUEUED").attempts = row.attempts
          /\ Free(Released(row, "QUEUED")) = Free(row)
      BY ReleasedResult DEF Free
    <3>3. QED
      BY <1>1, <2>2, <3>1, <3>2, Limits DEF Affordable
  <2>3. QED
    BY <2>1, <2>2
<1>4. QED
  BY <1>2, <1>3

LEMMA ClaimedAffords ==
  ASSUME NEW row \in RequestRow, NEW w \in Worker, Affordable(row),
         row.status \in {"QUEUED", "WAITING"}
  PROVE  Affordable(Claimed(row, w))
<1>1. /\ Claimed(row, w).attempts = row.attempts + 1 /\ Claimed(row, w).status = "SENDING"
      /\ Free(Claimed(row, w)) = Free(row)
  BY DEF Claimed, RequestRow, Free
<1>2. Free(row) \in Nat /\ row.attempts \in Nat
  BY DEF RequestRow, Free
<1>3. QED
  BY <1>1, <1>2, Limits DEF Affordable

LEMMA StillFits ==
  ASSUME Typed, ClaimInv, NEW w \in Worker \cup {NoWorker}, Rewriting \subseteq {w},
         \A r \in Request : Affordable(req'[r]) /\ LeaseKept(r, w),
         \A v \in Worker \ {w} : work'[v] = work[v] \/ work'[v].phase \notin Watched,
         w \in Worker => TaskFits(w)'
  PROVE  ClaimInv'
<1>1. ASSUME NEW v \in Worker
      PROVE  TaskFits(v)'
  <2>1. CASE v = w
    BY <2>1
  <2>2. CASE v # w /\ work'[v] = work[v]
    <3>1. work[v].phase \in Watched => work[v].req \in Request
      BY TypesOfTold DEF Watched
    <3>2. work[v].phase # "requeue"
      BY <2>2 DEF Rewriting
    <3>3. TaskFits(v)
      BY DEF ClaimInv
    <3>4. work[v].phase \in Watched /\ Owned(v)' =>
            /\ Owned(v)
            /\ req'[work[v].req].cached = req[work[v].req].cached
            /\ req'[work[v].req].job = req[work[v].req].job
      BY <2>2, <3>1 DEF Owned, LeaseKept
    <3>5. QED
      BY <2>2, <3>2, <3>3, <3>4 DEF TaskFits, Watched
  <2>3. CASE work'[v].phase \notin Watched
    BY <2>3 DEF TaskFits, Watched
  <2>4. QED
    BY <2>1, <2>2, <2>3
<1>2. QED
  BY <1>1 DEF ClaimInv

LEMMA SameRowsFit ==
  ASSUME ClaimInv, UNCHANGED req, NEW w
  PROVE  \A r \in Request : Affordable(req'[r]) /\ LeaseKept(r, w)
  BY DEF ClaimInv, LeaseKept

LEMMA FencedFits ==
  ASSUME Typed, ClaimInv, NEW w \in Worker, work[w].phase # "idle", NEW row,
         Owned(w) => Affordable(row) /\ (row.status # "SENDING" \/ row.owner = w),
         req' = IF Owned(w) THEN [req EXCEPT ![work[w].req] = row] ELSE req
  PROVE  \A r \in Request : Affordable(req'[r]) /\ LeaseKept(r, w)
<1> SUFFICES ASSUME NEW r \in Request
             PROVE  Affordable(req'[r]) /\ LeaseKept(r, w)
  OBVIOUS
<1>1. Affordable(req[r]) /\ (req'[r] = req[r] \/ (Owned(w) /\ req'[r] = row))
  BY TypesOfTold DEF ClaimInv
<1>2. QED
  BY <1>1 DEF LeaseKept

LEMMA RecoveredFit ==
  ASSUME Typed, ClaimInv, NEW r \in Request, NEW rows,
         rows = [q \in Request |-> Recovered(req[q])]
  PROVE  /\ rows[r] \in RequestRow /\ Affordable(rows[r])
         /\ rows[r].status = "SENDING" => rows[r] = req[r]
         /\ rows[r].job = req[r].job /\ rows[r].cached = req[r].cached
<1>1. rows[r] = Recovered(req[r]) /\ req[r] \in RequestRow /\ Affordable(req[r])
  BY TypesOfTold DEF ClaimInv
<1>2. QED
  BY <1>1, RecoveredRow, RecoveredFacts, RecoveredAffords

LEMMA WorkerRowsFit ==
  ASSUME DInv, ~SplitRetry, ClaimInv, NEW w \in Worker, Proceed(w) \/ Abandon(w)
  PROVE  \A r \in Request : Affordable(req'[r]) /\ LeaseKept(r, w)
<1> DEFINE q == work[w].req
<1>1. Typed /\ TaskFits(w)
  BY DEF DInv, ClaimInv
<1>2. work[w].phase # "idle" =>
        /\ q \in Request /\ req[q] \in RequestRow /\ Affordable(req[q])
        /\ req[q].attempts \in Nat
  BY <1>1, BusyRow DEF ClaimInv, RequestRow
<1>3. CASE StorePreparation(w)
  <2> DEFINE x == work[w]
             s == IF x.cached THEN "QUEUED" ELSE "WAITING"
             row == [Released(req[x.req], s) EXCEPT !.cached = x.cached, !.job = x.job]
  <2>1. x.phase = "storing" /\ req' = IF Owned(w) THEN [req EXCEPT ![x.req] = row] ELSE req
    BY <1>3 DEF StorePreparation
  <2>2. /\ row.status = s /\ row.attempts = req[q].attempts
        /\ row.repairs = req[q].repairs /\ row.cached = x.cached /\ row.job = x.job
    BY <1>2, <2>1 DEF Released, RequestRow
  <2>3. x.cached \/ x.job # 0
    BY <1>1, <2>1 DEF TaskFits
  <2>4. ASSUME Owned(w)
        PROVE  Affordable(row) /\ row.status # "SENDING"
    <3>1. ~req[q].cached /\ req[q].job = 0 /\ req[q].status = "SENDING"
      BY <1>1, <2>1, <2>4 DEF TaskFits, Owned
    <3>2. req[q].repairs \in 0..1
      BY <1>2, <2>1 DEF RequestRow
    <3>3. req[q].attempts <= 2 * req[q].repairs + MaxAttempts
      BY <1>2, <2>1, <3>1, <3>2, Limits DEF Affordable, Free
    <3> HIDE DEF row
    <3>4. Free(row) = 2 * req[q].repairs + 1 /\ row.status \in {"QUEUED", "WAITING"}
      BY <2>2, <2>3 DEF Free
    <3>5. QED
      BY <1>2, <2>1, <2>2, <3>2, <3>3, <3>4, Limits DEF Affordable
  <2> HIDE DEF row
  <2>5. QED
    BY <1>1, <2>1, <2>4, FencedFits
<1>4. CASE Attach(w)
  <2> DEFINE row == [req[q] EXCEPT !.cached = TRUE]
  <2>1. work[w].phase = "attaching" /\ req \in [Request -> RequestRow]
    BY <1>1, <1>4, TypesOfTold DEF Attach
  <2>2. req' = IF Owned(w) THEN [req EXCEPT ![q] = row] ELSE req
    BY <1>2, <1>4, <2>1 DEF Attach
  <2>3. /\ row.cached /\ row.status = req[q].status /\ row.owner = req[q].owner
        /\ row.attempts = req[q].attempts /\ row.repairs = req[q].repairs
    BY <1>2, <2>1 DEF RequestRow
  <2>4. req[q].repairs \in 0..1
    BY <1>2, <2>1 DEF RequestRow
  <2> HIDE DEF row
  <2>5. Affordable(row)
    BY <1>2, <2>1, <2>3, <2>4, Limits DEF Affordable, Free
  <2>6. Owned(w) => row.owner = w
    BY <2>3 DEF Owned
  <2>7. QED
    BY <1>1, <2>1, <2>2, <2>5, <2>6, FencedFits
<1>5. CASE ScheduleRepair(w)
  <2> DEFINE row == [Released(req[q], "QUEUED") EXCEPT !.repairs = 1, !.cached = FALSE, !.job = 0]
  <2>1. /\ work[w].phase = "scheduling"
        /\ req' = IF Owned(w) /\ req[q].repairs = 0 THEN [req EXCEPT ![q] = row] ELSE req
    BY <1>5 DEF ScheduleRepair
  <2>2. /\ row.status = "QUEUED" /\ row.attempts = req[q].attempts /\ row.repairs = 1
        /\ row.cached = FALSE /\ row.job = 0
    BY <1>2, <2>1 DEF Released, RequestRow
  <2> HIDE DEF row
  <2>3. CASE Owned(w) /\ req[q].repairs = 0
    <3>1. req[q].attempts <= 1 + MaxAttempts
      BY <1>2, <2>1, <2>3, Limits DEF Affordable, Free
    <3>2. Affordable(row)
      BY <1>2, <2>1, <2>2, <3>1, Limits DEF Affordable, Free
    <3>3. QED
      BY <1>1, <2>1, <2>2, <2>3, <3>2, FencedFits
  <2>4. CASE ~(Owned(w) /\ req[q].repairs = 0)
    BY <2>1, <2>4, SameRowsFit
  <2>5. QED
    BY <2>3, <2>4
<1>6. CASE RecordDelivery(w) \/ EndDelivery(w) \/ (WriteRetry(w) /\ work[w].phase = "fail")
  <2>1. PICK s \in Settled :
          req' = IF Owned(w) THEN [req EXCEPT ![q] = Released(req[q], s)] ELSE req
    <3>1. WriteRetry(w) => Owned(w)
      BY DEF DInv, RewriteFenced, Rewriting, WriteRetry
    <3>2. QED
      BY <1>6, <3>1 DEF RecordDelivery, EndDelivery, WriteRetry, Settled
  <2>2. work[w].phase # "idle"
    BY <1>6 DEF RecordDelivery, EndDelivery, WriteRetry
  <2>3. Affordable(Released(req[q], s)) /\ Released(req[q], s).status # "SENDING"
    BY <1>2, <2>2, ReleasedAffords, ReleasedFacts DEF Settled
  <2>4. QED
    BY <1>1, <2>1, <2>2, <2>3, FencedFits
<1>7. CASE WriteRetry(w) /\ work[w].phase = "requeue"
  <2> DEFINE row == Released(req[q], "QUEUED")
  <2>1. /\ work[w].phase # "idle" /\ Owned(w)
        /\ req' = [req EXCEPT ![q] = row]
    BY <1>7 DEF WriteRetry, DInv, RewriteFenced, Rewriting
  <2>2. /\ row.status = "QUEUED" /\ row.attempts = req[q].attempts
        /\ Free(row) = Free(req[q]) /\ Free(row) \in Nat
    BY <1>2, <2>1, ReleasedFacts, ReleasedResult DEF Free, RequestRow
  <2>3. req[q].attempts < MaxAttempts
    BY <1>1, <1>7 DEF TaskFits
  <2> HIDE DEF row
  <2>4. Affordable(row)
    BY <1>2, <2>1, <2>2, <2>3, Limits DEF Affordable
  <2>5. QED
    BY <1>1, <2>1, <2>2, <2>4, FencedFits
<1>8. CASE /\ ~StorePreparation(w) /\ ~Attach(w) /\ ~ScheduleRepair(w)
           /\ ~(RecordDelivery(w) \/ EndDelivery(w) \/ WriteRetry(w))
  <2>1. UNCHANGED req
    BY <1>8
       DEF Proceed, Abandon, PrepareFromCache, PrepareFlight, Resolve, CheckFile, SendSucceeds,
           AnswerLost, SendFails, FileRefused, Invalidate, ReadForRetry, StepFails, OnlyWork
  <2>2. QED
    BY <2>1, SameRowsFit
<1>9. QED
  BY <1>3, <1>4, <1>5, <1>6, <1>7, <1>8 DEF WriteRetry

LEMMA TaskUnwatched ==
  ASSUME NEW w \in Worker, work'[w].phase \notin Watched
  PROVE  TaskFits(w)'
  BY DEF TaskFits, Watched

LEMMA WorkerTaskFits ==
  ASSUME Typed, ClaimInv, NEW w \in Worker, Proceed(w) \/ Abandon(w)
  PROVE  Alone(w) /\ TaskFits(w)'
<1>1. ASSUME NEW phase, phase \notin Watched, Goes(w, phase) \/ Caught(w, phase)
      PROVE  Alone(w) /\ TaskFits(w)'
  BY <1>1, PhaseFacts, TaskUnwatched
<1>2. ASSUME Rests(w)
      PROVE  Alone(w) /\ TaskFits(w)'
  BY <1>2, RestFacts, TaskUnwatched DEF Watched
<1>3. CASE PrepareFromCache(w) \/ PrepareFlight(w)
  <2>1. /\ work[w].phase = "preparing" /\ UNCHANGED req
        /\ \/ work' = [work EXCEPT ![w].phase = "storing", ![w].cached = TRUE]
           \/ \E j : j # 0 /\ work' = [work EXCEPT ![w].phase = "storing", ![w].job = j]
    BY <1>3, DeliveryAssumption
       DEF PrepareFromCache, PrepareFlight, OnlyWork, Flights!Join
  <2>2. /\ Alone(w) /\ work'[w].phase = "storing" /\ work'[w].req = work[w].req
        /\ work'[w].cached \/ work'[w].job # 0
    BY <2>1, TypesOfTold DEF Task, Alone
  <2>3. Owned(w)' => ~req[work[w].req].cached /\ req[work[w].req].job = 0
    BY <2>1, <2>2 DEF ClaimInv, TaskFits, Owned
  <2>4. QED
    BY <2>1, <2>2, <2>3 DEF TaskFits
<1>4. CASE Attach(w)
  <2>1. PICK phase \in {"checking", "ending"} :
          work' = [work EXCEPT ![w] = TaskOn(work[w].req, req'[work[w].req], phase)]
    BY <1>4 DEF Attach
  <2>2. Alone(w) /\ work'[w].phase = phase
    BY <2>1, TypesOfTold DEF Alone, TaskOn
  <2>3. QED
    BY <2>2, TaskUnwatched DEF Watched
<1>5. CASE FileRefused(w)
  <2>1. CASE work[w].phase = "sendingEntry"
    <3>1. UNCHANGED req /\ Goes(w, Route(work[w]))
      BY <1>5, <2>1 DEF FileRefused
    <3>2. /\ Alone(w) /\ work'[w].phase = Route(work[w]) /\ work'[w].req = work[w].req
          /\ work'[w].job = work[w].job /\ work'[w].cached = work[w].cached
      BY <3>1, TypesOfTold DEF Goes, Task, Alone
    <3>3. /\ work'[w].phase \in {"checking", "resolving", "preparing"}
          /\ work'[w].phase = "preparing" => ~work[w].cached /\ work[w].job = 0
      BY <3>2, RoutePhase DEF Route
    <3>4. Owned(w)' => /\ req[work[w].req].cached = work[w].cached
                       /\ req[work[w].req].job = work[w].job
      BY <2>1, <3>1, <3>2 DEF ClaimInv, TaskFits, Owned
    <3>5. QED
      BY <3>1, <3>2, <3>3, <3>4 DEF TaskFits
  <2>2. CASE work[w].phase = "sending"
    BY <1>1, <1>5, <2>2 DEF FileRefused, Repair, Watched
  <2>3. QED
    BY <1>5, <2>1, <2>2 DEF FileRefused
<1>6. CASE Resolve(w) \/ CheckFile(w) \/ SendSucceeds(w) \/ AnswerLost(w) \/ SendFails(w)
           \/ Invalidate(w) \/ StepFails(w)
  BY <1>1, <1>6 DEF Resolve, CheckFile, SendSucceeds, AnswerLost, SendFails, Invalidate,
                    StepFails, Repair, Refused, Watched
<1>7. CASE ReadForRetry(w)
  <2>1. CASE Goes(w, "requeue") /\ RetryStatus(w) = "QUEUED"
    <3>1. /\ Alone(w) /\ work'[w].phase = "requeue" /\ work'[w].req = work[w].req
      BY <2>1, PhaseFacts
    <3>2. UNCHANGED req /\ req[work[w].req].attempts < MaxAttempts
      BY <1>7, <2>1 DEF ReadForRetry, OnlyWork, RetryStatus
    <3>3. QED
      BY <3>1, <3>2 DEF TaskFits
  <2>2. CASE Goes(w, "fail") \/ Rests(w)
    BY <1>1, <1>2, <2>2 DEF Watched
  <2>3. QED
    BY <1>7, <2>1, <2>2 DEF ReadForRetry
<1>8. CASE StorePreparation(w) \/ RecordDelivery(w) \/ ScheduleRepair(w) \/ EndDelivery(w)
           \/ WriteRetry(w) \/ Abandon(w)
  BY <1>2, <1>8 DEF StorePreparation, RecordDelivery, ScheduleRepair, EndDelivery,
                    WriteRetry, Abandon
<1>9. QED
  BY <1>3, <1>4, <1>5, <1>6, <1>7, <1>8 DEF Proceed

LEMMA ClaimFits ==
  ASSUME Typed, ClaimInv, NEW w \in Worker, Rewriting \subseteq {w}, ClaimDelivery(w)
  PROVE  ClaimInv'
<1> DEFINE rows == [r \in Request |-> Recovered(req[r])]
<1>1. \A r \in Request :
         /\ rows[r] \in RequestRow /\ Affordable(rows[r])
         /\ rows[r].status = "SENDING" => rows[r] = req[r]
         /\ rows[r].job = req[r].job /\ rows[r].cached = req[r].cached
  <2> SUFFICES ASSUME NEW r \in Request
               PROVE  /\ rows[r] \in RequestRow /\ Affordable(rows[r])
                      /\ rows[r].status = "SENDING" => rows[r] = req[r]
                      /\ rows[r].job = req[r].job /\ rows[r].cached = req[r].cached
    OBVIOUS
  <2>1. rows = [q \in Request |-> Recovered(req[q])]
    OBVIOUS
  <2> HIDE DEF rows
  <2>2. QED
    BY <2>1, RecoveredFit
<1>2. work[w].phase = "idle" /\ work \in [Worker -> Task]
  BY TypesOfTold DEF ClaimDelivery
<1>3. CASE req' = rows /\ UNCHANGED work
  <2>1. \A r \in Request : req'[r] = rows[r]
    BY <1>3
  <2> HIDE DEF rows
  <2>2. \A r \in Request : Affordable(req'[r]) /\ LeaseKept(r, w)
    BY <1>1, <2>1 DEF LeaseKept
  <2>3. TaskFits(w)'
    BY <1>2, <1>3, TaskUnwatched DEF Watched
  <2>4. QED
    BY <1>3, <2>2, <2>3, StillFits
<1>4. CASE \E r \in Request :
             /\ Claimable(rows, r)
             /\ req' = [rows EXCEPT ![r] = Claimed(rows[r], w)]
             /\ work' = [work EXCEPT ![w] = TaskOn(r, rows[r],
                  IF rows[r].wants \in entry THEN "sendingEntry" ELSE Route(rows[r]))]
  <2>1. PICK r \in Request :
          /\ Claimable(rows, r)
          /\ req' = [rows EXCEPT ![r] = Claimed(rows[r], w)]
          /\ work' = [work EXCEPT ![w] = TaskOn(r, rows[r],
               IF rows[r].wants \in entry THEN "sendingEntry" ELSE Route(rows[r]))]
    BY <1>4
  <2>2. /\ req'[r] = Claimed(rows[r], w)
        /\ \A q \in Request \ {r} : req'[q] = rows[q]
    BY <2>1
  <2> HIDE DEF rows
  <2> DEFINE phase == IF rows[r].wants \in entry THEN "sendingEntry" ELSE Route(rows[r])
  <2>3. /\ work' = [work EXCEPT ![w] = TaskOn(r, rows[r], phase)]
        /\ phase = "preparing" => rows[r].job = 0 /\ ~rows[r].cached
        /\ phase \in {"sendingEntry", "checking", "resolving", "preparing"}
    BY <2>1, RoutePhase DEF Route
  <2> HIDE DEF phase
  <2>4. /\ Alone(w) /\ work'[w].phase = phase /\ work'[w].req = r
        /\ work'[w].job = rows[r].job /\ work'[w].cached = rows[r].cached
    BY <1>2, <2>3 DEF TaskOn, Alone
  <2>5. /\ req'[r].job = rows[r].job /\ req'[r].cached = rows[r].cached
        /\ req'[r].owner = w
    BY <1>1, <2>2 DEF Claimed, RequestRow
  <2>6. rows[r].status \in {"QUEUED", "WAITING"}
    BY <2>1 DEF Claimable
  <2>7. Affordable(req'[r]) /\ LeaseKept(r, w)
    BY <1>1, <2>2, <2>5, <2>6, ClaimedAffords DEF LeaseKept
  <2>8. ASSUME NEW q \in Request, q # r
        PROVE  Affordable(req'[q]) /\ LeaseKept(q, w)
    BY <1>1, <2>2, <2>8 DEF LeaseKept
  <2>9. TaskFits(w)'
    BY <2>3, <2>4, <2>5 DEF TaskFits
  <2>10. QED
    BY <2>4, <2>7, <2>8, <2>9, StillFits DEF Alone
<1>5. QED
  BY <1>3, <1>4 DEF ClaimDelivery

LEMMA OtherRowsFit ==
  ASSUME Typed, ClaimInv,
         Others \/ Exit \/ Restart \/ \E S \in SUBSET Worker : Stop(S) \/ Crash(S)
  PROVE  \A r \in Request : Affordable(req'[r]) /\ LeaseKept(r, NoWorker)
<1>1. ASSUME NEW r \in Request, NEW f \in Fingerprint, Ask(r, f)
      PROVE  \A q \in Request : Affordable(req'[q]) /\ LeaseKept(q, NoWorker)
  <2>1. req' = [req EXCEPT ![r] = NewRequest(f)]
    BY <1>1 DEF Ask
  <2>2. Affordable(NewRequest(f)) /\ NewRequest(f).status = "QUEUED"
    BY Limits DEF NewRequest, Affordable, Free
  <2>3. QED
    BY <2>1, <2>2, TypesOfTold DEF ClaimInv, LeaseKept
<1>2. ASSUME NEW r \in Request, LeaseExpires(r)
      PROVE  \A q \in Request : Affordable(req'[q]) /\ LeaseKept(q, NoWorker)
  <2> DEFINE row == [req[r] EXCEPT !.expired = TRUE]
  <2>1. req' = [req EXCEPT ![r] = row] /\ req[r].status = "SENDING"
    BY <1>2, TypesOfTold DEF LeaseExpires
  <2>2. /\ row.status = req[r].status /\ row.owner = req[r].owner /\ row.job = req[r].job
        /\ row.cached = req[r].cached /\ row.attempts = req[r].attempts
        /\ row.repairs = req[r].repairs
    BY TypesOfTold DEF RequestRow
  <2> HIDE DEF row
  <2>3. Affordable(row)
    BY <2>2 DEF ClaimInv, Affordable, Free
  <2>4. QED
    BY <2>1, <2>2, <2>3, TypesOfTold DEF ClaimInv, LeaseKept
<1>3. CASE Restart
  <2>1. PICK rows : rows = [q \in Request |-> Recovered(req[q])] /\ req' = rows
    BY <1>3 DEF Restart
  <2>2. QED
    BY <2>1, RecoveredFit DEF LeaseKept
<1>4. ASSUME UNCHANGED req
      PROVE  \A r \in Request : Affordable(req'[r]) /\ LeaseKept(r, NoWorker)
  BY <1>4, SameRowsFit
<1>5. QED
  BY <1>1, <1>2, <1>3, <1>4
     DEF Others, Withdraw, HandOff, StoreFile, FlightEnds, WorkSucceeds, WorkFails,
         Exit, Stop, Crash

LEMMA OtherTasksFit ==
  ASSUME Typed, Others \/ Exit \/ Restart \/ \E S \in SUBSET Worker : Stop(S) \/ Crash(S)
  PROVE  \A v \in Worker : work'[v] = work[v] \/ work'[v].phase \notin Watched
<1>1. ASSUME NEW S \in SUBSET Worker, Stop(S) \/ Crash(S), NEW v \in Worker
      PROVE  work'[v].phase \notin Watched
  <2>1. \/ work'[v] = Idle
        \/ work'[v] = [work[v] EXCEPT !.phase = "retrying", !.caught = TRUE]
    BY <1>1 DEF Stop, Crash
  <2>2. work'[v].phase \in {"idle", "retrying"}
    BY <2>1, TypesOfTold, IdleTask DEF Task
  <2>3. QED
    BY <2>2 DEF Watched
<1>2. QED
  BY <1>1
     DEF Others, Ask, LeaseExpires, Withdraw, HandOff, StoreFile, FlightEnds, WorkSucceeds,
         WorkFails, Exit, Restart

LEMMA NextFits ==
  ASSUME DInv, ~SplitRetry, ClaimInv, [DeliveryNext]_dvars
  PROVE  ClaimInv'
<1>1. Typed /\ NoWorker \notin Worker
  BY DeliveryAssumption DEF DInv
<1>2. ASSUME NEW w \in Worker, InTurn(w), ClaimDelivery(w)
      PROVE  ClaimInv'
  BY <1>1, <1>2, ClaimFits DEF InTurn
<1>3. ASSUME NEW w \in Worker, InTurn(w), Proceed(w) \/ Abandon(w)
      PROVE  ClaimInv'
  BY <1>1, <1>3, WorkerRowsFit, WorkerTaskFits, StillFits DEF InTurn, Alone
<1>4. CASE /\ Rewriting = {}
           /\ Others \/ Exit \/ Restart \/ \E S \in SUBSET Worker : Stop(S) \/ Crash(S)
  BY <1>1, <1>4, OtherRowsFit, OtherTasksFit, StillFits
<1>5. CASE UNCHANGED dvars
  BY <1>5 DEF dvars, ClaimInv, TaskFits, Owned
<1>6. QED
  BY <1>2, <1>3, <1>4, <1>5 DEF DeliveryNext

LEMMA InitFits == DeliveryInit => ClaimInv
<1> SUFFICES ASSUME DeliveryInit
             PROVE  ClaimInv
  OBVIOUS
<1>1. \A r \in Request : req[r].attempts = 0 /\ req[r].repairs = 0 /\ req[r].job = 0
                         /\ req[r].cached = FALSE
  BY DEF DeliveryInit, NoRow, NewRequest
<1>2. \A w \in Worker : work[w].phase = "idle"
  BY DEF DeliveryInit, Idle
<1>3. QED
  BY <1>1, <1>2, Limits DEF ClaimInv, TaskFits, Affordable, Free

\* While retry_or_fail does not lose its race, a request is claimed at most
\* three times more often than TELEGRAM_DELIVERY_MAX_ATTEMPTS says: for its
\* two preparations and for the repair, which put it back without looking.
THEOREM ClaimsAreBounded ==
  ASSUME ~SplitRetry
  PROVE  DeliverySpec => []ClaimsBounded
<1>1. DInv /\ ClaimInv /\ [DeliveryNext]_dvars => ClaimInv'
  BY NextFits
<1>2. DInv /\ ClaimInv => ClaimsBounded
  <2> SUFFICES ASSUME DInv, ClaimInv, NEW r \in Request
               PROVE  req[r].attempts <= MaxAttempts + 3
    BY DEF ClaimsBounded
  <2>1. req[r] \in RequestRow /\ Affordable(req[r])
    BY TypesOfTold DEF DInv, ClaimInv
  <2>2. req[r].repairs \in 0..1 /\ req[r].attempts \in Nat
    BY <2>1 DEF RequestRow
  <2>3. QED
    BY <2>1, <2>2, Limits DEF Affordable, Free
<1>3. QED
  BY <1>1, <1>2, InitFits, DeliveryInductive, PTL DEF DeliverySpec

\* Claims are neither premature nor without end.
THEOREM ClaimsJustified ==
  ASSUME ~SplitRetry
  PROVE  DeliverySpec => []ClaimsAreJustified
<1>1. ClaimedIsTold /\ ClaimsBounded => ClaimsAreJustified
  BY DEF ClaimsAreJustified
<1>2. QED
  BY <1>1, ClaimsAreTold, ClaimsAreBounded, PTL

-----------------------------------------------------------------------------
(* READY is true of the files, or told by recovery to an open upload.      *)

\* A flight has a job for its artifact, nobody is on a job that was never
\* admitted, a job past its store has left a row in the file cache, and only
\* a process that stopped is not up.
FileInv ==
  /\ \A f \in Fingerprint : flight[f] # 0 =>
       job[flight[f]].stage # "NONE" /\ job[flight[f]].of = f
  /\ \A j \in Job : job[j].stage = "NONE" => \A r \in Request : sub[j][r] = "NONE"
  /\ \A j \in Job : job[j].stage # "NONE" => job[j].of \in Fingerprint
  /\ \A j \in Job : job[j].stage = "stored" => cache[job[j].of] # "NONE"
  /\ mode # "up" => stops > 0
  /\ ReadyWasStoredOrRescued

\* What READY may be told of: a stored file, or an upload that was open when
\* the process stopped, with a file of some other artifact.
Explained(j) ==
  \/ cache[job[j].of] # "NONE"
  \/ /\ stops > 0 /\ job[j].stage = "uploading"
     /\ \E f \in Fingerprint \ {job[j].of} : cache[f] # "NONE"

\* Stops are counted, and not forgotten.
StopsCount == (mode' # "up" \/ stops > 0) => stops' > 0

\* A row of the file cache stays, and a job that gets to its store leaves one.
FilesMove ==
  /\ \A f \in Fingerprint : cache[f] # "NONE" => cache'[f] # "NONE"
  /\ \A j \in Job :
       /\ job'[j].of = job[j].of /\ (job'[j].stage = "NONE" <=> job[j].stage = "NONE")
       /\ job'[j].stage = "stored" /\ job[j].stage # "stored" => cache'[job[j].of] # "NONE"
       /\ job[j].stage = "uploading" => job'[j].stage \in {"uploading", "stored"}

LEMMA ReadyIsExplained ==
  ReadyWasStoredOrRescued <=>
    \A j \in Job, r \in Request : sub[j][r] = "READY" => Explained(j)
  BY DEF ReadyWasStoredOrRescued, Explained

\* What has been told stays explained.
LEMMA StaysExplained ==
  ASSUME FilesMove, StopsCount, NEW j \in Job, job[j].of \in Fingerprint, Explained(j)
  PROVE  Explained(j)'
<1>1. CASE cache[job[j].of] # "NONE"
  BY <1>1 DEF Explained, FilesMove
<1>2. CASE cache[job[j].of] = "NONE" /\ job'[j].stage = "stored"
  BY <1>2 DEF Explained, FilesMove
<1>3. CASE cache[job[j].of] = "NONE" /\ job'[j].stage # "stored"
  <2>1. stops > 0 /\ job[j].stage = "uploading"
    BY <1>3 DEF Explained
  <2>2. PICK f \in Fingerprint \ {job[j].of} : cache[f] # "NONE"
    BY <1>3 DEF Explained
  <2>3. /\ stops' > 0 /\ job'[j].stage = "uploading" /\ job'[j].of = job[j].of
        /\ cache'[f] # "NONE"
    BY <1>3, <2>1, <2>2 DEF StopsCount, FilesMove
  <2>4. QED
    BY <2>2, <2>3 DEF Explained
<1>4. QED
  BY <1>1, <1>2, <1>3

\* What does not tell anybody anything.
LEMMA FilesKept ==
  ASSUME Typed, FileInv, FilesMove, StopsCount, UNCHANGED <<flight, sub>>
  PROVE  FileInv'
<1>1. \A f \in Fingerprint : flight[f] # 0 => flight[f] \in Job
  BY Parts DEF FlightTypes
<1>2. \A j \in Job, r \in Request : sub[j][r] = "READY" => job[j].of \in Fingerprint
  BY DEF FileInv
<1>3. ReadyWasStoredOrRescued'
  <2>1. \A j \in Job, r \in Request : sub[j][r] = "READY" => Explained(j)
    BY ReadyIsExplained DEF FileInv
  <2>2. \A j \in Job, r \in Request : sub'[j][r] = "READY" => Explained(j)'
    BY <1>2, <2>1, StaysExplained
  <2>3. QED
    BY <2>2 DEF ReadyWasStoredOrRescued, Explained
<1>4. mode' # "up" => stops' > 0
  BY DEF StopsCount
<1>5. QED
  BY <1>1, <1>3, <1>4 DEF FileInv, FilesMove

\* The end of some flights, READY only where that is explained.
LEMMA FlightsEndTrue ==
  ASSUME Typed, FileInv, UNCHANGED <<job, cache>>, StopsCount,
         NEW F \in SUBSET Fingerprint, NEW outcome \in [Job -> Flights!Result],
         Flights!Finish(F, outcome),
         \A f \in F : outcome[flight[f]] = "READY" => Explained(flight[f])
  PROVE  FileInv'
<1>1. FlightTypes
  BY Parts
<1>2. \A f \in Fingerprint : flight'[f] # 0 => flight'[f] = flight[f]
  BY <1>1 DEF FlightTypes, Flights!Finish
<1>3. ASSUME NEW j \in Job, NEW r \in Request, sub'[j][r] # sub[j][r]
      PROVE  /\ sub[j][r] = "WAITING" /\ sub'[j][r] = outcome[j]
             /\ \E f \in F : flight[f] = j
  BY <1>1, <1>3 DEF FlightTypes, Flights!Finish, Flights!Waiting
<1>4. ReadyWasStoredOrRescued'
  <2> SUFFICES ASSUME NEW j \in Job, NEW r \in Request, sub'[j][r] = "READY"
               PROVE  Explained(j)'
    BY DEF ReadyWasStoredOrRescued, Explained
  <2>1. Explained(j) /\ job[j].of \in Fingerprint
    <3>1. CASE sub'[j][r] = sub[j][r]
      BY <3>1, ReadyIsExplained DEF FileInv
    <3>2. CASE sub'[j][r] # sub[j][r]
      BY <1>3, <3>2 DEF FileInv
    <3>3. QED
      BY <3>1, <3>2
  <2>2. FilesMove
    BY DEF FilesMove
  <2>3. QED
    BY <2>1, <2>2, StaysExplained
<1>5. \A j \in Job : job[j].stage = "NONE" => \A r \in Request : sub'[j][r] = "NONE"
  BY <1>3 DEF FileInv
<1>6. QED
  BY <1>2, <1>4, <1>5 DEF FileInv, StopsCount

\* Joining a flight and leaving it.
LEMMA PlacesTrue ==
  ASSUME Typed, FileInv, UNCHANGED <<job, cache, mode, stops>>,
         NEW r \in Request, NEW f \in Fingerprint, Flights!Join(r, f) \/ Flights!Leave(r, f)
  PROVE  FileInv'
<1>1. FlightTypes /\ flight[f] \in Job
  BY Parts DEF FlightTypes, Flights!Join, Flights!Leave
<1>2. /\ \A g \in Fingerprint : flight'[g] # 0 => flight'[g] = flight[g]
      /\ \A j \in Job, q \in Request :
           sub'[j][q] = sub[j][q] \/ (j = flight[f] /\ sub'[j][q] \in {"WAITING", "CANCELLED"})
  BY <1>1 DEF FlightTypes, Flights!Join, Flights!Leave
<1>3. job[flight[f]].stage # "NONE"
  BY <1>1 DEF FileInv, Flights!Join, Flights!Leave
<1>4. ReadyWasStoredOrRescued'
  BY <1>2 DEF FileInv, ReadyWasStoredOrRescued
<1>5. \A j \in Job : job[j].stage = "NONE" => \A q \in Request : sub'[j][q] = "NONE"
  BY <1>2, <1>3 DEF FileInv
<1>6. QED
  BY <1>2, <1>4, <1>5 DEF FileInv

\* A new flight has a job that was never admitted before.
LEMMA NewFlightTrue ==
  ASSUME Typed, FileInv, UNCHANGED <<cache, mode, stops>>,
         NEW r \in Request, NEW f \in Fingerprint, NEW j \in Job,
         job[j].stage = "NONE", Flights!Open(r, f, j),
         job' = [job EXCEPT ![j] = [stage |-> "downloading", of |-> f]]
  PROVE  FileInv'
<1>1. FlightTypes /\ JobTypes
  BY Parts
<1>2. /\ job'[j].stage = "downloading" /\ job'[j].of = f
      /\ \A i \in Job : i # j => job'[i] = job[i]
  BY <1>1 DEF JobTypes
<1>3. /\ \A g \in Fingerprint : flight'[g] = IF g = f THEN j ELSE flight[g]
      /\ \A i \in Job, q \in Request :
           sub'[i][q] = sub[i][q] \/ (i = j /\ sub'[i][q] = "WAITING")
  BY <1>1 DEF FlightTypes, Flights!Open
<1>4. \A g \in Fingerprint : flight[g] # 0 => flight[g] # j /\ flight[g] \in Job
  BY <1>1 DEF FlightTypes, FileInv
<1>5. ReadyWasStoredOrRescued'
  <2> SUFFICES ASSUME NEW i \in Job, NEW q \in Request, sub'[i][q] = "READY"
               PROVE  Explained(i)'
    BY DEF ReadyWasStoredOrRescued, Explained
  <2>1. sub[i][q] = "READY" /\ Explained(i)
    BY <1>3, ReadyIsExplained DEF FileInv
  <2>2. i # j
    BY <2>1 DEF FileInv
  <2>3. QED
    BY <1>2, <2>1, <2>2 DEF Explained
<1>6. QED
  BY <1>2, <1>3, <1>4, <1>5 DEF FileInv

\* One step.  The rescue at startup tells READY to open uploads: those that
\* are stored have a file, the others are explained by the file it found.
LEMMA NextStored ==
  ASSUME DInv, FileInv, [DeliveryNext]_dvars
  PROVE  FileInv'
<1>0. Typed /\ FlightTypes /\ JobTypes /\ FileTypes /\ ProcessTypes
  BY Parts DEF DInv
<1>s. UNCHANGED process => StopsCount
  BY DEF FileInv, StopsCount, process
<1>1. ASSUME UNCHANGED <<flight, sub, job>>, StopsCount,
             \A f \in Fingerprint : cache[f] # "NONE" => cache'[f] # "NONE"
      PROVE  FileInv'
  <2>1. FilesMove
    BY <1>1 DEF FilesMove, FileInv
  <2>2. QED
    BY <1>0, <1>1, <2>1, FilesKept
<1>2. ASSUME NEW w \in Worker, ClaimDelivery(w) \/ Proceed(w) \/ Abandon(w)
      PROVE  FileInv'
  <2>0. UNCHANGED process
    BY <1>2
       DEF Proceed, ClaimDelivery, Abandon, PrepareFromCache, PrepareFlight, StorePreparation,
           Resolve, Attach, CheckFile, SendSucceeds, AnswerLost, SendFails, FileRefused,
           RecordDelivery, Invalidate, ScheduleRepair, EndDelivery, ReadForRetry, WriteRetry,
           StepFails, OnlyReq, OnlyWork
  <2>1. CASE PrepareFlight(w)
    <3>1. work[w].req \in Request /\ Wanted(w) \in Fingerprint
      BY <1>0, <2>1, Parts
         DEF PrepareFlight, WorkTypes, TaskHasRequest, RowTypes, WantsArtifact, Wanted
    <3>2. QED
      BY <1>0, <1>1, <1>s, <2>0, <2>1, <3>1, PlacesTrue, NewFlightTrue
         DEF PrepareFlight, shared, caches, process
  <2>2. CASE Invalidate(w)
    BY <1>0, <1>1, <1>s, <2>0, <2>2 DEF Invalidate, FileTypes, shared
  <2>3. CASE ~PrepareFlight(w) /\ ~Invalidate(w)
    <3>1. UNCHANGED <<flight, sub, job, cache>>
      BY <1>2, <2>3
         DEF Proceed, ClaimDelivery, Abandon, PrepareFromCache, StorePreparation, Resolve, Attach,
             CheckFile, SendSucceeds, AnswerLost, SendFails, FileRefused, RecordDelivery,
             ScheduleRepair, EndDelivery, ReadForRetry, WriteRetry, StepFails,
             OnlyReq, OnlyWork, shared, caches
    <3>2. QED
      BY <1>1, <1>s, <2>0, <3>1
  <2>4. QED
    BY <2>1, <2>2, <2>3
<1>3. ASSUME NEW f \in Fingerprint, FlightEnds(f)
      PROVE  FileInv'
  <2>1. PICK outcome \in [Job -> Flights!Result] :
          /\ Flights!Finish({f}, outcome)
          /\ \/ job[flight[f]].stage = "stored"
             \/ \A j \in Job : outcome[j] # "READY"
    <3>1. CASE WorkSucceeds(f)
      <4>1. [j \in Job |-> "READY"] \in [Job -> Flights!Result]
        BY DEF Flights!Result
      <4>2. QED
        BY <3>1, <4>1 DEF WorkSucceeds
    <3>2. CASE \E outcome \in {"FAILED", "CANCELLED"} : WorkFails(f, outcome)
      <4>1. PICK end \in {"FAILED", "CANCELLED"} : Flights!Finish({f}, [j \in Job |-> end])
        BY <3>2 DEF WorkFails
      <4>2. [j \in Job |-> end] \in [Job -> Flights!Result]
        BY DEF Flights!Result
      <4>3. QED
        BY <4>1, <4>2
    <3>3. QED
      BY <1>3, <3>1, <3>2 DEF FlightEnds
  <2>2. UNCHANGED <<job, cache>> /\ flight[f] \in Job /\ StopsCount
    BY <1>0, <1>3, <2>1, <1>s
       DEF FlightEnds, WorkSucceeds, WorkFails, caches, FlightTypes, Flights!Finish
  <2>3. outcome[flight[f]] = "READY" => Explained(flight[f])
    BY <2>1, <2>2, <1>0 DEF FileInv, FlightTypes, Flights!Finish, Explained
  <2>4. {f} \in SUBSET Fingerprint
    OBVIOUS
  <2>5. QED
    BY <1>0, <2>1, <2>2, <2>3, <2>4, FlightsEndTrue
<1>4. ASSUME NEW j \in Job, HandOff(j) \/ StoreFile(j)
      PROVE  FileInv'
  <2>1. job[j].stage # "NONE" /\ job[j].of \in Fingerprint
    BY <1>4 DEF HandOff, StoreFile, FileInv
  <2>2. UNCHANGED <<flight, sub>> /\ FilesMove
    BY <1>0, <1>4, <2>1 DEF HandOff, StoreFile, caches, FilesMove, JobTypes, JobRecord, FileTypes
  <2>3. StopsCount
    BY <1>4, <1>s DEF HandOff, StoreFile
  <2>4. QED
    BY <1>0, <2>2, <2>3, FilesKept
<1>5. CASE Others
  <2>1. ASSUME NEW r \in Request, NEW f \in Fingerprint, Withdraw(r, f)
        PROVE  FileInv'
    BY <1>0, <2>1, PlacesTrue DEF Withdraw, caches, process
  <2>2. ASSUME NEW r \in Request, LeaseExpires(r) \/ \E f \in Fingerprint : Ask(r, f)
        PROVE  FileInv'
    BY <1>1, <1>s, <2>2 DEF LeaseExpires, Ask, shared, caches
  <2>3. QED
    BY <1>3, <1>4, <1>5, <2>1, <2>2 DEF Others
<1>6. CASE Restart
  <2>0. stops > 0 /\ StopsCount
    BY <1>6 DEF Restart, FileInv, StopsCount
  <2>1. CASE ActiveFiles = {}
    BY <1>1, <1>6, <2>0, <2>1 DEF Restart, caches
  <2>2. CASE ActiveFiles # {}
    <3>1. Flights!Finish(OpenUploads, [j \in Job |-> "READY"]) /\ UNCHANGED <<job, cache>>
      BY <1>6, <2>2 DEF Restart, caches
    <3>2. PICK g \in Fingerprint : cache[g] # "NONE"
      BY <2>2 DEF ActiveFiles
    <3>3. ASSUME NEW f \in OpenUploads
          PROVE  Explained(flight[f])
      <4>1. /\ f \in Fingerprint /\ flight[f] # 0 /\ flight[f] \in Job
            /\ job[flight[f]].stage \in {"uploading", "stored"}
        BY <1>0 DEF OpenUploads, FlightTypes
      <4>2. job[flight[f]].of = f
        BY <4>1 DEF FileInv
      <4>3. CASE cache[f] # "NONE"
        BY <4>2, <4>3 DEF Explained
      <4>4. CASE cache[f] = "NONE"
        <5>1. job[flight[f]].stage = "uploading"
          BY <4>1, <4>2, <4>4 DEF FileInv
        <5>2. g \in Fingerprint \ {job[flight[f]].of}
          BY <3>2, <4>2, <4>4
        <5>3. QED
          BY <2>0, <3>2, <5>1, <5>2 DEF Explained
      <4>5. QED
        BY <4>3, <4>4
    <3>4. OpenUploads \in SUBSET Fingerprint /\ [j \in Job |-> "READY"] \in [Job -> Flights!Result]
      BY DEF OpenUploads, Flights!Result
    <3>5. QED
      BY <1>0, <2>0, <3>1, <3>3, <3>4, FlightsEndTrue
  <2>3. QED
    BY <2>1, <2>2
<1>7. CASE Exit \/ (\E S \in SUBSET Worker : Stop(S) \/ Crash(S)) \/ UNCHANGED dvars
  <2>1. flight' = flight /\ sub' = sub /\ job' = job /\ cache' = cache
    BY <1>7, Zenon DEF Exit, Stop, Crash, dvars, shared, caches
  <2>2. StopsCount
    <3>1. CASE Exit
      BY <3>1 DEF Exit, StopsCount, FileInv
    <3>2. ASSUME NEW S \in SUBSET Worker, Stop(S) \/ Crash(S)
          PROVE  StopsCount
      <4>1. stops' = stops + 1
        BY <3>2, Zenon DEF Stop, Crash, CutOff
      <4>2. stops \in Nat
        BY <1>0, DeliveryAssumption DEF ProcessTypes
      <4>3. QED
        BY <4>1, <4>2 DEF StopsCount
    <3>3. CASE UNCHANGED dvars
      BY <3>3, <1>s DEF dvars, process
    <3>4. QED
      BY <1>7, <3>1, <3>2, <3>3
  <2>3. QED
    BY <1>1, <2>1, <2>2
<1>8. QED
  BY <1>2, <1>5, <1>6, <1>7 DEF DeliveryNext

LEMMA InitStored == DeliveryInit => FileInv
  BY DEF DeliveryInit, Flights!Init, FileInv, ReadyWasStoredOrRescued

\* READY is told only when a file of that very artifact has been stored, or
\* by the recovery at startup: then the process did stop, the upload was open
\* and not stored, and another artifact of the track has a file.  Whatever
\* fails, expires, crashes or is repaired in between adds no other case.
THEOREM ReadyFilesStored == DeliverySpec => []ReadyWasStoredOrRescued
<1>1. DInv /\ FileInv /\ [DeliveryNext]_dvars => FileInv'
  BY NextStored
<1>2. FileInv => ReadyWasStoredOrRescued
  BY DEF FileInv
<1>3. QED
  BY <1>1, <1>2, InitStored, DeliveryInductive, PTL DEF DeliverySpec
-----------------------------------------------------------------------------
(* The rows and the messages are those of Outbox, unless retry_or_fail     *)
(* loses its race.                                                         *)

Implemented == [Promise!Next]_<<Outcome, copies, doubt>>

\* No row appears that nobody asked for.
NobodyAsks == \A r \in Request : req[r].status = "NONE" => req'[r].status = "NONE"

\* What an observer sees of a row.
LEMMA Observed ==
  ASSUME NEW r \in Request
  PROVE  /\ req[r].status \in Pending => Outcome[r] = "OPEN"
         /\ req[r].status \notin Pending => Outcome[r] = req[r].status
  BY DEF Outcome, Pending

\* A step that sends nothing and loses nothing ends requests, or does less.
LEMMA EndsImplemented ==
  ASSUME ~SplitRetry, RowTypes, RowsMove, NobodyAsks, OutcomeIsTrue', UNCHANGED history
  PROVE  Implemented
<1> DEFINE S == {r \in Request : req[r].status \in Pending /\ req'[r].status \in Settled}
           ending == [r \in S |-> req'[r].status]
<1>1. UNCHANGED <<copies, doubt>>
  BY DEF history
<1>2. \A r \in Request :
         /\ req[r].status \in Pending \cup Settled \cup {"NONE"}
         /\ req'[r].status \in Pending \cup Settled \cup {"NONE"}
  BY DEF RowTypes, RowsMove, RequestRow
<1>3. ending \in [S -> Promise!Ending] /\ S \in SUBSET Request
  BY DEF Promise!Ending, Settled
<1>4. ASSUME NEW r \in S
      PROVE  Promise!Open(r) /\ Promise!Truthful(r, ending[r])
  <2>1. r \in Request /\ ending[r] = req'[r].status
    OBVIOUS
  <2>2. Promise!Open(r)
    BY Observed DEF Promise!Open
  <2>3. req'[r].status \in {"DELIVERED", "FAILED", "CANCELLED"}
    BY DEF Settled
  <2>4. Promise!Truthful(r, ending[r])
    BY <1>1, <2>1, <2>3 DEF OutcomeIsTrue, Promise!Truthful
  <2>5. QED
    BY <2>2, <2>4
<1>5. Outcome' = [r \in Request |-> IF r \in S THEN ending[r] ELSE Outcome[r]]
  <2>1. ASSUME NEW r \in Request
        PROVE  Outcome'[r] = IF r \in S THEN ending[r] ELSE Outcome[r]
    <3>1. Outcome'[r] = IF req'[r].status \in Pending THEN "OPEN" ELSE req'[r].status
      BY DEF Outcome
    <3>2. CASE r \in S
      BY <3>1, <3>2 DEF Pending, Settled
    <3>3. CASE r \notin S
      BY <1>2, <3>1, <3>3 DEF Outcome, Pending, Settled, RowsMove, NobodyAsks
    <3>4. QED
      BY <3>2, <3>3
  <2>2. QED
    BY <2>1 DEF Outcome
<1>6. DOMAIN ending = S
  OBVIOUS
<1> HIDE DEF S, ending
<1>7. Promise!End(ending)
  BY <1>1, <1>4, <1>5, <1>6 DEF Promise!End
<1>8. QED
  BY <1>3, <1>7 DEF Implemented, Promise!Next

LEMMA AskImplemented ==
  ASSUME Typed, NEW r \in Request, NEW f \in Fingerprint, Ask(r, f)
  PROVE  Implemented
<1>1. /\ req[r].status = "NONE" /\ UNCHANGED <<copies, doubt>>
      /\ req' = [req EXCEPT ![r] = NewRequest(f)] /\ req \in [Request -> RequestRow]
  BY TypesOfTold DEF Ask, history
<1>2. NewRequest(f).status = "QUEUED"
  BY DEF NewRequest
<1>3. Outcome[r] = "NONE" /\ Outcome' = [Outcome EXCEPT ![r] = "OPEN"]
  BY <1>1, <1>2 DEF Outcome, Pending
<1>4. Promise!Ask(r)
  BY <1>1, <1>3 DEF Promise!Ask
<1>5. QED
  BY <1>4 DEF Implemented, Promise!Next

\* A busy worker's request is open, or in doubt already; where a file goes
\* out, the chat has none.
LEMMA BusyOpen ==
  ASSUME Typed, StoryInv, NEW w \in Worker, work[w].phase # "idle"
  PROVE  /\ work[w].req \in Request
         /\ Promise!Open(work[w].req) \/ work[w].req \in doubt
         /\ work[w].phase \in Sending => Promise!Sendable(work[w].req)
<1> DEFINE q == work[w].req
<1>1. q \in Request
  BY TypesOfTold
<1>2. ASSUME q \notin doubt
      PROVE  /\ Promise!Open(q)
             /\ work[w].phase \in Sending => copies[q] = 0
  <2>1. Held(q) /\ Counted(q)
    BY <1>1, <1>2 DEF StoryInv
  <2>2. req[q].status = "SENDING" /\ \A v \in Worker : work[v].req = q => v = w
    BY <2>1 DEF Held
  <2>3. Promise!Open(q)
    BY <1>1, <2>2, Observed DEF Promise!Open, Pending
  <2>4. work[w].phase \in Sending => ~GotIt(q)
    BY <2>2 DEF GotIt, Sending, Sent
  <2>5. QED
    BY <2>1, <2>3, <2>4 DEF Counted
<1>3. QED
  BY <1>1, <1>2 DEF Promise!Sendable

LEMMA SendImplemented ==
  ASSUME Typed, StoryInv, NEW w \in Worker, SendSucceeds(w)
  PROVE  Implemented
<1> DEFINE q == work[w].req
<1>1. /\ work[w].phase \in Sending /\ work[w].phase # "idle"
      /\ copies' = MoreCopies({w}) /\ UNCHANGED <<req, doubt>>
  BY DEF SendSucceeds, Sending
<1>2. q \in Request /\ Promise!Sendable(q)
  BY <1>1, BusyOpen
<1>3. copies \in [Request -> 0..2]
  BY Parts DEF HistoryTypes
<1>4. copies' = [copies EXCEPT ![q] = IF copies[q] = 2 THEN 2 ELSE copies[q] + 1]
  BY <1>1, <1>2, <1>3, OneMore
<1>5. Outcome' = Outcome
  BY <1>1 DEF Outcome
<1>6. Promise!Send(q)
  BY <1>1, <1>2, <1>4, <1>5 DEF Promise!Send
<1>7. QED
  BY <1>2, <1>6 DEF Implemented, Promise!Next

\* The fate of the files of some busy workers becomes unknown.
LEMMA LoseImplemented ==
  ASSUME Typed, StoryInv, NEW S \in SUBSET Request,
         \A r \in S : Promise!Open(r) \/ r \in doubt,
         \A r \in Request : req'[r].status = req[r].status,
         doubt' = doubt \cup S, copies' \in [Request -> 0..2],
         \A r \in Request : copies'[r] >= copies[r],
         \A r \in Request : copies'[r] # copies[r] => r \in S /\ Promise!Sendable(r)
  PROVE  Implemented
<1>1. Outcome' = Outcome
  BY DEF Outcome
<1>2. copies \in [Request -> 0..2]
  BY Parts DEF HistoryTypes
<1>3. \A r \in Request : copies'[r] # copies[r] => copies'[r] > copies[r]
  BY <1>2
<1>4. Promise!Lose(S)
  BY <1>1, <1>3 DEF Promise!Lose
<1>5. QED
  BY <1>4 DEF Implemented, Promise!Next

LEMMA WorkerLossImplemented ==
  ASSUME Typed, StoryInv, NEW w \in Worker, work[w].phase # "idle", UNCHANGED req,
         doubt' = doubt \cup {work[w].req},
         \/ copies' = copies
         \/ work[w].phase \in Sending /\ copies' = MoreCopies({w})
  PROVE  Implemented
<1> DEFINE q == work[w].req
<1>1. /\ q \in Request /\ (Promise!Open(q) \/ q \in doubt)
      /\ work[w].phase \in Sending => Promise!Sendable(q)
  BY BusyOpen
<1>2. /\ copies \in [Request -> 0..2] /\ copies' \in [Request -> 0..2]
      /\ \A r \in Request : copies'[r] >= copies[r]
      /\ \A r \in Request : copies'[r] # copies[r] => r = q /\ work[w].phase \in Sending
  <2>1. copies \in [Request -> 0..2]
    BY Parts DEF HistoryTypes
  <2>2. CASE copies' = copies
    BY <2>1, <2>2
  <2>3. CASE work[w].phase \in Sending /\ copies' = MoreCopies({w})
    BY <2>1, <2>3, MoreIsMore
  <2>4. QED
    BY <2>2, <2>3
<1>3. {q} \in SUBSET Request
  BY <1>1
<1> HIDE DEF q
<1>4. doubt' = doubt \cup {q}
  BY DEF q
<1>5. QED
  BY <1>1, <1>2, <1>3, <1>4, LoseImplemented

LEMMA LeaseImplemented ==
  ASSUME Typed, StoryInv, NEW r \in Request, LeaseExpires(r)
  PROVE  Implemented
<1> DEFINE S == IF Unattended(r) THEN {} ELSE {r}
<1>1. /\ req[r].status = "SENDING" /\ copies' = copies /\ doubt' = doubt \cup S
      /\ req \in [Request -> RequestRow] /\ S \in SUBSET Request
  BY TypesOfTold DEF LeaseExpires
<1>2. \A q \in Request : req'[q].status = req[q].status
  BY <1>1 DEF LeaseExpires, RequestRow
<1>3. \A q \in S : Promise!Open(q)
  BY <1>1, Observed DEF Promise!Open, Pending
<1>4. copies' \in [Request -> 0..2] /\ \A q \in Request : copies'[q] >= copies[q]
  BY <1>1, Parts DEF HistoryTypes
<1> HIDE DEF S
<1>5. QED
  BY <1>1, <1>2, <1>3, <1>4, LoseImplemented

LEMMA CutOffImplemented ==
  ASSUME Typed, StoryInv, NEW S \in SUBSET Worker, CutOff(S), UNCHANGED req
  PROVE  Implemented
<1> DEFINE T == S \cup {v \in Worker : work[v].phase \in Sent}
           lost == {work[w].req : w \in T}
<1>1. /\ copies' = MoreCopies(S) /\ doubt' = doubt \cup lost
      /\ \A w \in S : work[w].phase \in Sending
  BY DEF CutOff, Sent
<1>2. \A w \in T : w \in Worker /\ work[w].phase # "idle"
  BY <1>1 DEF Sending, Sent
<1>3. lost \in SUBSET Request /\ \A r \in lost : Promise!Open(r) \/ r \in doubt
  BY <1>2, BusyOpen
<1>4. /\ copies' \in [Request -> 0..2] /\ \A r \in Request : copies'[r] >= copies[r]
      /\ \A r \in Request : copies'[r] # copies[r] => \E w \in S : work[w].req = r
  BY <1>1, MoreIsMore
<1>5. \A r \in Request : copies'[r] # copies[r] => r \in lost /\ Promise!Sendable(r)
  BY <1>1, <1>2, <1>4, BusyOpen
<1> HIDE DEF lost
<1>6. QED
  BY <1>1, <1>3, <1>4, <1>5, LoseImplemented

\* Workers change rows that were asked for, and recovery asks for none.
LEMMA WorkersAskNothing ==
  ASSUME DInv, NEW w \in Worker, ClaimDelivery(w) \/ Proceed(w) \/ Abandon(w)
  PROVE  NobodyAsks
<1>1. Typed /\ req \in [Request -> RequestRow]
  BY TypesOfTold DEF DInv
<1>2. CASE ClaimDelivery(w)
  <2> DEFINE rows == [r \in Request |-> Recovered(req[r])]
  <2>1. \A r \in Request : rows[r] \in RequestRow
                           /\ (req[r].status = "NONE" <=> rows[r].status = "NONE")
    BY <1>1, RecoveredRow
  <2>2. \/ req' = rows
        \/ \E q \in Request : Claimable(rows, q) /\ req' = [rows EXCEPT ![q] = Claimed(rows[q], w)]
    BY <1>2 DEF ClaimDelivery
  <2> HIDE DEF rows
  <2>3. \A q \in Request : Claimable(rows, q) => rows[q].status # "NONE"
    BY DEF Claimable
  <2>4. QED
    BY <2>1, <2>2, <2>3 DEF NobodyAsks, rows
<1>3. CASE Proceed(w) \/ Abandon(w)
  <2>1. UNCHANGED req \/ (work[w].phase # "idle" /\ \E row : req' = [req EXCEPT ![work[w].req] = row])
    BY <1>3
       DEF Proceed, Abandon, PrepareFromCache, PrepareFlight, StorePreparation, Resolve, Attach,
           CheckFile, SendSucceeds, AnswerLost, SendFails, FileRefused, RecordDelivery, Invalidate,
           ScheduleRepair, EndDelivery, ReadForRetry, WriteRetry, StepFails, OnlyWork
  <2>2. work[w].phase # "idle" => req[work[w].req].status # "NONE"
    BY <1>1, Parts DEF WorkTypes, TaskHasRequest
  <2>3. QED
    BY <1>1, <2>1, <2>2 DEF NobodyAsks
<1>4. QED
  BY <1>2, <1>3

LEMMA NextImplemented ==
  ASSUME ~SplitRetry, DInv, StoryInv, [DeliveryNext]_dvars
  PROVE  Implemented
<1>1. Typed /\ RowTypes /\ RowsMove /\ OutcomeIsTrue'
  <2>1. DInv' /\ StoryInv' /\ RowsMove
    BY NextDInv, NextStory DEF DInv
  <2>2. (Typed /\ StoryInv => OutcomeIsTrue)'
    BY StoryTrue, PTL
  <2>3. QED
    BY <2>1, <2>2, Parts DEF DInv
<1>2. ASSUME NobodyAsks, UNCHANGED history
      PROVE  Implemented
  BY <1>1, <1>2, EndsImplemented
<1>3. ASSUME NEW w \in Worker, ClaimDelivery(w) \/ Proceed(w) \/ Abandon(w)
      PROVE  Implemented
  <2>1. CASE SendSucceeds(w)
    BY <1>1, <2>1, SendImplemented
  <2>2. CASE AnswerLost(w) \/ (StepFails(w) /\ work[w].phase \in Sent)
    <3>1. /\ work[w].phase # "idle" /\ UNCHANGED req /\ doubt' = doubt \cup {work[w].req}
          /\ \/ copies' = copies
             \/ work[w].phase \in Sending /\ copies' = MoreCopies({w})
      BY <2>2 DEF AnswerLost, StepFails, Sending, Sent
    <3>2. QED
      BY <1>1, <3>1, WorkerLossImplemented
  <2>3. CASE ~SendSucceeds(w) /\ ~AnswerLost(w) /\ ~(StepFails(w) /\ work[w].phase \in Sent)
    <3>1. UNCHANGED history
      BY <1>3, <2>3
         DEF Proceed, ClaimDelivery, Abandon, PrepareFromCache, PrepareFlight, StorePreparation,
             Resolve, Attach, CheckFile, SendFails, FileRefused, RecordDelivery, Invalidate,
             ScheduleRepair, EndDelivery, ReadForRetry, WriteRetry, StepFails, Sent,
             OnlyReq, OnlyWork, history
    <3>2. QED
      BY <1>2, <1>3, <3>1, WorkersAskNothing
  <2>4. QED
    BY <2>1, <2>2, <2>3
<1>4. ASSUME UNCHANGED <<req, copies, doubt>>
      PROVE  Implemented
  BY <1>2, <1>4 DEF NobodyAsks, history
<1>5. CASE Others
  <2>1. CASE \E r \in Request, f \in Fingerprint : Ask(r, f)
    BY <1>1, <2>1, AskImplemented
  <2>2. CASE \E r \in Request : LeaseExpires(r)
    BY <1>1, <2>2, LeaseImplemented
  <2>3. CASE \/ \E r \in Request, f \in Fingerprint : Withdraw(r, f)
             \/ \E j \in Job : HandOff(j) \/ StoreFile(j)
             \/ \E f \in Fingerprint : FlightEnds(f)
    BY <1>4, <2>3 DEF Withdraw, HandOff, StoreFile, FlightEnds, WorkSucceeds, WorkFails, history
  <2>4. QED
    BY <1>5, <2>1, <2>2, <2>3 DEF Others
<1>6. CASE Restart
  <2>1. UNCHANGED history /\ req' = [r \in Request |-> Recovered(req[r])]
    BY <1>6 DEF Restart
  <2>2. NobodyAsks
    BY <1>1, <2>1, TypesOfTold, RecoveredRow DEF NobodyAsks
  <2>3. QED
    BY <1>2, <2>1, <2>2
<1>7. CASE Exit \/ UNCHANGED dvars
  BY <1>4, <1>7 DEF Exit, dvars, history
<1>8. CASE \E S \in SUBSET Worker : Stop(S) \/ Crash(S)
  BY <1>1, <1>8, CutOffImplemented DEF Stop, Crash
<1>9. QED
  BY <1>3, <1>5, <1>6, <1>7, <1>8 DEF DeliveryNext

\* Whatever workers, Telegram, leases, stops, crashes and recoveries do, each
\* step of the outbox is a step of Outbox or not seen at all: while
\* retry_or_fail does not lose its race, requests open once, end once and end
\* as their chats were served, and a file goes out only where none is yet,
\* but for requests in doubt.
THEOREM ImplementsOutbox ==
  ASSUME ~SplitRetry
  PROVE  DeliverySpec => KeepsPromise
<1>1. DeliveryInit => Promise!Init
  BY DEF DeliveryInit, NoRow, NewRequest, Promise!Init, Outcome, Pending
<1>2. DInv /\ StoryInv /\ [DeliveryNext]_dvars => [Promise!Next]_<<Outcome, copies, doubt>>
  BY NextImplemented DEF Implemented
<1>3. QED
  BY <1>1, <1>2, DeliveryInductive, StoryInductive, PTL DEF DeliverySpec, KeepsPromise, Promise!Spec

=============================================================================
