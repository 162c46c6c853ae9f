------------------------------ MODULE WorkerPool ------------------------------
(***************************************************************************)
(* One pool of queue workers (AsyncWorkerPool in services/workers.py), the *)
(* settings row that says how many there should be (WorkerSettingsService, *)
(* RuntimeWorkerControlService, the local queue tool) and the loop of the  *)
(* QueueManager that brings the two together once a second.                *)
(*                                                                         *)
(* The rows of the jobs belong to JobQueue; here a job is queued, or runs, *)
(* or is stray: RUNNING in the database with nobody working on it, until   *)
(* its lease expires.  The second pool is another instance of this module. *)
(* Worker numbers are only names: a slot that was pruned is used again.    *)
(***************************************************************************)
EXTENDS Integers, FiniteSets

CONSTANTS
  Slot,         \* worker slots
  Job,          \* jobs
  Maximum,      \* the configured maximum of workers
  MaxChanges,   \* bound: changes of the setting
  MayStop       \* whether the manager is ever stopped

VARIABLES
  setting,      \* runtime_settings: the desired count of workers
  pool,         \* what the pool is told: desired, accepting, phase
  slot,         \* slot |-> its task
  held,         \* job |-> "queued", "running" or "stray"
  activeJobs,       \* _active_jobs: job |-> the slot whose operation is registered
  admin,        \* a change of the setting: saved, not applied yet
  loop,         \* the reconciler: what it read
  changes       \* bound

poolVars == <<setting, pool, slot, held, activeJobs, admin, loop, changes>>

None == "none"

ASSUME PoolAssumption ==
  /\ IsFiniteSet(Slot) /\ Maximum \in Nat \ {0}
  /\ None \notin Slot \cup Job

NoSlot == [pc |-> None, retire |-> FALSE, job |-> None, beat |-> FALSE]
NewSlot == [NoSlot EXCEPT !.pc = "loop"]

(* Tasks that are not done.  A slot whose task is done stays until pruned. *)
LiveSlots == {s \in Slot : slot[s].pc \notin {None, "done"}}
Serving == {s \in LiveSlots : ~slot[s].retire}

PoolInit ==
  /\ setting \in 1..Maximum
  /\ pool = [desired |-> 0, accepting |-> FALSE, phase |-> "new"]
  /\ slot = [s \in Slot |-> NoSlot]
  /\ held = [j \in Job |-> "queued"]
  /\ activeJobs = [j \in Job |-> None]
  /\ admin = 0
  /\ loop = [pc |-> "off", read |-> 0]
  /\ changes = 0

-----------------------------------------------------------------------------
(* resize(): one section without an await.                                 *)

(* Mutant: slots whose task is done are kept among the living.             *)
NotPruned(f) == f

Pruned(f) == [s \in Slot |-> IF f[s].pc = "done" THEN NoSlot ELSE f[s]]

(* Slots to be kept after a resize to n: retiring ones are called back     *)
(* before new ones are made, and of too many the string order of their     *)
(* names says which go: any of them.                                       *)
Reused(f, n) ==
  LET serving == {s \in Slot : f[s].pc # None /\ ~f[s].retire}
      retiring == {s \in Slot : f[s].pc # None /\ f[s].retire}
      room == IF n > Cardinality(serving) THEN n - Cardinality(serving) ELSE 0
      back == {B \in SUBSET retiring :
                 Cardinality(B) = (IF room < Cardinality(retiring) THEN room
                                   ELSE Cardinality(retiring))}
  IN {serving \cup B : B \in back}

(* Mutant: retiring slots are left to retire, new ones take their place.   *)
NotReused(f, n) == {{s \in Slot : f[s].pc # None /\ ~f[s].retire}}

CalledBack(f, n) == Reused(f, n)

Resize(n) ==
  /\ pool' = [pool EXCEPT !.desired = n]
  /\ LET f == Pruned(slot) IN
       \E kept \in CalledBack(f, n) :
         LET missing == IF pool'.accepting /\ n > Cardinality(kept)
                        THEN n - Cardinality(kept) ELSE 0
         IN \E new \in {N \in SUBSET {s \in Slot : f[s].pc = None} : Cardinality(N) = missing},
               go \in {G \in SUBSET kept :
                         Cardinality(G) = IF Cardinality(kept) > n
                                          THEN Cardinality(kept) - n ELSE 0} :
              slot' = [s \in Slot |->
                         IF s \in new THEN NewSlot
                         ELSE IF s \in kept THEN [f[s] EXCEPT !.retire = s \in go]
                         ELSE f[s]]

-----------------------------------------------------------------------------
(* The manager.                                                            *)

(* start(): the pool is sized from the values read before.                 *)
StartManager ==
  /\ pool.phase = "new"
  /\ pool' = [desired |-> setting, accepting |-> TRUE, phase |-> "started"]
  /\ \E new \in {N \in SUBSET Slot : Cardinality(N) = setting} :
       slot' = [s \in Slot |-> IF s \in new THEN NewSlot ELSE NoSlot]
  /\ loop' = [pc |-> "idle", read |-> 0]
  /\ UNCHANGED <<setting, held, activeJobs, admin, changes>>

(* _reconcile() reads the settings in one transaction and resizes after.   *)
ReadSetting ==
  /\ loop.pc = "idle"
  /\ loop' = [pc |-> "apply", read |-> setting]
  /\ UNCHANGED <<setting, pool, slot, held, activeJobs, admin, changes>>

ApplyRead ==
  /\ loop.pc = "apply"
  /\ Resize(loop.read)
  /\ loop' = [pc |-> "idle", read |-> 0]
  /\ UNCHANGED <<setting, held, activeJobs, admin, changes>>

(* An administrator: set, adjusted by one within its limits, or reset;     *)
(* one at a time, the settings lock is held until the pool was resized.    *)
SaveSetting ==
  /\ admin = 0
  /\ changes < MaxChanges
  /\ \E n \in 1..Maximum :
       /\ setting' = n
       /\ admin' = n
  /\ changes' = changes + 1
  /\ UNCHANGED <<pool, slot, held, activeJobs, loop>>

ApplySetting ==
  /\ admin # 0
  /\ IF pool.phase = "started" THEN Resize(admin) ELSE UNCHANGED <<pool, slot>>
  /\ admin' = 0
  /\ UNCHANGED <<setting, held, activeJobs, loop, changes>>

(* The queue tool of another process writes the row and nothing else.      *)
ToolSaves ==
  /\ changes < MaxChanges
  /\ setting' \in 1..Maximum \ {setting}
  /\ changes' = changes + 1
  /\ UNCHANGED <<pool, slot, held, activeJobs, admin, loop>>

(* stop(): no loop, no claims, and what is at work is given its time.      *)
StopManager ==
  /\ MayStop
  /\ pool.phase = "started"
  /\ loop' = [pc |-> "off", read |-> 0]
  /\ pool' = [desired |-> 0, accepting |-> FALSE, phase |-> "stopping"]
  /\ slot' = [s \in Slot |-> IF slot[s].pc # None THEN [slot[s] EXCEPT !.retire = TRUE]
                             ELSE slot[s]]
  /\ UNCHANGED <<setting, held, activeJobs, admin, changes>>

-----------------------------------------------------------------------------
(* A worker.                                                               *)

(* The top of the loop: another round, or the end of the task.             *)
NextRound(s) ==
  /\ slot[s].pc = "loop"
  /\ slot' = [slot EXCEPT ![s].pc = IF pool.accepting /\ ~slot[s].retire
                                    THEN "claim" ELSE "done"]
  /\ UNCHANGED <<setting, pool, held, activeJobs, admin, loop, changes>>

(* claim() finds a job, whose operation is registered at once, or nothing. *)
ClaimJob(s) ==
  /\ slot[s].pc = "claim"
  /\ \/ \E j \in Job :
          /\ held[j] = "queued"
          /\ held' = [held EXCEPT ![j] = "running"]
          /\ activeJobs' = [activeJobs EXCEPT ![j] = s]
          /\ slot' = [slot EXCEPT ![s].pc = "busy", ![s].job = j, ![s].beat = TRUE]
     \/ /\ slot' = [slot EXCEPT ![s].pc = "loop"]
        /\ UNCHANGED <<held, activeJobs>>
  /\ UNCHANGED <<setting, pool, admin, loop, changes>>

(* The operation ends by itself: the job is over or waits for a retry, and *)
(* another one takes the place of one that is over.                        *)
FinishJob(s) ==
  /\ slot[s].pc \in {"busy", "settling"}
  /\ held' = [held EXCEPT ![slot[s].job] = "queued"]
  /\ activeJobs' = [activeJobs EXCEPT ![slot[s].job] = None]
  /\ slot' = [slot EXCEPT ![s].pc = "loop", ![s].job = None, ![s].beat = FALSE]
  /\ UNCHANGED <<setting, pool, admin, loop, changes>>

SettleJob(s) == slot[s].pc = "settling" /\ FinishJob(s)

(* Mutant: an operation that is cancelled carries on.                      *)
HitIdle(f, s) ==
  IF f[s].pc \in {"claim", "loop"} THEN [f EXCEPT ![s].pc = "done"] ELSE f

(* What a cancellation does to slot s of f: the operation takes the first  *)
(* to write its retry; a second one while it writes ends it and, since the *)
(* worker waits for it, the worker.                                        *)
Hit(f, s) ==
  [f EXCEPT ![s] = CASE f[s].pc = "busy" -> [f[s] EXCEPT !.pc = "settling"]
                     [] f[s].pc \in {"settling", "claim", "loop"} ->
                          [f[s] EXCEPT !.pc = "done", !.job = None, !.beat = FALSE]
                     [] OTHER -> f[s]]

(* The job of an operation that is ended so is left to its lease.          *)
LeftBehind(s) ==
  IF slot[s].pc = "settling"
  THEN /\ held' = [held EXCEPT ![slot[s].job] = "stray"]
       /\ activeJobs' = [activeJobs EXCEPT ![slot[s].job] = None]
  ELSE UNCHANGED <<held, activeJobs>>

(* cancel_job(), from the user who cancels or the single flight that lost  *)
(* its last waiter.                                                        *)
CancelJob(j) ==
  /\ activeJobs[j] # None
  /\ slot' = Hit(slot, activeJobs[j])
  /\ LeftBehind(activeJobs[j])
  /\ UNCHANGED <<setting, pool, admin, loop, changes>>

(* _heartbeat(): the row is no longer this worker's.                       *)
BeatFails(s) ==
  /\ slot[s].beat
  /\ slot' = [Hit(slot, s) EXCEPT ![s].beat = FALSE]
  /\ LeftBehind(s)
  /\ UNCHANGED <<setting, pool, admin, loop, changes>>

LeaseExpires(j) ==
  /\ held[j] = "stray"
  /\ held' = [held EXCEPT ![j] = "queued"]
  /\ UNCHANGED <<setting, pool, slot, activeJobs, admin, loop, changes>>

(* The time of stop() is over: every pending task is cancelled at once.    *)
(* A claim that was under way may have been committed.                     *)
CancelPending ==
  /\ pool.phase = "stopping"
  /\ pool' = [pool EXCEPT !.phase = "cancelling"]
  /\ slot' = [s \in Slot |-> IF s \in LiveSlots THEN Hit(slot, s)[s] ELSE slot[s]]
  /\ LET settling == {j \in Job : activeJobs[j] # None /\ slot[activeJobs[j]].pc = "settling"}
     IN \E lost \in SUBSET {j \in Job : held[j] = "queued"} :
          /\ Cardinality(lost) <= Cardinality({s \in Slot : slot[s].pc = "claim"})
          /\ held' = [j \in Job |-> IF j \in settling \cup lost THEN "stray" ELSE held[j]]
          /\ activeJobs' = [j \in Job |-> IF j \in settling THEN None ELSE activeJobs[j]]
  /\ UNCHANGED <<setting, admin, loop, changes>>

(* Mutant: the end of the cancelled tasks is not awaited.                  *)
NotAwaited == {}

Awaited == LiveSlots

StopEnds ==
  /\ pool.phase \in {"stopping", "cancelling"}
  /\ Awaited = {}
  /\ pool' = [pool EXCEPT !.phase = "stopped"]
  /\ slot' = Pruned(slot)
  /\ UNCHANGED <<setting, held, activeJobs, admin, loop, changes>>

PoolNext ==
  \/ StartManager \/ ReadSetting \/ ApplyRead \/ SaveSetting \/ ApplySetting \/ ToolSaves
  \/ StopManager \/ CancelPending \/ StopEnds
  \/ \E s \in Slot : NextRound(s) \/ ClaimJob(s) \/ FinishJob(s) \/ BeatFails(s)
  \/ \E j \in Job : CancelJob(j) \/ LeaseExpires(j)

(* The loop runs once a second and the tasks of the event loop run; stop() *)
(* has its own timeout.  An operation may take for ever, the retry it      *)
(* writes when it is cancelled does not.                                   *)
PoolFairness ==
  /\ WF_poolVars(StartManager) /\ WF_poolVars(ReadSetting) /\ WF_poolVars(ApplyRead)
  /\ WF_poolVars(ApplySetting) /\ WF_poolVars(CancelPending) /\ WF_poolVars(StopEnds)
  /\ \A s \in Slot : WF_poolVars(NextRound(s)) /\ WF_poolVars(ClaimJob(s))
                     /\ WF_poolVars(SettleJob(s))

PoolSpec == PoolInit /\ [][PoolNext]_poolVars /\ PoolFairness

-----------------------------------------------------------------------------

PoolTypeOK ==
  /\ setting \in 1..Maximum
  /\ pool.phase \in {"new", "started", "stopping", "cancelling", "stopped"}
  /\ \A s \in Slot : slot[s].pc \in {None, "loop", "claim", "busy", "settling", "done"}
  /\ \A j \in Job : held[j] \in {"queued", "running", "stray"} /\ activeJobs[j] \in Slot \cup {None}
  /\ \A j \in Job : held[j] = "running" <=> activeJobs[j] # None

(* However the setting goes up and down while workers are busy, there are  *)
(* never more tasks than the configured maximum.                           *)
PoolWithinMaximum == Cardinality(LiveSlots) <= Maximum

(* When stop() returned nothing works on a job.                            *)
NothingRunsAfterStop == pool.phase = "stopped" => \A j \in Job : held[j] # "running"

(* Two cancellations of one job cost a worker, and a stale reading of the  *)
(* loop undoes a change: the pool still ends up with as many workers as    *)
(* the setting says.                                                       *)
PoolFollowsSetting ==
  <>[](pool.phase = "started") => []<>(Cardinality(Serving) = setting)

(* stop() returns, whatever its workers were doing.                        *)
StopCompletes == (pool.phase = "stopping") ~> (pool.phase = "stopped")
=============================================================================
