---------------------------- MODULE MediaPipeline ----------------------------
(***************************************************************************)
(* The media pipeline of the download workers (DownloadPipeline), the      *)
(* limiter its provider calls pass (ProviderRateLimiter), the directories  *)
(* it works in (DownloadArtifactManager, ActiveArtifactRegistry) and the   *)
(* sweeps that remove stale ones (StaleArtifactCleanupService).            *)
(*                                                                         *)
(* Time is the age of a directory: one that was not written to for         *)
(* TEMP_ARTIFACT_STALE_AFTER_SECONDS is old.  The pause between two calls  *)
(* of a provider is left out.  What becomes of a file once its upload job  *)
(* owns it is in JobQueue.                                                 *)
(***************************************************************************)
EXTENDS Naturals, Sequences, FiniteSets

CONSTANTS
  Worker,         \* download workers
  Watchdog,       \* the periodic sweep
  Dir,            \* artifact job ids, never used twice
  NoDir,
  Site,           \* providers
  Plans,          \* the plans a resolution returns a prefix of: their providers
  MaxConcurrent,  \* provider operations at a time
  MaxCrashes      \* bound on crashes of the process

ASSUME PipelineAssumption ==
  /\ MaxConcurrent \in Nat \ {0}
  /\ IsFiniteSet(Worker)
  /\ NoDir \notin Dir
  /\ Plans \in Seq(Site)
  /\ Watchdog \notin Worker

VARIABLES
  work,       \* worker |-> where it is
  limiter,    \* provider |-> permits, waiting and active counts
  dirs,       \* id |-> its directory
  registry,   \* ActiveArtifactRegistry
  uploads,    \* ids an open upload job owns
  sweep,      \* sweeper |-> its pass
  crashes

pipeVars == <<work, limiter, dirs, registry, uploads, sweep, crashes>>

NoWork == [pc |-> "idle", dir |-> NoDir, plans |-> 0, rank |-> 0, op |-> "none"]
NoFiles == [made |-> FALSE, attempts |-> {}, final |-> FALSE, old |-> FALSE]
NoSweep == [pc |-> "idle", protected |-> {}, stale |-> {}, at |-> NoDir]
Ready == [permits |-> MaxConcurrent, waiting |-> 0, active |-> 0]

SiteOf(w) == Plans[work[w].rank]
Move(w, r) == work' = [work EXCEPT ![w] = r]

PipeInit ==
  /\ work = [w \in Worker |-> NoWork]
  /\ limiter = [p \in Site |-> Ready]
  /\ dirs = [x \in Dir |-> NoFiles]
  /\ registry = {}
  /\ uploads = {}
  /\ sweep = [s \in Worker \cup {Watchdog} |-> NoSweep]
  /\ crashes = 0

-----------------------------------------------------------------------------
(* Directories.  A write into the directory makes it young again.          *)

Unused == {x \in Dir : /\ ~dirs[x].made /\ x \notin uploads
                       /\ \A s \in DOMAIN sweep : x \notin sweep[s].stale}

WithAttempt(x, rank) ==
  [dirs EXCEPT ![x].attempts = @ \cup {rank}, ![x].old = FALSE]

(* Mutant: a directory keeps its age when an attempt is cleared away.      *)
ClearedQuietly(x, rank) == [dirs EXCEPT ![x].attempts = @ \ {rank}]

(* cleanup_attempt()                                                       *)
Cleared(x, rank) == [dirs EXCEPT ![x].attempts = @ \ {rank}, ![x].old = FALSE]

ReleasedAll(x) == [dirs EXCEPT ![x] = NoFiles]

(* Mutant: the root stays registered.                                      *)
StaysActive(x) == registry

(* mark_inactive()                                                         *)
Inactive(x) == registry \ {x}

-----------------------------------------------------------------------------
(* The limiter.                                                            *)

Waits(p) == [limiter EXCEPT ![p].waiting = @ + 1]

(* Mutant: a cancelled waiter stays counted.                               *)
GivesUpQuietly(w) ==
  CASE work[w].pc = "wait" -> limiter
    [] work[w].pc = "paced" -> [limiter EXCEPT ![SiteOf(w)].permits = @ + 1]
    [] work[w].pc = "call" -> [limiter EXCEPT ![SiteOf(w)].active = @ - 1,
                                              ![SiteOf(w)].permits = @ + 1]
    [] OTHER -> limiter

(* The finally blocks of operation(), from wherever it is left.            *)
GivesUp(w) ==
  CASE work[w].pc = "wait" -> [limiter EXCEPT ![SiteOf(w)].waiting = @ - 1]
    [] work[w].pc = "paced" -> [limiter EXCEPT ![SiteOf(w)].waiting = @ - 1,
                                               ![SiteOf(w)].permits = @ + 1]
    [] work[w].pc = "call" -> [limiter EXCEPT ![SiteOf(w)].active = @ - 1,
                                              ![SiteOf(w)].permits = @ + 1]
    [] OTHER -> limiter

Acquire(w) ==
  /\ work[w].pc = "wait"
  /\ limiter[SiteOf(w)].permits > 0
  /\ limiter' = [limiter EXCEPT ![SiteOf(w)].permits = @ - 1]
  /\ Move(w, [work[w] EXCEPT !.pc = "paced"])
  /\ UNCHANGED <<dirs, registry, uploads, sweep, crashes>>

Call(w) ==
  /\ work[w].pc = "paced"
  /\ limiter' = [limiter EXCEPT ![SiteOf(w)].waiting = @ - 1, ![SiteOf(w)].active = @ + 1]
  /\ Move(w, [work[w] EXCEPT !.pc = "call"])
  /\ UNCHANGED <<dirs, registry, uploads, sweep, crashes>>

-----------------------------------------------------------------------------
(* A job.                                                                  *)

(* _ensure_storage_available(): under pressure the worker sweeps first.    *)
StartWork(w) ==
  /\ work[w].pc = "idle"
  /\ Move(w, [work[w] EXCEPT !.pc = "resolve"])
  /\ UNCHANGED <<limiter, dirs, registry, uploads, sweep, crashes>>

(* The plans, the disk guard and create_job(): registered, then made.  A   *)
(* root whose output directory cannot be made stays behind.                *)
CreateJob(w) ==
  /\ work[w].pc = "resolve" /\ sweep[w].pc = "idle"
  /\ \E x \in Unused, n \in 1..Len(Plans) :
       \/ /\ dirs' = [dirs EXCEPT ![x].made = TRUE]
          /\ registry' = registry \cup {x}
          /\ Move(w, [pc |-> "plan", dir |-> x, plans |-> n, rank |-> 1, op |-> "none"])
       \/ /\ dirs' = [dirs EXCEPT ![x].made = TRUE]
          /\ Move(w, NoWork)
          /\ UNCHANGED registry
  /\ UNCHANGED <<limiter, uploads, sweep, crashes>>

NothingToDo(w) ==
  /\ work[w].pc = "resolve"
  /\ Move(w, NoWork)
  /\ UNCHANGED <<limiter, dirs, registry, uploads, sweep, crashes>>

(* attempt_path(), and the first provider call of the plan.                *)
BeginPlan(w) ==
  /\ work[w].pc = "plan"
  /\ dirs' = WithAttempt(work[w].dir, work[w].rank)
  /\ limiter' = Waits(SiteOf(w))
  /\ Move(w, [work[w] EXCEPT !.pc = "wait", !.op = "check"])
  /\ UNCHANGED <<registry, uploads, sweep, crashes>>

(* release() and mark_inactive(): what leaving the pipeline by an          *)
(* exception does.                                                         *)
Leave(w) ==
  /\ dirs' = ReleasedAll(work[w].dir)
  /\ registry' = Inactive(work[w].dir)
  /\ Move(w, NoWork)

(* The plan failed: the next one, or the error.                            *)
PlanFailed(w) ==
  IF work[w].rank < work[w].plans
  THEN /\ dirs' = Cleared(work[w].dir, work[w].rank)
       /\ Move(w, [work[w] EXCEPT !.pc = "plan", !.rank = @ + 1, !.op = "none"])
       /\ UNCHANGED registry
  ELSE Leave(w)

Then(w, op) ==
  /\ limiter' = [GivesUp(w) EXCEPT ![SiteOf(w)].waiting = @ + 1]
  /\ Move(w, [work[w] EXCEPT !.pc = "wait", !.op = op])
  /\ UNCHANGED <<dirs, registry>>

(* The provider answers; only some plans ask for a preflight.              *)
CallEnds(w) ==
  /\ work[w].pc = "call"
  /\ \/ work[w].op = "check" /\ (Then(w, "prepare") \/ Then(w, "download"))
     \/ work[w].op = "prepare" /\ Then(w, "download")
     \/ /\ work[w].op = "download"
        /\ limiter' = GivesUp(w)
        /\ Move(w, [work[w] EXCEPT !.pc = "media", !.op = "none"])
        /\ UNCHANGED <<dirs, registry>>
     \/ limiter' = GivesUp(w) /\ PlanFailed(w)
  /\ UNCHANGED <<uploads, sweep, crashes>>

(* Probe, convert, probe again, all in the attempt and output directories. *)
Produce(w) ==
  /\ work[w].pc = "media"
  /\ dirs' = [Cleared(work[w].dir, work[w].rank) EXCEPT ![work[w].dir].final = TRUE]
  /\ registry' = Inactive(work[w].dir)
  /\ Move(w, [work[w] EXCEPT !.pc = "returned"])
  /\ UNCHANGED <<limiter, uploads, sweep, crashes>>

MediaFails(w) ==
  /\ work[w].pc = "media"
  /\ PlanFailed(w)
  /\ UNCHANGED <<limiter, uploads, sweep, crashes>>

(* The storage fails, the probe is missing, or the task is cancelled.      *)
StopWork(w) ==
  /\ work[w].pc \in {"plan", "wait", "paced", "call", "media", "returned"}
  /\ limiter' = GivesUp(w)
  /\ Leave(w)
  /\ UNCHANGED <<uploads, sweep, crashes>>

(* handoff() commits; when it does not, the worker releases (StopWork).    *)
HandOff(w) ==
  /\ work[w].pc = "returned"
  /\ uploads' = uploads \cup {work[w].dir}
  /\ Move(w, NoWork)
  /\ UNCHANGED <<limiter, dirs, registry, sweep, crashes>>

UploadEnds(x) ==
  /\ x \in uploads
  /\ uploads' = uploads \ {x}
  /\ \/ dirs' = ReleasedAll(x)
     \/ UNCHANGED dirs
  /\ UNCHANGED <<work, limiter, registry, sweep, crashes>>

-----------------------------------------------------------------------------
(* Sweeps.  The protected ids and the clock are read once, before the      *)
(* directory is scanned in a thread.                                       *)

BeginSweep(s) ==
  /\ sweep[s].pc = "idle"
  /\ s \in Worker => work[s].pc = "resolve"
  /\ sweep' = [sweep EXCEPT ![s] = [pc |-> "scan", protected |-> uploads,
                                    stale |-> {x \in Dir : dirs[x].made /\ dirs[x].old},
                                    at |-> NoDir]]
  /\ UNCHANGED <<work, limiter, dirs, registry, uploads, crashes>>

(* Mutant: the registry is not asked.                                      *)
OldEnough(s, x) == dirs[x].old /\ x \notin sweep[s].protected

(* The entry was not written to since the clock was read, nobody works in  *)
(* it, and no upload job owned it when the sweep began.                    *)
Stale(s, x) == dirs[x].old /\ x \notin registry /\ x \notin sweep[s].protected

Classify(s, x) ==
  /\ sweep[s].pc = "scan" /\ x \in sweep[s].stale
  /\ sweep' = IF dirs[x].made /\ Stale(s, x)
              THEN [sweep EXCEPT ![s].pc = "remove", ![s].at = x]
              ELSE [sweep EXCEPT ![s].stale = @ \ {x}]
  /\ UNCHANGED <<work, limiter, dirs, registry, uploads, crashes>>

Done(s) ==
  /\ sweep[s].pc = "remove"
  /\ sweep' = [sweep EXCEPT ![s].pc = "scan", ![s].at = NoDir,
                            ![s].stale = @ \ {sweep[s].at}]

(* rmtree(); somebody else may have removed the directory before.          *)
Remove(s) ==
  /\ Done(s)
  /\ dirs' = ReleasedAll(sweep[s].at)
  /\ UNCHANGED <<work, limiter, registry, uploads, crashes>>

RemoveFails(s) ==
  /\ Done(s)
  /\ UNCHANGED <<work, limiter, dirs, registry, uploads, crashes>>

EndSweep(s) ==
  /\ sweep[s].pc = "scan" /\ sweep[s].stale = {}
  /\ sweep' = [sweep EXCEPT ![s] = NoSweep]
  /\ UNCHANGED <<work, limiter, dirs, registry, uploads, crashes>>

(* The threshold is far longer than the way from the end of the pipeline   *)
(* to the hand-off.  A sweep compares with the clock it read: an entry     *)
(* written to since then stays young for it.                               *)
Age(x) ==
  /\ dirs[x].made /\ ~dirs[x].old
  /\ \A w \in Worker : work[w].pc = "returned" => work[w].dir # x
  /\ \A s \in DOMAIN sweep : x \notin sweep[s].stale
  /\ dirs' = [dirs EXCEPT ![x].old = TRUE]
  /\ UNCHANGED <<work, limiter, registry, uploads, sweep, crashes>>

CrashPipeline ==
  /\ crashes < MaxCrashes
  /\ crashes' = crashes + 1
  /\ work' = [w \in Worker |-> NoWork]
  /\ limiter' = [p \in Site |-> Ready]
  /\ registry' = {}
  /\ sweep' = [s \in DOMAIN sweep |-> NoSweep]
  /\ UNCHANGED <<dirs, uploads>>

SweepStep(s) == BeginSweep(s) \/ (\E x \in Dir : Classify(s, x)) \/ EndSweep(s)

PipeNext ==
  \/ \E w \in Worker :
       \/ StartWork(w) \/ CreateJob(w) \/ NothingToDo(w) \/ BeginPlan(w) \/ Acquire(w)
       \/ Call(w) \/ CallEnds(w) \/ Produce(w) \/ MediaFails(w) \/ StopWork(w) \/ HandOff(w)
  \/ \E s \in DOMAIN sweep : SweepStep(s) \/ Remove(s) \/ RemoveFails(s)
  \/ \E x \in Dir : UploadEnds(x) \/ Age(x)
  \/ CrashPipeline

(* The watchdog runs for ever, time passes, and a removal that is tried    *)
(* again and again succeeds.                                               *)
PipeSpec ==
  /\ PipeInit /\ [][PipeNext]_pipeVars
  /\ WF_pipeVars(SweepStep(Watchdog)) /\ SF_pipeVars(Remove(Watchdog))
  /\ \A x \in Dir : WF_pipeVars(Age(x))

-----------------------------------------------------------------------------

PipeTypeOK ==
  /\ \A w \in Worker :
       /\ work[w].dir \in Dir \cup {NoDir}
       /\ work[w].plans \in 0..Len(Plans) /\ work[w].rank \in 0..work[w].plans
  /\ \A x \in Dir : dirs[x].attempts \subseteq 1..Len(Plans) /\ dirs[x].old \in BOOLEAN
  /\ registry \subseteq Dir /\ uploads \subseteq Dir

Calling(p, pcs) == {w \in Worker : work[w].pc \in pcs /\ SiteOf(w) = p}

(* The snapshot the operator sees counts the workers that wait and those   *)
(* in a call, also after some were cancelled in between, no provider gets  *)
(* more calls than configured and no permit is lost.                       *)
LimiterIsTrue ==
  \A p \in Site :
    /\ limiter[p].waiting = Cardinality(Calling(p, {"wait", "paced"}))
    /\ limiter[p].active = Cardinality(Calling(p, {"call"}))
    /\ limiter[p].permits + Cardinality(Calling(p, {"paced", "call"})) = MaxConcurrent

(* No sweep removes a directory a worker still writes to, one whose file   *)
(* is on its way to the upload queue, or one an open upload job owns.      *)
LiveDirectoryStays ==
  /\ \A w \in Worker : work[w].dir # NoDir => dirs[work[w].dir].made
  /\ \A x \in uploads : dirs[x].made /\ dirs[x].final

(* What a crash, a failed create_job() or an upload that did not clean up  *)
(* left behind is removed some day: no protection outlives its owner.      *)
Orphan(x) == dirs[x].made /\ x \notin uploads /\ \A w \in Worker : work[w].dir # x

OrphanIsSwept == \A x \in Dir : Orphan(x) ~> ~Orphan(x)
=============================================================================
