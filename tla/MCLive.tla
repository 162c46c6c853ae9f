------------------------------- MODULE MCLive -------------------------------
(***************************************************************************)
(* What must happen in the end, for the delivery workers and for four of   *)
(* the services, each on its own: a behaviour runs the one that part       *)
(* names, under the fairness of that module.  No symmetry is used.         *)
(***************************************************************************)
EXTENDS ProviderAuthorization, TelegramAlbums, MediaPipeline, WorkerPool, TLC

CONSTANTS tidal, apple, z1, z2, f1, r1, w1, w2, NoWorker, NoRequest, NoFingerprint, Unset

VARIABLES part, flight, sub, job, cache, entry, req, task, mode, stops, copies, doubt

\* Two device flows in turn; one whose child may die; secrets.  The process
\* is shut down at any time.
MCMethod == tidal :> "device"
Broken == INSTANCE ProviderAuthorization WITH Flows <- {z1}, MaxFaults <- 1
Secret == INSTANCE ProviderAuthorization WITH
  Providers <- {apple}, Method <- apple :> "secret", MaxFaults <- 1

MCAlbumOf == [i \in Item |-> "album"]
MCPlans == <<"tidal", "tidal">>

\* One request, two delivery workers, one download job, one stop.
Delivery == INSTANCE TelegramDelivery WITH
  Request <- {r1}, Worker <- {w1, w2}, Fingerprint <- {f1}, Job <- {1},
  MaxAttempts <- 2, SplitRetry <- FALSE, MaxStops <- 1, work <- task

deliveryVars == <<flight, sub, job, cache, entry, req, task, mode, stops, copies, doubt>>

-----------------------------------------------------------------------------
DeliveryRests ==
  /\ flight = Unset /\ sub = Unset /\ job = Unset /\ cache = Unset /\ entry = Unset
  /\ req = Unset /\ task = Unset /\ mode = Unset /\ stops = Unset
  /\ copies = Unset /\ doubt = Unset

AuthRests ==
  /\ flow = Unset /\ activeFlow = Unset /\ cancelOp = Unset /\ reset = Unset
  /\ onthespot = Unset /\ saved = Unset /\ accounts = Unset /\ ipc = Unset
  /\ faults = Unset /\ chat = Unset /\ msg = Unset /\ cancelled = Unset
  /\ closing = Unset

AlbumsRest ==
  /\ album = Unset /\ row = Unset /\ child = Unset /\ albumTask = Unset
  /\ teller = Unset /\ messages = Unset /\ albumRestarts = Unset

PipelineRests ==
  /\ work = Unset /\ limiter = Unset /\ dirs = Unset /\ registry = Unset
  /\ uploads = Unset /\ sweep = Unset /\ crashes = Unset

PoolRests ==
  /\ setting = Unset /\ pool = Unset /\ slot = Unset /\ held = Unset
  /\ activeJobs = Unset /\ admin = Unset /\ loop = Unset /\ changes = Unset

LiveInit ==
  \/ /\ part = "delivery" /\ Delivery!DeliveryInit
     /\ AuthRests /\ AlbumsRest /\ PipelineRests /\ PoolRests
  \/ /\ \/ part = "devices" /\ AuthInit
        \/ part = "broken" /\ Broken!AuthInit
        \/ part = "secrets" /\ Secret!AuthInit
     /\ DeliveryRests /\ AlbumsRest /\ PipelineRests /\ PoolRests
  \/ /\ part = "albums" /\ AlbumInit
     /\ DeliveryRests /\ AuthRests /\ PipelineRests /\ PoolRests
  \/ /\ part = "pipeline" /\ PipeInit
     /\ DeliveryRests /\ AuthRests /\ AlbumsRest /\ PoolRests
  \/ /\ part = "pool" /\ PoolInit
     /\ DeliveryRests /\ AuthRests /\ AlbumsRest /\ PipelineRests

LiveNext ==
  /\ part' = part
  /\ \/ /\ part = "delivery" /\ Delivery!DeliveryNext
        /\ UNCHANGED <<authVars, albumVars, pipeVars, poolVars>>
     \/ /\ \/ part = "devices" /\ AuthNext
           \/ part = "broken" /\ Broken!AuthNext
           \/ part = "secrets" /\ Secret!AuthNext
        /\ UNCHANGED <<deliveryVars, albumVars, pipeVars, poolVars>>
     \/ /\ part = "albums" /\ AlbumNext
        /\ UNCHANGED <<deliveryVars, authVars, pipeVars, poolVars>>
     \/ /\ part = "pipeline" /\ PipeNext
        /\ UNCHANGED <<deliveryVars, authVars, albumVars, poolVars>>
     \/ /\ part = "pool" /\ PoolNext
        /\ UNCHANGED <<deliveryVars, authVars, albumVars, pipeVars>>

\* The fairness of each module, for the behaviours that run it.
DeliveryIsFair ==
  /\ \A w \in {w1, w2} :
       /\ WF_deliveryVars(part = "delivery" /\ Delivery!InTurn(w) /\ Delivery!ClaimDelivery(w))
       /\ WF_deliveryVars(part = "delivery" /\ Delivery!InTurn(w) /\ Delivery!Proceed(w))
  /\ WF_deliveryVars(part = "delivery" /\ Delivery!Unattended(r1) /\ Delivery!LeaseExpires(r1))
  /\ WF_deliveryVars(part = "delivery" /\ Delivery!FlightEnds(f1))
  /\ WF_deliveryVars(part = "delivery" /\ Delivery!Exit)
  /\ WF_deliveryVars(part = "delivery" /\ Delivery!Restart)

AuthIsFair ==
  /\ WF_authVars(part = "devices" /\ AuthProgress)
  /\ WF_authVars(part = "broken" /\ Broken!AuthProgress)
  /\ WF_authVars(part = "secrets" /\ Secret!AuthProgress)
  /\ \A f \in Flows : SF_authVars(part = "devices" /\ Expire(f))
  /\ SF_authVars(part = "broken" /\ Broken!Expire(z1))

AlbumsAreFair ==
  /\ WF_albumVars(part = "albums" /\ CoordinatorStep)
  /\ \A i \in Item : WF_albumVars(part = "albums" /\ ChildEnds(i))
  /\ \A a \in Album : SF_albumVars(part = "albums" /\ SendCompletion(a))

PipelineIsFair ==
  /\ WF_pipeVars(part = "pipeline" /\ SweepStep(Watchdog))
  /\ SF_pipeVars(part = "pipeline" /\ Remove(Watchdog))
  /\ \A x \in Dir : WF_pipeVars(part = "pipeline" /\ Age(x))

PoolIsFair ==
  /\ WF_poolVars(part = "pool" /\ StartManager)
  /\ WF_poolVars(part = "pool" /\ ReadSetting)
  /\ WF_poolVars(part = "pool" /\ ApplyRead)
  /\ WF_poolVars(part = "pool" /\ ApplySetting)
  /\ WF_poolVars(part = "pool" /\ CancelPending)
  /\ WF_poolVars(part = "pool" /\ StopEnds)
  /\ \A s \in Slot : /\ WF_poolVars(part = "pool" /\ NextRound(s))
                     /\ WF_poolVars(part = "pool" /\ ClaimJob(s))
                     /\ WF_poolVars(part = "pool" /\ SettleJob(s))

LiveSpec ==
  /\ LiveInit
  /\ [][LiveNext]_<<part, deliveryVars, authVars, albumVars, pipeVars, poolVars>>
  /\ DeliveryIsFair /\ AuthIsFair /\ AlbumsAreFair /\ PipelineIsFair /\ PoolIsFair

-----------------------------------------------------------------------------
\* Every delivery request that was asked for ends.
RequestIsSettled ==
  (part = "delivery" /\ req[r1].status \in Delivery!Pending)
    ~> (part = "delivery" /\ req[r1].status \in Delivery!Settled)

Linking == part \in {"devices", "broken", "secrets"}
PhaseIn(f, phases) == Linking /\ f \in DOMAIN flow /\ flow[f].phase \in phases

\* Every authorization that is waiting, or whose secret is being checked,
\* ends, and so does a shutdown.
AuthorizationEnds ==
  /\ \A f \in Flows : PhaseIn(f, {"waiting", "authorizing"}) ~> PhaseIn(f, {"done"})
  /\ (Linking /\ closing = "closing") ~> (Linking /\ closing = "closed")

\* The user is told the end of every album that was started.
AlbumEndIsTold ==
  \A a \in Album : (part = "albums" /\ album[a].status \in Expanding)
                     ~> (part = "albums" /\ album[a].notified)

\* A directory that belongs to nobody any more is removed some day.
OrphansAreSwept ==
  \A x \in Dir : (part = "pipeline" /\ Orphan(x)) ~> (part = "pipeline" /\ ~Orphan(x))

\* The pool ends up with as many workers as the setting says, and stop()
\* returns.
PoolSettles ==
  /\ <>[](part = "pool" /\ pool.phase = "started")
       => []<>(part = "pool" /\ Cardinality(Serving) = setting)
  /\ (part = "pool" /\ pool.phase = "stopping") ~> (part = "pool" /\ pool.phase = "stopped")
=============================================================================
