----------------------------- MODULE MCDownloads -----------------------------
(***************************************************************************)
(* The components a download passes through besides the queues, each on    *)
(* its own: a behaviour runs the one that part names, and the variables of *)
(* the others rest in their initial values.  No two of them run in one     *)
(* behaviour, so they can be given the same members x1, x2 and y1, y2 for  *)
(* whatever comes in twos, and one set of permutations.                    *)
(***************************************************************************)
EXTENDS BatchDownloads, TelegramAlbums, ProviderExecution, MediaPipeline, MediaPolicy, TLC

CONSTANTS x1, x2, y1, y2, z1, z2, a1, a2, b1, r1, c1, c2, c3, c4, m1, m2, t1, t2

VARIABLE part

pathVars == <<batchVars, albumVars, execVars, pipeVars, mediaVars>>

PathSymmetry == Permutations({x1, x2}) \cup Permutations({y1, y2})

\* A batch of two tracks and the batch that retries one of them; c4 is the
\* confirmation of a dialog.
MCParentOf == b1 :> NoOne @@ r1 :> b1
MCChildOf == b1 :> <<c1, c2>> @@ r1 :> <<c3>>
MCSourceOf == b1 :> m1 @@ r1 :> m2
MCCardSent == b1 :> m2 @@ r1 :> m2
MCCardOf == [c \in {c1, c2, c3, c4} |-> m1]

MCAlbumOf == x1 :> a1 @@ x2 :> a1 @@ z1 :> a2

\* Two accounts of one provider, one of another, and a provider without.
MCHeldAt == [a \in {y1, y2} |-> "tidal"] @@ z1 :> "qobuz"
MCRankings == {<<>>, <<"tidal">>, <<"qobuz", "deezer">>}

MCPlans == <<"tidal", "tidal">>

MCOffers == [deezer |-> {Medium("mp3", 128), Medium("mp3", 320), Medium("flac", NoRate)},
             youtube |-> {Medium("aac", 128)}]
MCActual == {Medium("mp3", 128), Medium("mp3", 136), Medium("mp3", 320), Medium("aac", 128),
             Medium("flac", NoRate)}

-----------------------------------------------------------------------------
\* Where two parts run one component, each keeps to a side of it that is
\* small enough to be searched to the end.

\* Batches of one track, admitted by z1 and delivered by z2, ...
BatchSide ==
  /\ BatchNext
  /\ \A s \in {x1, x2} : sub'[s] = sub[s] /\ batchLoop'[s] = batchLoop[s]
  /\ \A w \in {y1, y2} : courier'[w] = courier[w]
  /\ \A c \in Confirmation : item'[c].track # t2
  /\ \A m \in Message : request'[m].claims < MaxClaims

\* ... with a retry, or with a restart of the process.
RetriedNext == BatchSide /\ restarts' = restarts
RestartedNext == BatchSide /\ batch'[r1] = batch[r1]

\* One dialog: two handler tasks, two delivery workers, two tracks.
DialogNext == AdmissionNext /\ sub'[z1] = sub[z1] /\ courier'[z2] = courier[z2]

\* The leases of two lifecycle jobs.
LeaseNext == LifeNext /\ life'[c3] = life[c3] /\ life'[c4] = life[c4]

\* Two jobs that share two accounts; two that fall back to a provider
\* without accounts.
AccountNext == ExecNext /\ \A d \in Download : run'[d].ranked \in {<<>>, <<"tidal">>}
FallbackNext == ExecNext /\ \A d \in Download : run'[d].ranked # <<"tidal">>

\* Two workers with one plan; one at a time with two plans, and a crash.
OnePlanNext ==
  PipeNext /\ crashes' = crashes /\ \A w \in Worker : work'[w].plans < 2
CrashingNext ==
  /\ PipeNext
  /\ \E w \in Worker : work'[w].pc = "idle" /\ sweep'[w].pc = "idle"

\* Two presses that overlap; more options, one press at a time.
TwoPressesNext ==
  MediaNext /\ \A e \in Editor : edit'[e].to \in {"none", "lossless", "mp3"}
OnePressNext == MediaNext /\ \E e \in Editor : edit'[e].pc = "idle"

-----------------------------------------------------------------------------
\* The variables of a component that does not run.
BatchesRest ==
  /\ batch = Absent /\ item = Absent /\ batchLoop = Absent /\ cancelling = Absent
  /\ booting = Absent /\ restarts = Absent

AdmissionRests ==
  /\ offer = Absent /\ request = Absent /\ sub = Absent /\ courier = Absent
  /\ preferred = Absent

RequestsRest == BatchesRest /\ AdmissionRests /\ life = Absent

AlbumsRest ==
  /\ album = Absent /\ row = Absent /\ child = Absent /\ albumTask = Absent
  /\ teller = Absent /\ messages = Absent /\ albumRestarts = Absent

ExecutionsRest == run = Absent /\ latest = Absent /\ audit = Absent /\ health = Absent

PipelinesRest ==
  /\ work = Absent /\ limiter = Absent /\ dirs = Absent /\ registry = Absent
  /\ uploads = Absent /\ sweep = Absent /\ crashes = Absent

MediaRests == prefs = Absent /\ edit = Absent /\ media = Absent

PathInit ==
  \/ /\ \/ part \in {"batches", "restarted"} /\ BatchInit /\ offer[c4] = t1
        \/ part = "single" /\ AdmissionInit /\ BatchesRest
        \/ part = "leases" /\ LifeInit /\ AdmissionRests /\ BatchesRest
     /\ AlbumsRest /\ ExecutionsRest /\ PipelinesRest /\ MediaRests
  \/ /\ part = "albums" /\ AlbumInit
     /\ RequestsRest /\ ExecutionsRest /\ PipelinesRest /\ MediaRests
  \/ /\ part \in {"accounts", "fallback"} /\ ExecInit
     /\ RequestsRest /\ AlbumsRest /\ PipelinesRest /\ MediaRests
  \/ /\ part \in {"pipeline", "crashing"} /\ PipeInit
     /\ RequestsRest /\ AlbumsRest /\ ExecutionsRest /\ MediaRests
  \/ /\ part \in {"media", "options"} /\ MediaInit
     /\ RequestsRest /\ AlbumsRest /\ ExecutionsRest /\ PipelinesRest

Requests ==
  /\ \/ part = "batches" /\ RetriedNext
     \/ part = "restarted" /\ RestartedNext
     \/ /\ part = "single" /\ DialogNext
        /\ UNCHANGED <<batch, item, batchLoop, cancelling, booting, restarts>>
     \/ /\ part = "leases" /\ LeaseNext
        /\ UNCHANGED <<offer, request, sub, courier, preferred,
                       batch, item, batchLoop, cancelling, booting, restarts>>
  /\ UNCHANGED <<albumVars, execVars, pipeVars, mediaVars>>

Albums == part = "albums" /\ AlbumNext
            /\ UNCHANGED <<batchVars, execVars, pipeVars, mediaVars>>

Executions ==
  /\ \/ part = "accounts" /\ AccountNext
     \/ part = "fallback" /\ FallbackNext
  /\ UNCHANGED <<batchVars, albumVars, pipeVars, mediaVars>>

Pipelines ==
  /\ \/ part = "pipeline" /\ OnePlanNext
     \/ part = "crashing" /\ CrashingNext
  /\ UNCHANGED <<batchVars, albumVars, execVars, mediaVars>>

Media ==
  /\ \/ part = "media" /\ TwoPressesNext
     \/ part = "options" /\ OnePressNext
  /\ UNCHANGED <<batchVars, albumVars, execVars, pipeVars>>

PathNext ==
  /\ Requests \/ Albums \/ Executions \/ Pipelines \/ Media
  /\ part' = part

PathSpec == PathInit /\ [][PathNext]_<<pathVars, part>>

-----------------------------------------------------------------------------
\* The lifecycle record of a download says what became of its delivery
\* request, and success only with a delivery of its own.
RecordsAreTrue ==
  /\ part \in {"batches", "restarted"} => BatchTypeOK
  /\ part = "single" => AdmissionTypeOK
  /\ part = "leases" => LifeTypeOK
  /\ part \in {"batches", "restarted", "single"} => RecordIsTrue
  /\ part \in {"batches", "restarted", "single", "leases"} => SucceededIsDelivered

\* Neither a request nor its record starts or ends twice, whoever is late.
EndsAreFinal ==
  [][/\ (part \in {"batches", "restarted", "single"}) => StartsOnce
     /\ (part \in {"batches", "restarted", "single", "leases"}) => KeepsEnds]_<<life, request>>

\* A batch or an album that was closed has nothing under way, and the
\* outcome it was closed with is the one of its tracks.
ClosedIsOver ==
  /\ part \in {"batches", "restarted"} => ClosedBatchIsOver
  /\ part = "albums" => AlbumTypeOK /\ ClosedAlbumIsOver

\* The audit of an execution is complete, and no account answers twice for
\* one candidate.
ExecutionIsAudited ==
  part \in {"accounts", "fallback"} => ExecTypeOK /\ AuditIsComplete /\ AccountTriedOnce

\* A rate-limited account rests until its cooldown is over, whichever jobs
\* use it.
CooldownsAreKept == [][(part \in {"accounts", "fallback"}) => KeepsCooldown]_health

\* The limiter's counts are those of its callers, and no sweep takes the
\* directory of a worker or of an open upload.
PipelineIsSafe ==
  part \in {"pipeline", "crashing"} => PipeTypeOK /\ LimiterIsTrue /\ LiveDirectoryStays

\* The settings stay consistent, and no file pretends to be better than its
\* source.
MediaIsHonest ==
  part \in {"media", "options"} => MediaTypeOK /\ PrefsAreValid /\ NoUpscale
=============================================================================
