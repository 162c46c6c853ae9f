----------------------------- MODULE MCServices -----------------------------
(***************************************************************************)
(* The services around the downloads, each on its own: a behaviour runs    *)
(* the one that part names, the variables of the others are not used.  As  *)
(* no two of them run in one behaviour, x1, x2 and y1, y2 stand for        *)
(* whatever comes in twos, and one set of permutations serves them all.    *)
(***************************************************************************)
EXTENDS ProviderAuthorization, AccessControl, WorkerPool, ApplicationRuntime,
        UxDialog, TrackCatalogue, TLC

CONSTANTS x1, x2, y1, y2, z1, l1, l2, spotify, apple, tidal, deezer, Unset

VARIABLE part

ServiceSymmetry ==
  Permutations({x1, x2}) \cup Permutations({y1, y2}) \cup Permutations({l1, l2})

MCMethod == spotify :> "pairing" @@ apple :> "session" @@ tidal :> "device" @@ deezer :> "secret"

MCProviderOf == "s1" :> "deezer" @@ "s2" :> "tidal"
Said(title, isrc, seconds, explicit) ==
  [title |-> title, isrc |-> isrc, seconds |-> seconds, explicit |-> explicit]
MCMetadata ==
  {Said("song", "X", 100, Unknown), Said("song", Unknown, 102, Unknown),
   Said("song", "Y", 104, "yes"), Said("song (live)", Unknown, 102, Unknown)}

-----------------------------------------------------------------------------
(* Each part bounds what its component does in it; the specification is    *)
(* the component's own in all of them.                                     *)

Authorizes(P) == \A f \in Flows : flow'[f].phase # "new" => flow'[f].provider \in P

\* A pairing and a session, with a call that breaks and a disconnect.
LinkNext ==
  /\ AuthNext /\ Authorizes({spotify, apple}) /\ closing' = closing
  /\ \A p \in {tidal, deezer} : reset'[p] = reset[p]

\* A device flow and a secret, with a call that breaks and a shutdown.
ClosingNext == AuthNext /\ Authorizes({tidal, deezer}) /\ reset' = reset

NoRegistration == \A t \in Task : call'[t].pc \notin {"resolve", "insert", "answered"}
NobodyOperates == \A t \in Operator : call'[t] = IdleCall

\* Roles and the desired workers of the bot alone.
RoleNext == AccessNext /\ NoRegistration /\ NobodyOperates

\* The operator's tool beside one handler.
OperatedNext ==
  AccessNext /\ NoRegistration /\ Cardinality({t \in Task : call'[t] # IdleCall}) <= 1

\* The registry of links.
RegistryNext ==
  /\ AccessNext /\ NobodyOperates
  /\ reboots' = reboots /\ \A t \in Task : call'[t].who = Nobody

-----------------------------------------------------------------------------
AuthRests ==
  /\ flow = Unset /\ activeFlow = Unset /\ cancelOp = Unset /\ reset = Unset
  /\ onthespot = Unset /\ saved = Unset /\ accounts = Unset /\ ipc = Unset
  /\ faults = Unset /\ chat = Unset /\ msg = Unset /\ cancelled = Unset
  /\ closing = Unset

AccessRests ==
  /\ ownerId = Unset /\ role = Unset /\ desired = Unset /\ links = Unset
  /\ auditLog = Unset /\ call = Unset /\ reboots = Unset

PoolRests ==
  /\ setting = Unset /\ pool = Unset /\ slot = Unset /\ held = Unset
  /\ activeJobs = Unset /\ admin = Unset /\ loop = Unset /\ changes = Unset

RuntimeRests ==
  /\ lock = Unset /\ proc = Unset /\ up = Unset /\ stopped = Unset
  /\ ready = Unset

DialogRests ==
  /\ ux = Unset /\ offers = Unset /\ update = Unset /\ shown = Unset

CatalogueRests ==
  /\ said = Unset /\ tracks = Unset /\ owner = Unset /\ resolution = Unset

ServicesInit ==
  \/ /\ part \in {"links", "closing"} /\ AuthInit
     /\ AccessRests /\ PoolRests /\ RuntimeRests
     /\ DialogRests /\ CatalogueRests
  \/ /\ part \in {"roles", "operated", "registry"} /\ AccessInit
     /\ AuthRests /\ PoolRests /\ RuntimeRests
     /\ DialogRests /\ CatalogueRests
  \/ /\ part = "pool" /\ PoolInit
     /\ AuthRests /\ AccessRests /\ RuntimeRests
     /\ DialogRests /\ CatalogueRests
  \/ /\ part = "runtime" /\ RuntimeInit
     /\ AuthRests /\ AccessRests /\ PoolRests
     /\ DialogRests /\ CatalogueRests
  \/ /\ part = "dialog" /\ DialogInit
     /\ AuthRests /\ AccessRests /\ PoolRests
     /\ RuntimeRests /\ CatalogueRests
  \/ /\ part = "catalogue" /\ CatalogueInit
     /\ AuthRests /\ AccessRests /\ PoolRests
     /\ RuntimeRests /\ DialogRests

ServicesNext ==
  /\ part' = part
  /\ \/ /\ \/ part = "links" /\ LinkNext
           \/ part = "closing" /\ ClosingNext
        /\ UNCHANGED <<accessVars, poolVars, runtimeVars, dialogVars, catalogueVars>>
     \/ /\ \/ part = "roles" /\ RoleNext
           \/ part = "operated" /\ OperatedNext
           \/ part = "registry" /\ RegistryNext
        /\ UNCHANGED <<authVars, poolVars, runtimeVars, dialogVars, catalogueVars>>
     \/ /\ part = "pool" /\ PoolNext
        /\ UNCHANGED <<authVars, accessVars, runtimeVars, dialogVars, catalogueVars>>
     \/ /\ part = "runtime" /\ RuntimeNext
        /\ UNCHANGED <<authVars, accessVars, poolVars, dialogVars, catalogueVars>>
     \/ /\ part = "dialog" /\ DialogNext
        /\ UNCHANGED <<authVars, accessVars, poolVars, runtimeVars, catalogueVars>>
     \/ /\ part = "catalogue" /\ CatalogueNext
        /\ UNCHANGED <<authVars, accessVars, poolVars, runtimeVars, dialogVars>>

ServicesSpec ==
  ServicesInit /\ [][ServicesNext]_<<authVars, accessVars, poolVars, runtimeVars,
                                    dialogVars, catalogueVars, part>>

-----------------------------------------------------------------------------
\* One authorization of a provider at a time, none that nobody follows any
\* more, and a disconnect that is true of the configuration file.
LinksAreTrue ==
  part \in {"links", "closing"} =>
    AuthTypeOK /\ OneFlowPerProvider /\ NoOrphanPairing /\ DisconnectedIsTrue

\* The result of an authorization never changes, and one whose cancellation
\* was reported links nothing afterwards.
FlowIsFinal ==
  [][(part \in {"links", "closing"}) => StaysEnded /\ StaysCancelled]_authVars

\* Every change of a role, of a link and, while the operator's tool does not
\* run, of the desired workers has its audit row, and the rows of a subject
\* are its history.
ChangesAreAudited ==
  /\ part \in {"roles", "operated", "registry"} => AccessTypeOK /\ AuditIsHistory
  /\ part \in {"roles", "registry"} => WorkerAuditIsHistory

\* Registrations that race under one key answer with one link, their own.
RegistrationIsTrue == part = "registry" => AnswersOwnLink

\* The pool never exceeds its maximum, and nothing runs once it has stopped.
PoolIsBounded ==
  part = "pool" => PoolTypeOK /\ PoolWithinMaximum /\ NothingRunsAfterStop

\* One process works over the database, and only after recovery.
RuntimeIsSafe ==
  part = "runtime" => RuntimeTypeOK /\ OneInstanceRuns /\ WorkIsRecovered

\* No conversation is locked in a search that nobody runs.
DialogIsSound ==
  part = "dialog" => DialogTypeOK /\ SearchingHasSearch

\* A resolution goes on with the track that owns its source, and no track is
\* left without a source.
CatalogueIsSound ==
  part = "catalogue" => CatalogueTypeOK /\ ResolvedTrackOwnsSource /\ TrackHasSource
=============================================================================
