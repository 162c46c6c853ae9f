------------------------- MODULE MCTelegramDelivery -------------------------
(***************************************************************************)
(* The outbox for TLC.  Two requests share the workers, and one of them    *)
(* may come in doubt; with stops and restarts, whose interleavings are     *)
(* many, there is one request.  Requests for two artifacts of the track    *)
(* are served by one worker at a time, with a stop, nothing in doubt, no   *)
(* expired lease, two claims each and no entry of the artifact cache.      *)
(***************************************************************************)
EXTENDS TelegramDelivery, TLC

DeliverySymmetry ==
  Permutations(Request) \cup Permutations(Worker) \cup Permutations(Fingerprint)

Asked == {r \in Request : req[r].status # "NONE"}
Wants == {req[r].wants : r \in Asked}
Busy == {w \in Worker : work[w].phase # "idle"}

\* Every artifact has one job, and the jobs are taken in order.
JobsInTurn ==
  /\ \A i, j \in Job : job[i].stage # "NONE" /\ job[i].of = job[j].of => i = j
  /\ \A i, j \in Job : i < j /\ job[j].stage # "NONE" => job[i].stage # "NONE"

OneArtifact ==
  Cardinality(doubt) <= 1 /\ (stops > 0 => Cardinality(Asked) <= 1)

TwoArtifacts ==
  /\ doubt = {} /\ entry = {} /\ stops <= 1 /\ Cardinality(Busy) <= 1
  /\ \A r \in Request : ~req[r].expired /\ req[r].attempts <= 2

MCDeliveryNext ==
  /\ DeliveryNext
  /\ JobsInTurn'
  /\ IF Cardinality(Wants') <= 1 THEN OneArtifact' ELSE TwoArtifacts'

MCDeliverySpec == DeliveryInit /\ [][MCDeliveryNext]_dvars

=============================================================================
