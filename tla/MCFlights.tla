----------------------------- MODULE MCFlights -----------------------------
(***************************************************************************)
(* SingleFlight with every caller inside the write lock ("locked"), and    *)
(* beside the loop that reads without it ("loop"), where one download      *)
(* attempt is enough to give a rowid to a second flight.                   *)
(* What the loop can break is stated for the locked callers only.          *)
(***************************************************************************)
EXTENDS FlightReconciler, TLC

VARIABLE part

Loop == INSTANCE FlightReconciler WITH DownloadMax <- 1

FlightsInit ==
  \/ part = "locked" /\ FRInit
  \/ part = "loop" /\ Loop!FRInit

FlightsNext ==
  /\ \/ part = "locked" /\ SFNext /\ UNCHANGED scan
     \/ part = "loop" /\ Loop!FRNext
  /\ part' = part

FlightsSpec == FlightsInit /\ [][FlightsNext]_<<frvars, part>>

RequestSymmetry == Permutations(Request)

-----------------------------------------------------------------------------
\* Every waiter has a flight of its key, and no flight is left over work that
\* has ended.
FlightsAreKept == part = "locked" => WaiterHasFlight /\ OpenFlightIsLive

\* Open work has somebody who waits for it, and a key one job at a time.
WorkIsShared == part = "locked" => WorkHasWaiter /\ OneJobPerKey

SharedCurrent == IF part = "locked" THEN CurrentJob ELSE [k \in Key |-> 0]
SharedResults ==
  IF part = "locked" THEN sub ELSE [j \in Job |-> [r \in Request |-> "NONE"]]

\* The locked callers implement the promise of SharedResult; beside them the
\* abstract state rests.
Shared == INSTANCE SharedResult WITH
  Group <- Job, current <- SharedCurrent, result <- SharedResults

SharesResult == Shared!Spec
=============================================================================
