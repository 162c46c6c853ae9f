-------------------------- MODULE FlightReconciler --------------------------
(***************************************************************************)
(* SingleFlight together with the loop that QueueManager._reconcile runs   *)
(* every second: SingleFlightService.reconcile calls reconcile_all in a    *)
(* transaction that, unlike every other caller, holds no write lock yet.   *)
(* Its SELECTs run one by one beside other writers; the lock is taken at   *)
(* the first UPDATE and kept to the commit.  A flight is deleted by the    *)
(* rowid that was read.                                                    *)
(***************************************************************************)
EXTENDS SingleFlight

VARIABLE
  scan (* flights read and not yet looked at, as <<rowid, job>>            *)

frvars == <<sfvars, scan>>

FRInit == SFInit /\ scan = {}

\* SELECT every flight.
ReadFlights ==
  /\ mode = "up" /\ scan = {}
  /\ scan' = {<<flight[j], j>> : j \in {i \in Job : flight[i] # 0}}
  /\ UNCHANGED sfvars

NextRead == {e \in scan : \A f \in scan : e[1] <= f[1]}

\* The job and its upload are read and are still open: go on unlocked.
SkipFlight ==
  /\ \E e \in NextRead : Eligible(e[2]) /\ scan' = scan \ {e}
  /\ UNCHANGED sfvars

\* The first flight to close takes the write lock; it and everything still
\* unread is settled in one transaction.
CloseFlights ==
  LET over == {e \in scan : ~Eligible(e[2])}
      jobs == {e[2] : e \in over}
      ids == {e[1] : e \in over}
  IN
  /\ NextRead \cap over # {}
  /\ sub' = [j \in Job |-> IF j \in jobs
               THEN Resolved(sub[j], Outcome(dl[j], up[j])) ELSE sub[j]]
  /\ flight' = [j \in Job |-> IF flight[j] \in ids THEN 0 ELSE flight[j]]
  /\ scan' = {}
  /\ UNCHANGED <<vars, key>>

\* A stop cancels the loop before the pools; a crash ends it too.
FRNext ==
  \/ SFNext /\ scan' = IF mode' = "up" THEN scan ELSE {}
  \/ ReadFlights \/ SkipFlight \/ CloseFlights

FRSpec == FRInit /\ [][FRNext]_frvars

-----------------------------------------------------------------------------
FRTypeOK == SFTypeOK /\ scan \subseteq (Nat \X Job)

\* However old the reconciler's list is, what a subscriber has been told is
\* never taken back or replaced: an explicit cancellation keeps precedence
\* over a result, and a result over a later cancellation.
ToldIsFinal ==
  [][\A j \in Job, r \in Request :
       sub[j][r] \in {"READY", "FAILED", "CANCELLED"} => sub'[j][r] = sub[j][r]]_frvars

=============================================================================
