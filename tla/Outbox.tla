-------------------------------- MODULE Outbox --------------------------------
(***************************************************************************)
(* What the delivery outbox promises a chat, without queues, leases, caches*)
(* or workers: a request ends at most once and stays ended; DELIVERED is   *)
(* said of a file that went out, FAILED and CANCELLED of one that did not; *)
(* a file goes out once, while the request is open.  The promise weakens   *)
(* only for requests in doubt: an answer or a record of theirs was lost    *)
(* while they were open, or may come too late.                             *)
(***************************************************************************)
EXTENDS Naturals

CONSTANT Request

VARIABLES
  outcome, (* what each request has come to: NONE before it is made        *)
  copies,  (* files its chat got; 2 stands for more                        *)
  doubt    (* requests whose file may be out unrecorded                    *)

Ending == {"DELIVERED", "FAILED", "CANCELLED"}

Init ==
  /\ outcome = [r \in Request |-> "NONE"]
  /\ copies = [r \in Request |-> 0]
  /\ doubt = {}

Open(r) == outcome[r] = "OPEN"

\* A file may go out to the chat of r.
Sendable(r) == r \in doubt \/ (Open(r) /\ copies[r] = 0)

\* What may be said of r at its end.
Truthful(r, ending) ==
  IF ending = "DELIVERED" THEN copies[r] > 0 ELSE copies[r] = 0 \/ r \in doubt

Ask(r) ==
  /\ outcome[r] = "NONE" /\ outcome' = [outcome EXCEPT ![r] = "OPEN"]
  /\ UNCHANGED <<copies, doubt>>

Send(r) ==
  /\ Sendable(r) /\ copies' = [copies EXCEPT ![r] = IF @ = 2 THEN 2 ELSE @ + 1]
  /\ UNCHANGED <<outcome, doubt>>

\* The fate of the files of S becomes unknown; some of them are out.
Lose(S) ==
  /\ UNCHANGED outcome
  /\ doubt' = doubt \cup S /\ \A r \in S : Open(r) \/ r \in doubt
  /\ copies' \in [Request -> 0..2]
  /\ \A r \in Request :
       copies'[r] # copies[r] => copies'[r] > copies[r] /\ r \in S /\ Sendable(r)

\* Requests end together, each in its own way.
End(ending) ==
  /\ \A r \in DOMAIN ending : Open(r) /\ Truthful(r, ending[r])
  /\ outcome' = [r \in Request |-> IF r \in DOMAIN ending THEN ending[r] ELSE outcome[r]]
  /\ UNCHANGED <<copies, doubt>>

Next ==
  \/ \E S \in SUBSET Request : Lose(S) \/ \E ending \in [S -> Ending] : End(ending)
  \/ \E r \in Request : Ask(r) \/ Send(r)

Spec == Init /\ [][Next]_<<outcome, copies, doubt>>

===============================================================================
