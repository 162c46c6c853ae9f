---------------------------- MODULE SharedResult ----------------------------
(***************************************************************************)
(* What SingleFlight promises, without queues, leases or workers: at any   *)
(* time a key has at most one group of work; a request joins the group or  *)
(* opens a new one; everybody who still waits in a group learns the same   *)
(* result in the same instant, and the group is gone then; the last waiter *)
(* to leave takes the group with it.  A result, once given, stays.         *)
(***************************************************************************)
EXTENDS Naturals

CONSTANTS
  Key,     (* what may be asked for                                        *)
  Request, (* who may ask                                                  *)
  Group    (* names of groups, positive numbers, each used once            *)

VARIABLES
  current, (* the open group of each key, 0 if there is none               *)
  result   (* what each request was told in each group                     *)

Result == {"READY", "FAILED", "CANCELLED"}

Init ==
  /\ current = [k \in Key |-> 0]
  /\ result = [g \in Group |-> [r \in Request |-> "NONE"]]

Waiting(g) == {r \in Request : result[g][r] = "WAITING"}

Join(r, k) ==
  /\ current[k] # 0
  /\ result[current[k]][r] = "NONE"
  /\ result' = [result EXCEPT ![current[k]][r] = "WAITING"]
  /\ UNCHANGED current

Open(r, k, g) ==
  /\ current[k] = 0
  /\ \A q \in Request : result[g][q] = "NONE"
  /\ current' = [current EXCEPT ![k] = g]
  /\ result' = [result EXCEPT ![g][r] = "WAITING"]

Leave(r, k) ==
  /\ current[k] # 0
  /\ result[current[k]][r] = "WAITING"
  /\ result' = [result EXCEPT ![current[k]][r] = "CANCELLED"]
  /\ current' = IF Waiting(current[k]) = {r}
                THEN [current EXCEPT ![k] = 0] ELSE current

Finish(K, outcome) ==
  /\ \A k \in K : current[k] # 0
  /\ result' = [g \in Group |->
       IF \E k \in K : current[k] = g
       THEN [r \in Request |->
               IF r \in Waiting(g) THEN outcome[g] ELSE result[g][r]]
       ELSE result[g]]
  /\ current' = [k \in Key |-> IF k \in K THEN 0 ELSE current[k]]

Next ==
  \/ \E r \in Request, k \in Key :
       Join(r, k) \/ Leave(r, k) \/ \E g \in Group : Open(r, k, g)
  \/ \E K \in SUBSET Key, outcome \in [Group -> Result] : Finish(K, outcome)

Spec == Init /\ [][Next]_<<current, result>>

=============================================================================
