------------------------ MODULE ProviderAuthorization ------------------------
(***************************************************************************)
(* Linking and unlinking music provider accounts: the authorization        *)
(* coordinator of the bot process, the drivers that poll a device flow or  *)
(* hand a secret over, the one-request-at-a-time client of the OnTheSpot   *)
(* child process, the account records that child writes to its             *)
(* configuration file, and the owner's chat in which secrets are typed.    *)
(*                                                                         *)
(* Every call of the child is two steps, Begin and Answer or Break: Break  *)
(* is a timeout, a broken pipe, a malformed answer or the cancellation of  *)
(* the caller; it kills the child, whose call may have taken effect.       *)
(* A provider has one Method here; the Web API pair of Spotify, a second   *)
(* method beside its pairing, is left out.                                 *)
(***************************************************************************)
EXTENDS Naturals, FiniteSets

CONSTANTS Providers,   \* managed providers
          Method,      \* Method[p]: "device" (a browser link), "pairing" (a local device),
                       \* "secret" (saves, reloads later) or "session" (replaces the
                       \* account and reloads at once)
          Flows,       \* flow ids; the bound on authorizations
          NoFlow,
          Messages,    \* messages of the owner, numbered in sending order
          MaxFaults,   \* bound on calls that break
          MaxResets,   \* bound on disconnects
          MayClose     \* whether the process is shut down

ASSUME AuthAssumption ==
  /\ Providers # {}
  /\ Method \in [Providers -> {"device", "pairing", "secret", "session"}]
  /\ NoFlow \notin Flows /\ Messages \subseteq Nat /\ MaxFaults \in Nat
  /\ MaxResets \in Nat /\ MayClose \in BOOLEAN

VARIABLES flow,       \* Flows -> provider, phase of its task, result
          activeFlow,     \* _active and _sensitive_active: Providers -> flow
          cancelOp,   \* a cancel() between its two lock sections
          reset,      \* a disconnect(): phase, flows begun before it
          onthespot,      \* the child's own table of device flows
          saved,      \* accounts in the configuration file, by the flow that wrote them
          accounts,       \* accounts the child has loaded
          ipc,        \* the caller that holds the request lock
          faults,
          chat,       \* expected flow and last message id of the owner's chat
          msg,        \* Messages -> phase and the flow it was routed to
          cancelled,  \* flows whose cancellation was reported
          closing     \* "no", "closing" or "closed"

authVars == <<flow, activeFlow, cancelOp, reset, onthespot, saved, accounts, ipc,
              faults, chat, msg, cancelled, closing>>
process == <<onthespot, saved, accounts>>
room == <<chat, msg>>

Idle == [who |-> "nobody", id |-> NoFlow]
FlowCall(f) == [who |-> "flow", id |-> f]
CancelCall(p) == [who |-> "cancel", id |-> p]
ResetCall(p) == [who |-> "reset", id |-> p]
Callers == {FlowCall(f) : f \in Flows} \cup {CancelCall(p) : p \in Providers}
             \cup {ResetCall(p) : p \in Providers}

AuthInit ==
  /\ flow = [f \in Flows |-> [provider |-> CHOOSE p \in Providers : TRUE,
                              phase |-> "new", result |-> "none"]]
  /\ activeFlow = [p \in Providers |-> NoFlow]
  /\ cancelOp = [p \in Providers |-> [phase |-> "idle", flow |-> NoFlow]]
  /\ reset = [p \in Providers |-> [phase |-> "idle", old |-> {}]]
  /\ onthespot = [f \in Flows |-> "none"]
  /\ saved = [p \in Providers |-> {}]
  /\ accounts = saved
  /\ ipc = Idle
  /\ faults = 0
  /\ chat = [expected |-> NoFlow, last |-> 0]
  /\ msg = [m \in Messages |-> [phase |-> "unsent", flow |-> NoFlow]]
  /\ cancelled = {}
  /\ closing = "no"

Prov(f) == flow[f].provider
ByDevice(p) == Method[p] \in {"device", "pairing"}
LiveFlow(f) == flow[f].phase \notin {"new", "done"}

\* Mutant: the lock is free while the child is asked to start a flow.
AlwaysUnlocked == TRUE

\* The coordinator's lock is held across the child's start call.
Unlocked == \A f \in Flows : flow[f].phase # "starting"

IsActive(p) == activeFlow[p] # NoFlow /\ LiveFlow(activeFlow[p])
IsOpen(f) == f # NoFlow /\ flow[f].phase = "open" /\ activeFlow[Prov(f)] = f

WithPhase(f, ph) == [flow EXCEPT ![f].phase = ph]
Ended(f, r) == [flow EXCEPT ![f].phase = "done", ![f].result = r]

-----------------------------------------------------------------------------
(* The child: what a call does to its tables, and what it answers.         *)

Reply(c, s, l, a) == [child |-> c, saved |-> s, pool |-> l, answer |-> a]
Unchanged(a) == Reply(onthespot, saved, accounts, a)
Without(p) == [f \in Flows |-> IF Prov(f) = p THEN "none" ELSE onthespot[f]]

\* A device flow: one token request per poll of a pending flow; an account is
\* written before the flow counts as approved.
StartReplies(f) == {Reply([onthespot EXCEPT ![f] = "pending"], saved, accounts, "started"),
                    Unchanged("refused")}
Approve(f) == Reply([onthespot EXCEPT ![f] = "approved"], [saved EXCEPT ![Prov(f)] = @ \cup {f}],
                    accounts, "approved")
Fail(f) == Reply([onthespot EXCEPT ![f] = "ended"], saved, accounts, "failed")
PollReplies(f) ==
  CASE onthespot[f] \in {"none", "ended"} -> {Unchanged("failed")}
    [] onthespot[f] = "approved" -> {Unchanged("approved")}
    [] onthespot[f] = "pending" -> {Unchanged("pending"), Unchanged("transient"), Fail(f), Approve(f)}

\* A pairing: one server for the whole child.  Whether a loaded account is one
\* that forbids it (active, and premium) is left to chance.
PairingStartReplies(f) ==
  IF \E g \in Flows : Prov(g) = Prov(f) /\ onthespot[g] = "pending"
  THEN {Unchanged("refused")} ELSE StartReplies(f)
PairingPollReplies(f) ==
  IF onthespot[f] = "pending" THEN {Unchanged("pending"), Fail(f), Approve(f)} ELSE PollReplies(f)
ReleaseReplies(f) == {Reply([onthespot EXCEPT ![f] = "none"], saved, accounts, "ok")}

\* A secret is validated, then written.
SecretReplies(f) ==
  {Unchanged("failed"),
   Reply(onthespot, [saved EXCEPT ![Prov(f)] = @ \cup {f}], accounts, "saved")}

\* A session replaces the accounts of its provider, and is checked only after it
\* was written and loaded.
SessionReplies(f) ==
  LET p == Prov(f)  now == [saved EXCEPT ![p] = {f}] IN
  {Unchanged("failed"), Reply(onthespot, [saved EXCEPT ![p] = {}], accounts, "failed"),
   Reply(onthespot, now, now, "failed"), Reply(onthespot, now, now, "saved")}

RefreshReplies == {Reply(onthespot, saved, saved, "ok"), Unchanged("failed")}
StatusReplies(p) ==
  IF accounts[p] # {} THEN {Unchanged("ready"), Unchanged("unusable")}
  ELSE IF saved[p] # {} THEN {Unchanged("unusable")} ELSE {Unchanged("unconfigured")}

\* reset_provider_authentication: accounts first, then the flows, then the pool.
ResetReplies(p) ==
  LET now == [saved EXCEPT ![p] = {}] IN
  {Unchanged("failed"), Reply(Without(p), now, now, "ok"), Reply(Without(p), now, accounts, "failed")}

Wants(c) ==
  CASE c.who = "flow" -> flow[c.id].phase \in {"starting", "polling", "authorizing",
                                               "reloading", "checking", "releasing"}
    [] c.who = "cancel" -> cancelOp[c.id].phase = "child"
    [] c.who = "reset" -> reset[c.id].phase \in {"resetting", "verifying"}

FlowReplies(f) ==
  LET m == Method[Prov(f)]  ph == flow[f].phase IN
  CASE ph = "starting" -> IF m = "device" THEN StartReplies(f) ELSE PairingStartReplies(f)
    [] ph = "polling" -> IF m = "device" THEN PollReplies(f) ELSE PairingPollReplies(f)
    [] ph = "authorizing" -> IF m = "secret" THEN SecretReplies(f) ELSE SessionReplies(f)
    [] ph = "releasing" -> ReleaseReplies(f)
    [] ph = "reloading" -> RefreshReplies
    [] ph = "checking" -> StatusReplies(Prov(f))

Replies(c) ==
  CASE c.who = "flow" -> FlowReplies(c.id)
    [] c.who = "cancel" -> ReleaseReplies(cancelOp[c.id].flow)
    [] c.who = "reset" -> IF reset[c.id].phase = "resetting" THEN ResetReplies(c.id)
                          ELSE StatusReplies(c.id)

-----------------------------------------------------------------------------
(* What the caller does with an answer.                                     *)

\* A device task ends through its finally clause, which releases the child's flow;
\* a submission ends when it can take the coordinator's lock.
Conclude(f, r) ==
  flow' = [flow EXCEPT ![f].result = r,
                       ![f].phase = IF ByDevice(Prov(f)) THEN "releasing" ELSE "settling"]

\* start(): the flow is registered when the child has answered.
StartReceives(f, answer) ==
  /\ flow[f].phase = "starting"
  /\ IF answer = "started"
     THEN flow' = WithPhase(f, "waiting") /\ activeFlow' = [activeFlow EXCEPT ![Prov(f)] = f]
     ELSE flow' = Ended(f, "FAILED") /\ UNCHANGED activeFlow

\* Failed polls of a device flow are repeated up to a limit; of a pairing they end it.
PollReceives(f, answer) ==
  /\ flow[f].phase = "polling"
  /\ \/ answer = "approved" /\ flow' = WithPhase(f, "reloading")
     \/ /\ \/ answer = "pending"
           \/ Method[Prov(f)] = "device" /\ answer \in {"transient", "error"}
        /\ flow' = WithPhase(f, "waiting")
     \/ answer \in {"transient", "error", "failed"} /\ Conclude(f, "FAILED")

SubmissionReceives(f, answer) ==
  /\ flow[f].phase = "authorizing"
  /\ IF answer = "saved" THEN flow' = WithPhase(f, "reloading") ELSE Conclude(f, "FAILED")

\* _reload_and_verify: the account must be loaded and usable.
VerifyReceives(f, answer) ==
  \/ /\ flow[f].phase = "reloading"
     /\ IF answer = "ok" THEN flow' = WithPhase(f, "checking") ELSE Conclude(f, "FAILED")
  \/ flow[f].phase = "checking" /\ Conclude(f, IF answer = "ready" THEN "READY" ELSE "FAILED")

FlowReceives(f, answer) ==
  \/ StartReceives(f, answer)
  \/ /\ \/ PollReceives(f, answer) \/ SubmissionReceives(f, answer) \/ VerifyReceives(f, answer)
        \/ flow[f].phase = "releasing" /\ flow' = WithPhase(f, "done")
     /\ UNCHANGED activeFlow

ResetReceives(p, answer) ==
  reset' = [reset EXCEPT ![p].phase =
              CASE @ = "resetting" /\ answer = "ok" -> "verifying"
                [] @ = "verifying" /\ answer = "unconfigured" -> "disconnected"
                [] OTHER -> "failed"]

Receive(c, answer) ==
  \/ c.who = "flow" /\ FlowReceives(c.id, answer) /\ UNCHANGED <<cancelOp, reset>>
  \/ /\ c.who = "cancel"
     /\ cancelOp' = [cancelOp EXCEPT ![c.id].phase = "stopping"]
     /\ UNCHANGED <<flow, activeFlow, reset>>
  \/ c.who = "reset" /\ ResetReceives(c.id, answer) /\ UNCHANGED <<flow, activeFlow, cancelOp>>

Begin(c) ==
  /\ ipc = Idle /\ Wants(c)
  /\ ipc' = c
  /\ UNCHANGED <<flow, activeFlow, cancelOp, reset, process, faults, room, cancelled, closing>>

AnswerCall(c) ==
  /\ ipc = c /\ c # Idle
  /\ \E r \in Replies(c) :
       /\ onthespot' = r.child /\ saved' = r.saved /\ accounts' = r.pool
       /\ Receive(c, r.answer)
  /\ ipc' = Idle
  /\ UNCHANGED <<faults, room, cancelled, closing>>

\* The child is gone and the next call starts another, which loads the saved accounts.
Killed(c) ==
  \E r \in Replies(c) \cup {Unchanged("error")} :
    /\ onthespot' = [f \in Flows |-> "none"]
    /\ saved' = r.saved /\ accounts' = r.saved

Break(c) ==
  /\ ipc = c /\ c # Idle /\ faults < MaxFaults
  /\ Killed(c)
  /\ Receive(c, "error")
  /\ ipc' = Idle
  /\ faults' = faults + 1
  /\ UNCHANGED <<room, cancelled, closing>>

-----------------------------------------------------------------------------
(* The coordinator.                                                         *)

Begun(f, p, ph) ==
  /\ Unlocked /\ closing = "no" /\ flow[f].phase = "new" /\ ~IsActive(p)
  /\ flow' = [flow EXCEPT ![f] = [provider |-> p, phase |-> ph, result |-> "none"]]
  /\ UNCHANGED <<cancelOp, reset, process, ipc, faults, msg, cancelled, closing>>

\* start(): a device flow asks the child under the lock; a secret one only registers.
\* The account may have changed since the caller saw that it was not ready.
StartDevice(f, p) ==
  /\ ByDevice(p) /\ Begun(f, p, "starting")
  /\ UNCHANGED <<activeFlow, chat>>

StartSensitive(f, p) ==
  /\ ~ByDevice(p) /\ Begun(f, p, "open")
  /\ activeFlow' = [activeFlow EXCEPT ![p] = f]
  /\ chat' = [chat EXCEPT !.expected = f]

Poll(f) ==
  /\ flow[f].phase = "waiting"
  /\ flow' = WithPhase(f, "polling")
  /\ UNCHANGED <<activeFlow, cancelOp, reset, process, ipc, faults, room, cancelled, closing>>

\* Mutant: polling has no deadline.
ExpireNever(f) == FALSE /\ UNCHANGED authVars

\* The deadline of the loop, whatever the polls have said.
Expire(f) ==
  /\ flow[f].phase = "waiting"
  /\ Conclude(f, "FAILED")
  /\ UNCHANGED <<activeFlow, cancelOp, reset, process, ipc, faults, room, cancelled, closing>>

SettleFlow(f) ==
  /\ Unlocked /\ flow[f].phase = "settling"
  /\ flow' = WithPhase(f, "done")
  /\ UNCHANGED <<activeFlow, cancelOp, reset, process, ipc, faults, room, cancelled, closing>>

\* _release_when_done and _release_sensitive_when_done.
ReleaseFlow(f) ==
  LET p == Prov(f) IN
  /\ Unlocked /\ flow[f].phase = "done" /\ activeFlow[p] = f
  /\ activeFlow' = [activeFlow EXCEPT ![p] = NoFlow]
  /\ UNCHANGED <<flow, cancelOp, reset, process, ipc, faults, room, cancelled, closing>>

\* cancel() of a secret that was not submitted: local and at once.
CancelOpen(p) ==
  LET f == activeFlow[p] IN
  /\ flow' = Ended(f, "CANCELLED")
  /\ activeFlow' = [activeFlow EXCEPT ![p] = NoFlow]
  /\ cancelled' = cancelled \cup {f}
  /\ UNCHANGED cancelOp

Cancellable(p) == flow[activeFlow[p]].phase = "open"

\* Mutant: the task is stopped and the child's flow forgotten.
CancelTaskOnly(p) ==
  /\ cancelOp[p].phase = "idle"
  /\ cancelOp' = [cancelOp EXCEPT ![p] = [phase |-> "stopping", flow |-> activeFlow[p]]]
  /\ UNCHANGED <<flow, activeFlow, cancelled>>

\* cancel() of a device flow: the child first, then the task, then the record.
CancelDevice(p) ==
  /\ cancelOp[p].phase = "idle"
  /\ cancelOp' = [cancelOp EXCEPT ![p] = [phase |-> "child", flow |-> activeFlow[p]]]
  /\ UNCHANGED <<flow, activeFlow, cancelled>>

Cancel(p) ==
  /\ Unlocked /\ closing = "no" /\ IsActive(p)
  /\ \/ /\ Cancellable(p) /\ CancelOpen(p)
        /\ chat' = IF chat.expected = activeFlow[p] THEN [chat EXCEPT !.expected = NoFlow] ELSE chat
     \/ ByDevice(p) /\ CancelDevice(p) /\ UNCHANGED chat
  /\ UNCHANGED <<reset, process, ipc, faults, msg, closing>>

\* task.cancel() and its end: a call in flight takes the child with it.
CancelStops(p) ==
  LET f == cancelOp[p].flow IN
  /\ cancelOp[p].phase = "stopping"
  /\ cancelOp' = [cancelOp EXCEPT ![p].phase = "recording"]
  /\ flow' = IF LiveFlow(f) THEN Ended(f, "CANCELLED") ELSE flow
  /\ IF ipc = FlowCall(f) THEN Killed(ipc) /\ ipc' = Idle ELSE UNCHANGED <<process, ipc>>
  /\ UNCHANGED <<activeFlow, reset, faults, room, cancelled, closing>>

CancelRecords(p) ==
  LET f == cancelOp[p].flow IN
  /\ Unlocked /\ cancelOp[p].phase = "recording"
  /\ activeFlow' = [activeFlow EXCEPT ![p] = IF @ = f THEN NoFlow ELSE @]
  /\ cancelOp' = [cancelOp EXCEPT ![p] = [phase |-> "idle", flow |-> NoFlow]]
  /\ cancelled' = cancelled \cup {f}
  /\ reset' = [reset EXCEPT ![p].phase = IF @ = "cancelling" THEN "resetting" ELSE @]
  /\ UNCHANGED <<flow, process, ipc, faults, room, closing>>

\* disconnect(): cancel what is active, unless it was submitted, then reset.
Disconnect(p) ==
  LET begun == {f \in Flows : flow[f].phase # "new"}
      Enter(ph) == reset' = [reset EXCEPT ![p] = [phase |-> ph, old |-> begun]]
  IN
  /\ Unlocked /\ closing = "no" /\ reset[p].phase = "idle"
  /\ Cardinality({q \in Providers : reset[q].phase # "idle"}) < MaxResets
  /\ \/ ~IsActive(p) /\ Enter("resetting") /\ UNCHANGED <<flow, activeFlow, cancelOp, cancelled>>
     \/ IsActive(p) /\ Cancellable(p) /\ CancelOpen(p) /\ Enter("resetting")
     \/ IsActive(p) /\ ByDevice(p) /\ CancelDevice(p) /\ Enter("cancelling")
     \/ /\ IsActive(p) /\ ~ByDevice(p) /\ ~Cancellable(p) /\ Enter("failed")
        /\ UNCHANGED <<flow, activeFlow, cancelOp, cancelled>>
  /\ UNCHANGED <<process, ipc, faults, room, closing>>

-----------------------------------------------------------------------------
(* The owner's chat.                                                        *)

\* A text is a secret if the flow it is expected for, or else the only open one, is pending.
Route(m) ==
  /\ closing = "no" /\ msg[m].phase = "unsent" /\ \A n \in Messages : n < m => msg[n].phase # "unsent"
  /\ LET open == {f \in Flows : IsOpen(f)}
         asked == IF chat.expected # NoFlow THEN open \cap {chat.expected} ELSE open
     IN IF Cardinality(asked) = 1
        THEN msg' = [msg EXCEPT ![m] = [phase |-> "routed", flow |-> CHOOSE f \in asked : TRUE]]
        ELSE msg' = [msg EXCEPT ![m].phase = "handled"]
  /\ UNCHANGED <<flow, activeFlow, cancelOp, reset, process, ipc, faults, chat, cancelled, closing>>

Recheck(m) ==
  /\ Unlocked /\ msg[m].phase = "routed"
  /\ IF IsOpen(msg[m].flow) /\ m > chat.last
     THEN msg' = [msg EXCEPT ![m].phase = "claimed"] /\ chat' = [chat EXCEPT !.last = m]
     ELSE msg' = [msg EXCEPT ![m].phase = "handled"] /\ UNCHANGED chat
  /\ UNCHANGED <<flow, activeFlow, cancelOp, reset, process, ipc, faults, cancelled, closing>>

\* Mutants: a rejected message ends its flow without a result; it ends any flow.
FailInputSilently(f) ==
  /\ flow' = IF IsOpen(f) THEN WithPhase(f, "done") ELSE flow
  /\ UNCHANGED activeFlow
FailAnyInput(f) == flow' = Ended(f, "FAILED") /\ UNCHANGED activeFlow

\* fail_sensitive_input: ends a flow nothing was submitted for.
FailInput(f) ==
  IF IsOpen(f)
  THEN /\ flow' = Ended(f, "FAILED")
       /\ activeFlow' = [activeFlow EXCEPT ![Prov(f)] = NoFlow]
  ELSE UNCHANGED <<flow, activeFlow>>

\* The message cannot be deleted, or its text does not parse.
RejectSecret(m) ==
  /\ Unlocked /\ msg[m].phase = "claimed"
  /\ FailInput(msg[m].flow)
  /\ msg' = [msg EXCEPT ![m].phase = "handled"]
  /\ chat' = [chat EXCEPT !.expected = NoFlow]
  /\ UNCHANGED <<cancelOp, reset, process, ipc, faults, cancelled, closing>>

\* Mutant: any flow the message was routed to is taken, also one that has ended.
AcceptsStale(f) == TRUE

\* submit_*(): only the current generation, and only once.
Accepts(f) == IsOpen(f)
SubmitSecret(m) ==
  LET f == msg[m].flow IN
  /\ Unlocked /\ msg[m].phase = "claimed"
  /\ flow' = IF Accepts(f) THEN WithPhase(f, "authorizing") ELSE flow
  /\ msg' = [msg EXCEPT ![m].phase = "submitted"]
  /\ UNCHANGED <<activeFlow, cancelOp, reset, process, ipc, faults, chat, cancelled, closing>>

Handled(m) ==
  /\ msg[m].phase = "submitted" /\ flow[msg[m].flow].phase \in {"settling", "done"}
  /\ msg' = [msg EXCEPT ![m].phase = "handled"]
  /\ chat' = IF chat.expected = msg[m].flow THEN [chat EXCEPT !.expected = NoFlow] ELSE chat
  /\ UNCHANGED <<flow, activeFlow, cancelOp, reset, process, ipc, faults, cancelled, closing>>

-----------------------------------------------------------------------------
(* Shutdown: device flows are cancelled, then open secrets; submissions are awaited. *)

\* Mutant: nobody ends a flow that waits for its secret.
ClosedWaiting(f) == flow[f]

ClosedFlow(f) == IF flow[f].phase = "open"
                 THEN [flow[f] EXCEPT !.phase = "done", !.result = "CANCELLED"] ELSE flow[f]

Close ==
  /\ MayClose /\ Unlocked /\ closing = "no"
  /\ closing' = "closing"
  /\ cancelOp' = [p \in Providers |->
       IF IsActive(p) /\ ByDevice(p) /\ cancelOp[p].phase = "idle"
       THEN [phase |-> "child", flow |-> activeFlow[p]] ELSE cancelOp[p]]
  /\ UNCHANGED <<flow, activeFlow, reset, process, ipc, faults, room, cancelled>>

\* Until the device tasks have ended, a secret can still be submitted.
CloseSecrets ==
  /\ closing = "closing"
  /\ \A f \in Flows : ByDevice(Prov(f)) => ~LiveFlow(f)
  /\ \A p \in Providers : cancelOp[p].phase \notin {"child", "stopping"}
  /\ closing' = "awaiting"
  /\ flow' = [f \in Flows |-> ClosedFlow(f)]
  /\ UNCHANGED <<activeFlow, cancelOp, reset, process, ipc, faults, room, cancelled>>

\* The client of the child is closed after the coordinator.
AllClosed ==
  /\ closing = "awaiting" /\ ipc = Idle
  /\ \A f \in Flows : ~LiveFlow(f)
  /\ \A p \in Providers : cancelOp[p].phase = "idle"
                            /\ reset[p].phase \in {"idle", "disconnected", "failed"}
  /\ closing' = "closed"
  /\ activeFlow' = [p \in Providers |-> NoFlow]
  /\ onthespot' = [f \in Flows |-> "none"]
  /\ UNCHANGED <<flow, cancelOp, reset, saved, accounts, ipc, faults, room, cancelled>>

-----------------------------------------------------------------------------
AuthNext ==
  \/ \E c \in Callers : Begin(c) \/ AnswerCall(c) \/ Break(c)
  \/ \E f \in Flows : Poll(f) \/ Expire(f) \/ SettleFlow(f) \/ ReleaseFlow(f)
                        \/ \E p \in Providers : StartDevice(f, p) \/ StartSensitive(f, p)
  \/ \E p \in Providers : Cancel(p) \/ CancelStops(p) \/ CancelRecords(p) \/ Disconnect(p)
  \/ \E m \in Messages : Route(m) \/ Recheck(m) \/ RejectSecret(m) \/ SubmitSecret(m) \/ Handled(m)
  \/ Close \/ CloseSecrets \/ AllClosed

\* Tasks that can run do run, every call is answered or times out, and a device
\* flow that goes on polling runs into its expiry.
AuthProgress ==
  \/ \E c \in Callers : Begin(c) \/ AnswerCall(c)
  \/ \E f \in Flows : SettleFlow(f) \/ ReleaseFlow(f)
  \/ \E p \in Providers : CancelStops(p) \/ CancelRecords(p)
  \/ CloseSecrets \/ AllClosed
AuthFairness == WF_authVars(AuthProgress) /\ \A f \in Flows : SF_authVars(Expire(f))

AuthSpec == AuthInit /\ [][AuthNext]_authVars /\ AuthFairness

-----------------------------------------------------------------------------
Phases == {"new", "starting", "waiting", "polling", "open", "authorizing", "reloading",
           "checking", "releasing", "settling", "done"}
Results == {"none", "READY", "FAILED", "CANCELLED"}

\* Every variable has its type; a flow has a result exactly when it is about to end
\* or has ended, and the coordinator's tables name flows of their own provider.
AuthTypeOK ==
  /\ flow \in [Flows -> [provider : Providers, phase : Phases, result : Results]]
  /\ \A f \in Flows : (flow[f].result # "none") <=> flow[f].phase \in {"releasing", "settling", "done"}
  /\ \A p \in Providers : activeFlow[p] # NoFlow => Prov(activeFlow[p]) = p
  /\ cancelOp \in [Providers -> [phase : {"idle", "child", "stopping", "recording"},
                                 flow : Flows \cup {NoFlow}]]
  /\ onthespot \in [Flows -> {"none", "pending", "approved", "ended"}]
  /\ saved \in [Providers -> SUBSET Flows] /\ accounts \in [Providers -> SUBSET Flows]
  /\ ipc \in Callers \cup {Idle} /\ faults \in 0..MaxFaults

\* At most one authorization of a provider is under way, counting the one whose
\* start call is still with the child.
OneFlowPerProvider ==
  \A f, g \in Flows : LiveFlow(f) /\ LiveFlow(g) /\ Prov(f) = Prov(g) => f = g

\* The child never polls or pairs for a flow that no task of the bot follows any
\* more, whatever was cancelled, timed out, reset or killed in between.
NoOrphanPairing == \A f \in Flows : onthespot[f] = "pending" => LiveFlow(f)

\* Once a disconnect has reported DISCONNECTED, no account of an authorization that
\* was begun before it is in the configuration file, now or later.
DisconnectedIsTrue ==
  \A p \in Providers : reset[p].phase = "disconnected" => saved[p] \cap reset[p].old = {}

StaysCancelled ==
  \A f \in cancelled : \A p \in Providers : f \in saved'[p] => f \in saved[p]

\* An authorization whose cancellation was reported writes no account afterwards.
CancelledNeverLinks == [][StaysCancelled]_authVars

StaysEnded == \A f \in Flows : flow[f].phase = "done" => flow'[f] = flow[f]

\* The result of an authorization that has ended never changes, although its task,
\* a cancellation, a rejected message, a second message and shutdown all end flows.
FlowEndsOnce == [][StaysEnded]_authVars

\* A device flow and a submitted secret always come to their end.
FlowEnds ==
  \A f \in Flows : (flow[f].phase \in {"waiting", "authorizing"}) ~> (flow[f].phase = "done")

\* Shutdown always completes: nothing it waits for can wait for ever.
CloseCompletes == (closing = "closing") ~> (closing = "closed")
=============================================================================
