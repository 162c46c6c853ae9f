------------------------- MODULE AuthorizationProofs -------------------------
(***************************************************************************)
(* The inductive invariant of ProviderAuthorization and its preservation.  *)
(* It says which flow a provider's coordinator knows, which task follows   *)
(* what the child polls, and in which order a cancellation and a           *)
(* disconnect take effect; ServiceProofs states the theorems.              *)
(***************************************************************************)
EXTENDS ProviderAuthorization, TLAPS, FiniteSetTheorems

FlowRecord == [provider : Providers, phase : Phases, result : Results]
CancelRecord == [phase : {"idle", "child", "stopping", "recording"}, flow : Flows \cup {NoFlow}]
ResetRecord == [phase : {"idle", "cancelling", "resetting", "verifying", "disconnected", "failed"},
                old : SUBSET Flows]
MessageRecord == [phase : {"unsent", "routed", "claimed", "submitted", "handled"},
                  flow : Flows \cup {NoFlow}]
ChildState == {"none", "pending", "approved", "ended"}

AuthStates ==
  /\ flow \in [Flows -> FlowRecord]
  /\ activeFlow \in [Providers -> Flows \cup {NoFlow}]
  /\ cancelOp \in [Providers -> CancelRecord]
  /\ reset \in [Providers -> ResetRecord]
  /\ onthespot \in [Flows -> ChildState]
  /\ saved \in [Providers -> SUBSET Flows]
  /\ accounts \in [Providers -> SUBSET Flows]
  /\ ipc \in Callers \cup {Idle}
  /\ faults \in 0..MaxFaults
  /\ msg \in [Messages -> MessageRecord]
  /\ cancelled \subseteq Flows

(* A flow's result and its phases are those of its provider's method.      *)
FlowIsFormed(f) ==
  /\ flow[f].result # "none" <=> flow[f].phase \in {"releasing", "settling", "done"}
  /\ flow[f].phase \in {"starting", "waiting", "polling", "releasing"} => ByDevice(Prov(f))
  /\ flow[f].phase \in {"open", "authorizing", "settling"} => ~ByDevice(Prov(f))

(* The coordinator knows every live flow but the one that is being         *)
(* started, and starts that one alone.                                     *)
FlowIsTracked(f) ==
  LiveFlow(f) => flow[f].phase = "starting" \/ activeFlow[Prov(f)] = f
StartIsAlone(f) ==
  flow[f].phase = "starting" =>
    /\ ~IsActive(Prov(f))
    /\ \A g \in Flows : flow[g].phase = "starting" => g = f
ActiveIsOwn(p) ==
  activeFlow[p] # NoFlow => Prov(activeFlow[p]) = p /\ flow[activeFlow[p]].phase # "new"

(* What the child still asks for is followed by a task.                    *)
PendingIsFollowed(f) ==
  onthespot[f] = "pending" =>
    LiveFlow(f) /\ flow[f].phase # "starting" /\ ByDevice(Prov(f))

(* A cancellation has told the child before it stops the task, and has     *)
(* stopped the task before it is recorded.                                 *)
CancelIsOrdered(p) ==
  cancelOp[p].phase # "idle" =>
    /\ cancelOp[p].flow \in Flows /\ Prov(cancelOp[p].flow) = p
    /\ flow[cancelOp[p].flow].phase \notin {"new", "starting"}
    /\ cancelOp[p].phase \in {"stopping", "recording"} =>
         onthespot[cancelOp[p].flow] # "pending"
    /\ cancelOp[p].phase = "recording" => flow[cancelOp[p].flow].phase = "done"

(* The flows begun before a disconnect have ended when the child is told   *)
(* to forget the accounts, and none of theirs is left once it has.         *)
ResetIsOrdered(p) ==
  /\ \A f \in reset[p].old : flow[f].phase # "new"
  /\ reset[p].phase = "cancelling" =>
       /\ cancelOp[p].phase # "idle"
       /\ \A f \in reset[p].old : Prov(f) = p /\ LiveFlow(f) => f = cancelOp[p].flow
  /\ reset[p].phase \in {"resetting", "verifying", "disconnected"} =>
       \A f \in reset[p].old : Prov(f) = p => ~LiveFlow(f)
  /\ reset[p].phase \in {"verifying", "disconnected"} => saved[p] \cap reset[p].old = {}

CancelledHasEnded == \A f \in cancelled : flow[f].phase = "done"
CallIsWanted == ipc # Idle => Wants(ipc)

AuthInv ==
  /\ AuthStates
  /\ \A f \in Flows : FlowIsFormed(f) /\ FlowIsTracked(f) /\ StartIsAlone(f)
                      /\ PendingIsFollowed(f)
  /\ \A p \in Providers : ActiveIsOwn(p) /\ CancelIsOrdered(p) /\ ResetIsOrdered(p)
  /\ CancelledHasEnded
  /\ CallIsWanted

LEMMA CallersDiffer ==
  /\ \A c \in Callers : c # Idle
  /\ \A f \in Flows : FlowCall(f) \in Callers /\ FlowCall(f).who = "flow" /\ FlowCall(f).id = f
  /\ \A p \in Providers : /\ CancelCall(p) \in Callers /\ CancelCall(p).who = "cancel"
                          /\ CancelCall(p).id = p
                          /\ ResetCall(p) \in Callers /\ ResetCall(p).who = "reset"
                          /\ ResetCall(p).id = p
  /\ \A c \in Callers : \/ \E f \in Flows : c = FlowCall(f)
                        \/ \E p \in Providers : c = CancelCall(p)
                        \/ \E p \in Providers : c = ResetCall(p)
<1>1. \A f : FlowCall(f).who = "flow" /\ FlowCall(f).id = f BY DEF FlowCall
<1>2. \A p : /\ CancelCall(p).who = "cancel" /\ CancelCall(p).id = p
             /\ ResetCall(p).who = "reset" /\ ResetCall(p).id = p
  BY DEF CancelCall, ResetCall
<1>3. Idle.who = "nobody" BY DEF Idle
<1>4. ASSUME NEW c \in Callers
      PROVE  \/ \E f \in Flows : c = FlowCall(f)
             \/ \E p \in Providers : c = CancelCall(p)
             \/ \E p \in Providers : c = ResetCall(p)
  <2>1. CASE c \in {FlowCall(f) : f \in Flows} BY <2>1
  <2>2. CASE c \in {CancelCall(p) : p \in Providers} BY <2>2
  <2>3. CASE c \in {ResetCall(p) : p \in Providers} BY <2>3
  <2> QED BY <2>1, <2>2, <2>3 DEF Callers
<1>5. \A c \in Callers : c.who # "nobody" BY <1>1, <1>2, <1>4
<1>6. \A f \in Flows : FlowCall(f) \in Callers BY DEF Callers
<1>7. \A p \in Providers : CancelCall(p) \in Callers /\ ResetCall(p) \in Callers BY DEF Callers
<1> QED BY <1>1, <1>2, <1>3, <1>4, <1>5, <1>6, <1>7

LEMMA AuthInvImplies ==
  AuthInv => AuthTypeOK /\ OneFlowPerProvider /\ NoOrphanPairing /\ DisconnectedIsTrue
<1> SUFFICES ASSUME AuthInv
             PROVE  AuthTypeOK /\ OneFlowPerProvider /\ NoOrphanPairing /\ DisconnectedIsTrue
  OBVIOUS
<1>1. AuthTypeOK
  BY DEF AuthInv, AuthStates, AuthTypeOK, FlowRecord, CancelRecord, ChildState, FlowIsFormed,
         ActiveIsOwn
<1>2. OneFlowPerProvider
  <2> SUFFICES ASSUME NEW f \in Flows, NEW g \in Flows, LiveFlow(f), LiveFlow(g),
                      Prov(f) = Prov(g)
               PROVE  f = g
    BY DEF OneFlowPerProvider
  <2>1. FlowIsTracked(f) /\ FlowIsTracked(g) /\ StartIsAlone(f) /\ StartIsAlone(g)
    BY DEF AuthInv
  <2>2. CASE flow[f].phase = "starting"
    <3>1. ~IsActive(Prov(f)) BY <2>1, <2>2 DEF StartIsAlone
    <3>2. activeFlow[Prov(g)] # g BY <3>1, AuthAssumption DEF IsActive
    <3> QED BY <2>1, <2>2, <3>2 DEF FlowIsTracked, StartIsAlone
  <2>3. CASE flow[g].phase = "starting"
    <3>1. ~IsActive(Prov(g)) BY <2>1, <2>3 DEF StartIsAlone
    <3>2. activeFlow[Prov(f)] # f BY <3>1, AuthAssumption DEF IsActive
    <3> QED BY <2>1, <2>3, <3>2 DEF FlowIsTracked, StartIsAlone
  <2>4. CASE flow[f].phase # "starting" /\ flow[g].phase # "starting"
    BY <2>1, <2>4 DEF FlowIsTracked
  <2> QED BY <2>2, <2>3, <2>4
<1>3. NoOrphanPairing BY DEF AuthInv, PendingIsFollowed, NoOrphanPairing
<1>4. DisconnectedIsTrue BY DEF AuthInv, ResetIsOrdered, DisconnectedIsTrue
<1> QED BY <1>1, <1>2, <1>3, <1>4

LEMMA AuthInitInv == AuthInit => AuthInv
<1> SUFFICES ASSUME AuthInit PROVE AuthInv OBVIOUS
<1> DEFINE new == [provider |-> CHOOSE p \in Providers : TRUE, phase |-> "new", result |-> "none"]
<1>1. new \in FlowRecord /\ new.phase = "new" /\ new.result = "none"
  BY AuthAssumption DEF FlowRecord, Phases, Results
<1>2. flow = [f \in Flows |-> new] BY DEF AuthInit
<1> HIDE DEF new
<1>3. AuthStates
  <2>1. [phase |-> "idle", flow |-> NoFlow] \in CancelRecord BY DEF CancelRecord
  <2>2. [phase |-> "idle", old |-> {}] \in ResetRecord BY DEF ResetRecord
  <2>3. [phase |-> "unsent", flow |-> NoFlow] \in MessageRecord BY DEF MessageRecord
  <2>4. flow \in [Flows -> FlowRecord] BY <1>1, <1>2
  <2>5. cancelOp \in [Providers -> CancelRecord] /\ reset \in [Providers -> ResetRecord]
        /\ msg \in [Messages -> MessageRecord]
    BY <2>1, <2>2, <2>3 DEF AuthInit
  <2> QED BY <2>4, <2>5, AuthAssumption DEF AuthInit, AuthStates, ChildState
<1>4. \A f \in Flows : flow[f].phase = "new" /\ flow[f].result = "none" BY <1>1, <1>2
<1>5. ASSUME NEW f \in Flows
      PROVE  FlowIsFormed(f) /\ FlowIsTracked(f) /\ StartIsAlone(f) /\ PendingIsFollowed(f)
  BY <1>4 DEF FlowIsFormed, FlowIsTracked, StartIsAlone, PendingIsFollowed, LiveFlow, AuthInit
<1>6. ASSUME NEW p \in Providers
      PROVE  ActiveIsOwn(p) /\ CancelIsOrdered(p) /\ ResetIsOrdered(p)
  BY DEF AuthInit, ActiveIsOwn, CancelIsOrdered, ResetIsOrdered
<1>7. CancelledHasEnded /\ CallIsWanted BY DEF AuthInit, CancelledHasEnded, CallIsWanted
<1> QED BY <1>3, <1>5, <1>6, <1>7 DEF AuthInv

-----------------------------------------------------------------------------
(* What every step but the start of a flow does.                           *)

(* A flow that moves on is live, and does not start again.                 *)
Moves ==
  \A f \in Flows :
    \/ flow'[f] = flow[f]
    \/ /\ flow[f].phase \notin {"new", "done"} /\ flow'[f].provider = flow[f].provider
       /\ flow'[f].phase \notin {"new", "starting"}
       /\ flow[f].phase = "starting" => flow'[f].phase = "done"

(* The coordinator forgets only flows that have ended.                     *)
Forgets ==
  \A p \in Providers :
    \/ activeFlow'[p] = activeFlow[p]
    \/ /\ activeFlow'[p] = NoFlow
       /\ activeFlow[p] # NoFlow => flow'[activeFlow[p]].phase = "done"

(* The child takes up no other flow, and the ones it polls are followed.   *)
Pends ==
  \A f \in Flows : onthespot'[f] = "pending" =>
    onthespot[f] = "pending" /\ (flow'[f] = flow[f] \/ flow'[f].phase # "done")

(* Accounts are written for live flows.                                    *)
Writes ==
  \A p \in Providers : \A f \in saved'[p] : f \in saved[p] \/ (LiveFlow(f) /\ Prov(f) = p)

LEMMA MovesBack ==
  ASSUME AuthInv, AuthStates', Moves, NEW f \in Flows
  PROVE  /\ Prov(f)' = Prov(f)
         /\ LiveFlow(f)' => LiveFlow(f)
         /\ flow[f].phase = "done" => flow'[f] = flow[f]
         /\ flow'[f].phase = "starting" => flow'[f] = flow[f]
         /\ flow[f].phase # "new" => flow'[f].phase # "new"
         /\ flow[f].phase \notin {"new", "starting"} => flow'[f].phase \notin {"new", "starting"}
BY DEF Moves, Prov, LiveFlow

LEMMA TrackedKept ==
  ASSUME AuthInv, AuthStates', Moves, Forgets
  PROVE  /\ \A f \in Flows : FlowIsTracked(f)' /\ StartIsAlone(f)'
         /\ \A p \in Providers : ActiveIsOwn(p)'
<1>0. /\ activeFlow \in [Providers -> Flows \cup {NoFlow}] /\ NoFlow \notin Flows
      /\ \A f \in Flows : Prov(f) \in Providers /\ flow'[f].phase \in Phases
      /\ \A f \in Flows : FlowIsTracked(f) /\ StartIsAlone(f)
      /\ \A p \in Providers : ActiveIsOwn(p)
  BY AuthAssumption DEF AuthInv, AuthStates, FlowRecord, Prov
<1>1. ASSUME NEW f \in Flows PROVE FlowIsTracked(f)'
  <2> SUFFICES ASSUME LiveFlow(f)', flow'[f].phase # "starting"
               PROVE  activeFlow'[Prov(f)'] = f
    BY DEF FlowIsTracked
  <2>1. flow'[f].phase # "done" BY DEF LiveFlow
  <2>2. LiveFlow(f) /\ Prov(f)' = Prov(f) BY MovesBack
  <2>3. flow[f].phase # "starting"
    BY <2>1 DEF Moves
  <2>4. activeFlow[Prov(f)] = f BY <1>0, <2>2, <2>3 DEF FlowIsTracked
  <2> QED BY <1>0, <2>1, <2>2, <2>4 DEF Forgets
<1>2. ASSUME NEW f \in Flows PROVE StartIsAlone(f)'
  <2> SUFFICES ASSUME flow'[f].phase = "starting"
               PROVE  /\ ~IsActive(Prov(f))'
                      /\ \A g \in Flows : flow'[g].phase = "starting" => g = f
    BY DEF StartIsAlone
  <2>1. flow[f].phase = "starting" /\ Prov(f)' = Prov(f) BY MovesBack
  <2>2. \A g \in Flows : flow'[g].phase = "starting" => g = f
    BY <1>0, <2>1, MovesBack DEF StartIsAlone
  <2>3. ~IsActive(Prov(f)) BY <1>0, <2>1 DEF StartIsAlone
  <2>4. ~IsActive(Prov(f))'
    <3> DEFINE p == Prov(f)
               g == activeFlow[p]
    <3>1. CASE activeFlow'[p] = NoFlow BY <2>1, <3>1 DEF IsActive
    <3>2. CASE activeFlow'[p] # NoFlow
      <4>1. activeFlow'[p] = g /\ g \in Flows BY <1>0, <3>2 DEF Forgets
      <4>2. ~LiveFlow(g) BY <2>3, <4>1, <3>2 DEF IsActive
      <4>3. ~LiveFlow(g)' BY <4>1, <4>2, MovesBack
      <4> QED BY <2>1, <4>1, <4>3 DEF IsActive, LiveFlow
    <3> QED BY <3>1, <3>2
  <2> QED BY <2>2, <2>4
<1>3. ASSUME NEW p \in Providers PROVE ActiveIsOwn(p)'
  <2> SUFFICES ASSUME activeFlow'[p] # NoFlow
               PROVE  flow'[activeFlow'[p]].provider = p /\ flow'[activeFlow'[p]].phase # "new"
    BY DEF ActiveIsOwn, Prov
  <2>1. activeFlow'[p] = activeFlow[p] /\ activeFlow[p] \in Flows BY <1>0 DEF Forgets
  <2>2. Prov(activeFlow[p]) = p /\ flow[activeFlow[p]].phase # "new"
    BY <1>0, <2>1 DEF ActiveIsOwn
  <2> QED BY <2>1, <2>2, MovesBack DEF Prov
<1> QED BY <1>1, <1>2, <1>3

LEMMA PendingKept ==
  ASSUME AuthInv, AuthStates', Moves, Pends
  PROVE  \A f \in Flows : PendingIsFollowed(f)'
<1> SUFFICES ASSUME NEW f \in Flows, onthespot'[f] = "pending"
             PROVE  LiveFlow(f)' /\ flow'[f].phase # "starting" /\ ByDevice(Prov(f))'
  BY DEF PendingIsFollowed
<1>1. LiveFlow(f) /\ flow[f].phase # "starting" /\ ByDevice(Prov(f))
  BY DEF AuthInv, PendingIsFollowed, Pends
<1>2. Prov(f)' = Prov(f) BY MovesBack
<1>3. flow'[f].phase \notin {"new", "starting"} BY <1>1, MovesBack DEF LiveFlow
<1>4. flow'[f].phase # "done" BY <1>1 DEF Pends, LiveFlow
<1> QED BY <1>1, <1>2, <1>3, <1>4 DEF LiveFlow, ByDevice

LEMMA CancelKept ==
  ASSUME AuthInv, AuthStates', Moves, Pends, NEW p \in Providers, cancelOp'[p] = cancelOp[p]
  PROVE  CancelIsOrdered(p)'
<1> SUFFICES ASSUME cancelOp[p].phase # "idle" PROVE CancelIsOrdered(p)'
  BY DEF CancelIsOrdered
<1> DEFINE f == cancelOp[p].flow
<1>1. /\ f \in Flows /\ Prov(f) = p /\ flow[f].phase \notin {"new", "starting"}
      /\ cancelOp[p].phase \in {"stopping", "recording"} => onthespot[f] # "pending"
      /\ cancelOp[p].phase = "recording" => flow[f].phase = "done"
  BY DEF AuthInv, CancelIsOrdered
<1>2. Prov(f)' = p /\ flow'[f].phase \notin {"new", "starting"} BY <1>1, MovesBack
<1>3. cancelOp[p].phase \in {"stopping", "recording"} => onthespot'[f] # "pending"
  BY <1>1 DEF Pends
<1>4. cancelOp[p].phase = "recording" => flow'[f].phase = "done" BY <1>1, MovesBack
<1> QED BY <1>1, <1>2, <1>3, <1>4 DEF CancelIsOrdered, Prov

LEMMA ResetKept ==
  ASSUME AuthInv, AuthStates', Moves, Writes, NEW p \in Providers, reset'[p] = reset[p],
         reset[p].phase = "cancelling" =>
           cancelOp'[p].phase # "idle" /\ cancelOp'[p].flow = cancelOp[p].flow
  PROVE  ResetIsOrdered(p)'
<1>0. ResetIsOrdered(p) /\ reset[p].old \subseteq Flows
  BY DEF AuthInv, AuthStates, ResetRecord
<1>1. ASSUME NEW f \in reset[p].old
      PROVE  /\ flow'[f].phase # "new" /\ Prov(f)' = Prov(f)
             /\ LiveFlow(f)' => LiveFlow(f)
  BY <1>0, MovesBack DEF ResetIsOrdered
<1>2. reset[p].phase \in {"verifying", "disconnected"} => saved'[p] \cap reset[p].old = {}
  BY <1>0 DEF ResetIsOrdered, Writes
<1> QED BY <1>0, <1>1, <1>2 DEF ResetIsOrdered

LEMMA CancelledKept ==
  ASSUME AuthInv, AuthStates', Moves,
         \A f \in cancelled' : f \in cancelled \/ flow'[f].phase = "done"
  PROVE  CancelledHasEnded'
<1>1. \A f \in cancelled : f \in Flows /\ flow[f].phase = "done"
  BY DEF AuthInv, AuthStates, CancelledHasEnded
<1> QED BY <1>1, MovesBack DEF CancelledHasEnded

(* The caller whose turn it is still wants it.                             *)
LEMMA WantedKept ==
  ASSUME AuthInv, AuthStates', ipc' = ipc,
         \A f \in Flows : ipc = FlowCall(f) => flow'[f] = flow[f],
         \A p \in Providers : ipc = CancelCall(p) => cancelOp'[p] = cancelOp[p],
         \A p \in Providers : ipc = ResetCall(p) => reset'[p] = reset[p]
  PROVE  CallIsWanted'
<1> SUFFICES ASSUME ipc # Idle PROVE Wants(ipc)' BY DEF CallIsWanted
<1>1. ipc \in Callers /\ Wants(ipc) BY DEF AuthInv, AuthStates, CallIsWanted
<1>2. ASSUME NEW f \in Flows, ipc = FlowCall(f) PROVE Wants(ipc)'
  <2>1. ipc.who = "flow" /\ ipc.id = f /\ ipc'.who = "flow" /\ ipc'.id = f BY <1>2, CallersDiffer
  <2>2. flow'[f] = flow[f] BY <1>2
  <2> QED BY <1>1, <2>1, <2>2 DEF Wants
<1>3. ASSUME NEW p \in Providers, ipc = CancelCall(p) PROVE Wants(ipc)'
  <2>1. ipc.who = "cancel" /\ ipc.id = p /\ ipc'.who = "cancel" /\ ipc'.id = p
    BY <1>3, CallersDiffer
  <2>2. cancelOp'[p] = cancelOp[p] BY <1>3
  <2> QED BY <1>1, <2>1, <2>2 DEF Wants
<1>4. ASSUME NEW p \in Providers, ipc = ResetCall(p) PROVE Wants(ipc)'
  <2>1. ipc.who = "reset" /\ ipc.id = p /\ ipc'.who = "reset" /\ ipc'.id = p
    BY <1>4, CallersDiffer
  <2>2. reset'[p] = reset[p] BY <1>4
  <2> QED BY <1>1, <2>1, <2>2 DEF Wants
<1> QED BY <1>1, <1>2, <1>3, <1>4, CallersDiffer

(* Every step keeps the invariant, and what has ended or was reported as   *)
(* cancelled is final.                                                     *)
FinalStep == AuthInv' /\ StaysEnded /\ StaysCancelled

LEMMA FinalKept ==
  ASSUME AuthInv, AuthInv', Moves, Writes
  PROVE  FinalStep
BY DEF FinalStep, Moves, Writes, StaysEnded, StaysCancelled, AuthInv, CancelledHasEnded, LiveFlow

(* A step of this kind keeps the invariant when what it changes itself is  *)
(* in order.                                                               *)
LEMMA StepKept ==
  ASSUME AuthInv, AuthStates', Moves, Forgets, Pends, Writes,
         \A f \in Flows : FlowIsFormed(f)',
         \A p \in Providers : cancelOp'[p] = cancelOp[p] \/ CancelIsOrdered(p)',
         \A p \in Providers :
           \/ reset'[p] = reset[p]
              /\ (reset[p].phase = "cancelling" =>
                    cancelOp'[p].phase # "idle" /\ cancelOp'[p].flow = cancelOp[p].flow)
           \/ ResetIsOrdered(p)',
         \A f \in cancelled' : f \in cancelled \/ flow'[f].phase = "done",
         CallIsWanted'
  PROVE  FinalStep
<1>1. \A p \in Providers : CancelIsOrdered(p)' BY CancelKept
<1>2. \A p \in Providers : ResetIsOrdered(p)' BY ResetKept
<1>3. CancelledHasEnded' BY CancelledKept
<1>4. \A f \in Flows : PendingIsFollowed(f)' BY PendingKept
<1> QED BY <1>1, <1>2, <1>3, <1>4, TrackedKept, FinalKept DEF AuthInv

FlowBecomes(f, ph, r) ==
  /\ flow' \in [Flows -> FlowRecord]
  /\ flow'[f].provider = flow[f].provider /\ flow'[f].phase = ph /\ flow'[f].result = r
  /\ \A g \in Flows : g # f => flow'[g] = flow[g]

LEMMA FlowRecords ==
  ASSUME NEW r0 \in FlowRecord, NEW ph \in Phases, NEW r \in Results
  PROVE  /\ [r0 EXCEPT !.phase = ph] \in FlowRecord
         /\ [r0 EXCEPT !.phase = ph].provider = r0.provider
         /\ [r0 EXCEPT !.phase = ph].phase = ph
         /\ [r0 EXCEPT !.phase = ph].result = r0.result
         /\ [r0 EXCEPT !.result = r, !.phase = ph] = [r0 EXCEPT !.phase = ph, !.result = r]
BY DEF FlowRecord

LEMMA WithPhaseBecomes ==
  ASSUME AuthInv, NEW f \in Flows, NEW ph \in Phases, flow' = WithPhase(f, ph)
  PROVE  FlowBecomes(f, ph, flow[f].result)
<1>1. flow \in [Flows -> FlowRecord] /\ flow[f] \in FlowRecord BY DEF AuthInv, AuthStates
<1> DEFINE r == [flow[f] EXCEPT !.phase = ph]
<1>2. flow' = [flow EXCEPT ![f] = r] BY DEF WithPhase
<1>3. "none" \in Results BY DEF Results
<1>4. /\ r \in FlowRecord /\ r.provider = flow[f].provider /\ r.phase = ph
      /\ r.result = flow[f].result
  BY <1>1, <1>3, FlowRecords
<1> HIDE DEF r
<1> QED BY <1>1, <1>2, <1>4 DEF FlowBecomes

LEMMA EndedBecomes ==
  ASSUME AuthInv, NEW f \in Flows, NEW ph \in Phases, NEW s \in Results,
         \/ flow' = [flow EXCEPT ![f].phase = ph, ![f].result = s]
         \/ flow' = [flow EXCEPT ![f].result = s, ![f].phase = ph]
  PROVE  FlowBecomes(f, ph, s)
<1>1. flow \in [Flows -> FlowRecord] /\ flow[f] \in FlowRecord BY DEF AuthInv, AuthStates
<1> DEFINE old == flow[f]
           r == [old EXCEPT !.phase = ph, !.result = s]
<1>2. old \in FlowRecord BY <1>1
<1>3. flow' = [flow EXCEPT ![f] = r]
  <2>1. [old EXCEPT !.result = s, !.phase = ph] = r
    <3> HIDE DEF old
    <3> QED BY <1>2, FlowRecords
  <2>2. \/ flow' = [flow EXCEPT ![f] = [old EXCEPT !.phase = ph, !.result = s]]
        \/ flow' = [flow EXCEPT ![f] = [old EXCEPT !.result = s, !.phase = ph]]
    BY <1>1
  <2> QED BY <2>1, <2>2
<1>4. r \in FlowRecord /\ r.provider = old.provider /\ r.phase = ph /\ r.result = s
  <2> HIDE DEF old
  <2> QED BY <1>2 DEF FlowRecord
<1> HIDE DEF r
<1> QED BY <1>1, <1>3, <1>4 DEF FlowBecomes

LEMMA ConcludeBecomes ==
  ASSUME AuthInv, NEW f \in Flows, NEW s \in Results, Conclude(f, s)
  PROVE  FlowBecomes(f, IF ByDevice(Prov(f)) THEN "releasing" ELSE "settling", s)
<1> DEFINE ph == IF ByDevice(Prov(f)) THEN "releasing" ELSE "settling"
<1>1. ph \in Phases BY DEF Phases
<1>2. flow' = [flow EXCEPT ![f].result = s, ![f].phase = ph] BY DEF Conclude
<1> HIDE DEF ph
<1>3. FlowBecomes(f, ph, s) BY <1>1, <1>2, EndedBecomes
<1> QED BY <1>3 DEF ph

(* What the new phase of one flow has to be like.                          *)
FitPhase(f, ph, r) ==
  /\ flow[f].phase \notin {"new", "done"} /\ ph \notin {"new", "starting"}
  /\ flow[f].phase = "starting" => ph = "done"
  /\ r # "none" <=> ph \in {"releasing", "settling", "done"}
  /\ ph \in {"starting", "waiting", "polling", "releasing"} => ByDevice(Prov(f))
  /\ ph \in {"open", "authorizing", "settling"} => ~ByDevice(Prov(f))

LEMMA BecomesMoves ==
  ASSUME AuthInv, NEW f \in Flows, NEW ph, NEW r, FlowBecomes(f, ph, r), FitPhase(f, ph, r)
  PROVE  Moves /\ \A g \in Flows : FlowIsFormed(g)'
<1>1. Moves BY DEF FlowBecomes, FitPhase, Moves
<1>2. ASSUME NEW g \in Flows PROVE FlowIsFormed(g)'
  <2>1. FlowIsFormed(g) BY DEF AuthInv
  <2>2. CASE g = f BY <2>2 DEF FlowBecomes, FitPhase, FlowIsFormed, Prov, ByDevice
  <2>3. CASE g # f BY <2>1, <2>3 DEF FlowBecomes, FlowIsFormed, Prov, ByDevice
  <2> QED BY <2>2, <2>3
<1> QED BY <1>1, <1>2

LEMMA CallWants ==
  ASSUME AuthInv, NEW f \in Flows, ipc = FlowCall(f)
  PROVE  flow[f].phase \in {"starting", "polling", "authorizing", "reloading", "checking",
                            "releasing"}
<1>1. ipc.who = "flow" /\ ipc.id = f /\ ipc # Idle BY CallersDiffer
<1>2. Wants(ipc) BY <1>1 DEF AuthInv, CallIsWanted
<1> QED BY <1>1, <1>2 DEF Wants

LEMMA CancelWants ==
  ASSUME AuthInv, NEW p \in Providers, ipc = CancelCall(p)
  PROVE  cancelOp[p].phase = "child"
<1>1. ipc.who = "cancel" /\ ipc.id = p /\ ipc # Idle BY CallersDiffer
<1>2. Wants(ipc) BY <1>1 DEF AuthInv, CallIsWanted
<1> QED BY <1>1, <1>2 DEF Wants

LEMMA ResetWants ==
  ASSUME AuthInv, NEW p \in Providers, ipc = ResetCall(p)
  PROVE  reset[p].phase \in {"resetting", "verifying"}
<1>1. ipc.who = "reset" /\ ipc.id = p /\ ipc # Idle BY CallersDiffer
<1>2. Wants(ipc) BY <1>1 DEF AuthInv, CallIsWanted
<1> QED BY <1>1, <1>2 DEF Wants

(* A step of one flow in which the child has no part.                      *)
LEMMA QuietStep ==
  ASSUME AuthInv, NEW f \in Flows, NEW ph, NEW r, FlowBecomes(f, ph, r), FitPhase(f, ph, r),
         flow[f].phase \in {"waiting", "settling", "open"}, flow[f].phase = "waiting" => ph # "done",
         UNCHANGED <<activeFlow, cancelOp, reset, process, ipc, faults, cancelled>>,
         msg' \in [Messages -> MessageRecord]
  PROVE  FinalStep
<1>1. AuthStates' BY DEF AuthInv, AuthStates, process, FlowBecomes
<1>2. Moves /\ \A g \in Flows : FlowIsFormed(g)' BY BecomesMoves
<1>3. Forgets BY DEF Forgets
<1>4. Pends
  <2>1. FlowIsFormed(f) /\ PendingIsFollowed(f) BY DEF AuthInv
  <2>2. onthespot[f] = "pending" => flow[f].phase = "waiting"
    BY <2>1 DEF FlowIsFormed, PendingIsFollowed
  <2> QED BY <2>2 DEF Pends, process, FlowBecomes
<1>5. Writes BY DEF Writes, process
<1>6. CallIsWanted'
  <2>1. ipc # FlowCall(f) BY CallWants
  <2> QED BY <1>1, <2>1, WantedKept DEF FlowBecomes
<1>7. \A p \in Providers :
        /\ reset'[p] = reset[p] /\ cancelOp'[p] = cancelOp[p]
        /\ reset[p].phase = "cancelling" => cancelOp[p].phase # "idle"
  BY DEF AuthInv, ResetIsOrdered
<1> QED BY <1>1, <1>2, <1>3, <1>4, <1>5, <1>6, <1>7, StepKept

LEMMA PollKeeps ==
  ASSUME AuthInv, NEW f \in Flows, Poll(f)
  PROVE  FinalStep
<1>1. FlowBecomes(f, "polling", flow[f].result) BY WithPhaseBecomes DEF Poll, Phases
<1>2. FitPhase(f, "polling", flow[f].result)
  BY DEF AuthInv, FlowIsFormed, FitPhase, Poll
<1> QED BY <1>1, <1>2, QuietStep DEF Poll, room, AuthInv, AuthStates

LEMMA ExpireKeeps ==
  ASSUME AuthInv, NEW f \in Flows, Expire(f)
  PROVE  FinalStep
<1>1. ByDevice(Prov(f)) BY DEF AuthInv, FlowIsFormed, Expire
<1>2. FlowBecomes(f, "releasing", "FAILED") BY <1>1, ConcludeBecomes DEF Expire, Results
<1>3. FitPhase(f, "releasing", "FAILED") BY <1>1 DEF FitPhase, Expire
<1> QED BY <1>2, <1>3, QuietStep DEF Expire, room, AuthInv, AuthStates

LEMMA SettleKeeps ==
  ASSUME AuthInv, NEW f \in Flows, SettleFlow(f)
  PROVE  FinalStep
<1>1. FlowBecomes(f, "done", flow[f].result) BY WithPhaseBecomes DEF SettleFlow, Phases
<1>2. FitPhase(f, "done", flow[f].result) BY DEF AuthInv, FlowIsFormed, FitPhase, SettleFlow
<1> QED BY <1>1, <1>2, QuietStep DEF SettleFlow, room, AuthInv, AuthStates

LEMMA ReleaseKeeps ==
  ASSUME AuthInv, NEW f \in Flows, ReleaseFlow(f)
  PROVE  FinalStep
<1>1. AuthStates' BY DEF AuthInv, AuthStates, process, room, ReleaseFlow
<1>2. Moves /\ \A g \in Flows : FlowIsFormed(g)'
  BY DEF Moves, ReleaseFlow, AuthInv, FlowIsFormed, Prov, ByDevice
<1>3. Forgets BY DEF Forgets, ReleaseFlow, AuthInv, AuthStates
<1>4. Pends /\ Writes BY DEF Pends, Writes, process, ReleaseFlow
<1>5. CallIsWanted' BY <1>1, WantedKept DEF ReleaseFlow
<1>6. \A p \in Providers :
        /\ reset'[p] = reset[p] /\ cancelOp'[p] = cancelOp[p]
        /\ reset[p].phase = "cancelling" => cancelOp[p].phase # "idle"
  BY DEF AuthInv, ResetIsOrdered, ReleaseFlow
<1> QED BY <1>1, <1>2, <1>3, <1>4, <1>5, <1>6, StepKept DEF ReleaseFlow

-----------------------------------------------------------------------------
(* The steps in which no flow moves and the child takes no part.           *)

LEMMA NothingMoves ==
  ASSUME AuthInv, UNCHANGED <<flow, activeFlow, process>>
  PROVE  Moves /\ Forgets /\ Pends /\ Writes /\ \A f \in Flows : FlowIsFormed(f)'
<1>1. Moves /\ Forgets /\ Pends /\ Writes BY DEF Moves, Forgets, Pends, Writes, process
<1>2. \A f \in Flows : FlowIsFormed(f)' BY DEF AuthInv, FlowIsFormed, Prov, ByDevice
<1> QED BY <1>1, <1>2

LEMMA TableKept ==
  ASSUME AuthInv, UNCHANGED <<cancelOp, reset>>
  PROVE  \A p \in Providers :
           /\ reset'[p] = reset[p] /\ cancelOp'[p] = cancelOp[p]
           /\ (reset[p].phase = "cancelling" =>
                 cancelOp'[p].phase # "idle" /\ cancelOp'[p].flow = cancelOp[p].flow)
BY DEF AuthInv, ResetIsOrdered

LEMMA RoomKeeps ==
  ASSUME AuthInv, msg' \in [Messages -> MessageRecord],
         UNCHANGED <<flow, activeFlow, cancelOp, reset, process, ipc, faults, cancelled>>
  PROVE  FinalStep
<1>1. AuthStates' BY DEF AuthInv, AuthStates, process
<1>2. CallIsWanted' BY <1>1, WantedKept
<1> QED BY <1>1, <1>2, NothingMoves, TableKept, StepKept

LEMMA MessageRecords ==
  ASSUME NEW m \in Messages, msg \in [Messages -> MessageRecord],
         NEW ph \in {"unsent", "routed", "claimed", "submitted", "handled"},
         msg' = [msg EXCEPT ![m].phase = ph]
  PROVE  msg' \in [Messages -> MessageRecord]
<1> DEFINE r == [msg[m] EXCEPT !.phase = ph]
<1>1. r \in MessageRecord BY DEF MessageRecord
<1>2. msg' = [msg EXCEPT ![m] = r] OBVIOUS
<1> HIDE DEF r
<1> QED BY <1>1, <1>2

LEMMA RouteKeeps ==
  ASSUME AuthInv, NEW m \in Messages, Route(m)
  PROVE  FinalStep
<1>0. msg \in [Messages -> MessageRecord] BY DEF AuthInv, AuthStates
<1> DEFINE open == {f \in Flows : IsOpen(f)}
           asked == IF chat.expected # NoFlow THEN open \cap {chat.expected} ELSE open
           r == [phase |-> "routed", flow |-> CHOOSE f \in asked : TRUE]
<1>1. CASE Cardinality(asked) = 1
  <2>1. asked # {} BY <1>1, FS_EmptySet
  <2>2. (CHOOSE f \in asked : TRUE) \in Flows BY <2>1
  <2>3. r \in MessageRecord BY <2>2 DEF MessageRecord
  <2>4. msg' = [msg EXCEPT ![m] = r] BY <1>1 DEF Route
  <2> HIDE DEF r
  <2>5. msg' \in [Messages -> MessageRecord] BY <1>0, <2>3, <2>4
  <2> QED BY <2>5, RoomKeeps DEF Route
<1>2. CASE Cardinality(asked) # 1
  <2>1. msg' = [msg EXCEPT ![m].phase = "handled"] BY <1>2 DEF Route
  <2>2. msg' \in [Messages -> MessageRecord] BY <1>0, <2>1, MessageRecords
  <2> QED BY <2>2, RoomKeeps DEF Route
<1> QED BY <1>1, <1>2

LEMMA RecheckKeeps ==
  ASSUME AuthInv, NEW m \in Messages, Recheck(m)
  PROVE  FinalStep
<1>1. msg \in [Messages -> MessageRecord] BY DEF AuthInv, AuthStates
<1>2. msg' \in [Messages -> MessageRecord] BY <1>1, MessageRecords DEF Recheck
<1> QED BY <1>2, RoomKeeps DEF Recheck

LEMMA HandledKeeps ==
  ASSUME AuthInv, NEW m \in Messages, Handled(m)
  PROVE  FinalStep
<1>1. msg \in [Messages -> MessageRecord] BY DEF AuthInv, AuthStates
<1>2. msg' \in [Messages -> MessageRecord] BY <1>1, MessageRecords DEF Handled
<1> QED BY <1>2, RoomKeeps DEF Handled

LEMMA SubmitKeeps ==
  ASSUME AuthInv, NEW m \in Messages, SubmitSecret(m)
  PROVE  FinalStep
<1> DEFINE f == msg[m].flow
<1>1. msg \in [Messages -> MessageRecord] BY DEF AuthInv, AuthStates
<1>2. msg' \in [Messages -> MessageRecord] BY <1>1, MessageRecords DEF SubmitSecret
<1>3. CASE IsOpen(f)
  <2>1. f \in Flows BY <1>1, <1>3 DEF MessageRecord, IsOpen
  <2>2. flow[f].phase = "open" BY <1>3 DEF IsOpen
  <2>3. FlowBecomes(f, "authorizing", flow[f].result)
    BY <1>3, <2>1, WithPhaseBecomes DEF SubmitSecret, Accepts, Phases
  <2>4. FitPhase(f, "authorizing", flow[f].result)
    BY <2>1, <2>2 DEF AuthInv, FlowIsFormed, FitPhase
  <2> QED BY <1>2, <2>1, <2>2, <2>3, <2>4, QuietStep DEF SubmitSecret
<1>4. CASE ~IsOpen(f)
  BY <1>2, <1>4, RoomKeeps DEF SubmitSecret, Accepts
<1> QED BY <1>3, <1>4

(* A secret nothing was submitted for ends: cancelled or rejected.         *)
LEMMA OpenEnds ==
  ASSUME AuthInv, NEW f \in Flows, NEW p \in Providers, NEW r \in {"CANCELLED", "FAILED"},
         flow[f].phase = "open", activeFlow[p] = f,
         flow' = Ended(f, r), activeFlow' = [activeFlow EXCEPT ![p] = NoFlow],
         UNCHANGED process
  PROVE  /\ flow' \in [Flows -> FlowRecord] /\ activeFlow' \in [Providers -> Flows \cup {NoFlow}]
         /\ flow'[f].phase = "done" /\ \A g \in Flows : g # f => flow'[g] = flow[g]
         /\ Moves /\ Forgets /\ Pends /\ Writes /\ \A g \in Flows : FlowIsFormed(g)'
         /\ ipc # FlowCall(f)
<1>1. FlowBecomes(f, "done", r) BY EndedBecomes DEF Ended, Phases, Results
<1>2. FitPhase(f, "done", r) BY DEF FitPhase
<1>3. Moves /\ \A g \in Flows : FlowIsFormed(g)' BY <1>1, <1>2, BecomesMoves
<1>4. Forgets BY <1>1 DEF AuthInv, AuthStates, Forgets, FlowBecomes
<1>5. onthespot[f] # "pending" BY DEF AuthInv, FlowIsFormed, PendingIsFollowed
<1>6. Pends BY <1>1, <1>5 DEF Pends, FlowBecomes, process
<1>7. Writes BY DEF Writes, process
<1>8. ipc # FlowCall(f) BY CallWants
<1>9. activeFlow' \in [Providers -> Flows \cup {NoFlow}] BY DEF AuthInv, AuthStates
<1> QED BY <1>1, <1>3, <1>4, <1>6, <1>7, <1>8, <1>9 DEF FlowBecomes

LEMMA RejectKeeps ==
  ASSUME AuthInv, NEW m \in Messages, RejectSecret(m)
  PROVE  FinalStep
<1> DEFINE f == msg[m].flow
<1>1. msg \in [Messages -> MessageRecord] BY DEF AuthInv, AuthStates
<1>2. msg' \in [Messages -> MessageRecord] BY <1>1, MessageRecords DEF RejectSecret
<1>3. CASE IsOpen(f)
  <2>1. f \in Flows /\ flow[f].phase = "open" /\ activeFlow[Prov(f)] = f
    BY <1>1, <1>3 DEF MessageRecord, IsOpen
  <2>2. Prov(f) \in Providers BY <2>1 DEF AuthInv, AuthStates, FlowRecord, Prov
  <2>3. flow' = Ended(f, "FAILED") /\ activeFlow' = [activeFlow EXCEPT ![Prov(f)] = NoFlow]
    BY <1>3 DEF RejectSecret, FailInput
  <2>4. UNCHANGED <<process, cancelOp, reset, ipc, faults, cancelled>> BY DEF RejectSecret
  <2>5. /\ flow' \in [Flows -> FlowRecord]
        /\ activeFlow' \in [Providers -> Flows \cup {NoFlow}]
        /\ \A g \in Flows : g # f => flow'[g] = flow[g]
        /\ Moves /\ Forgets /\ Pends /\ Writes /\ \A g \in Flows : FlowIsFormed(g)'
        /\ ipc # FlowCall(f)
    BY <2>1, <2>2, <2>3, <2>4, OpenEnds
  <2>6. AuthStates' BY <1>2, <2>4, <2>5 DEF AuthInv, AuthStates, process
  <2>7. CallIsWanted' BY <2>4, <2>5, <2>6, WantedKept
  <2> QED BY <2>4, <2>5, <2>6, <2>7, TableKept, StepKept
<1>4. CASE ~IsOpen(f)
  BY <1>2, <1>4, RoomKeeps DEF RejectSecret, FailInput
<1> QED BY <1>3, <1>4

LEMMA BeginKeeps ==
  ASSUME AuthInv, NEW c \in Callers, Begin(c)
  PROVE  FinalStep
<1>1. AuthStates' BY DEF AuthInv, AuthStates, process, room, Begin
<1>2. CallIsWanted' BY DEF Begin, CallIsWanted, Wants
<1>3. UNCHANGED <<flow, activeFlow, process, cancelOp, reset, cancelled>> BY DEF Begin
<1> QED BY <1>1, <1>2, <1>3, NothingMoves, TableKept, StepKept

-----------------------------------------------------------------------------
(* The steps of the coordinator.                                           *)

(* A flow of a provider begins when no other one of it is active.          *)
LEMMA StartKeeps ==
  ASSUME AuthInv, NEW f \in Flows, NEW p \in Providers,
         StartDevice(f, p) \/ StartSensitive(f, p)
  PROVE  FinalStep
<1> DEFINE ph == IF ByDevice(p) THEN "starting" ELSE "open"
           r == [provider |-> p, phase |-> ph, result |-> "none"]
<1>1. /\ Begun(f, p, ph)
      /\ IF ByDevice(p) THEN activeFlow' = activeFlow
                        ELSE activeFlow' = [activeFlow EXCEPT ![p] = f]
  BY DEF StartDevice, StartSensitive
<1>2. flow' = [flow EXCEPT ![f] = r] BY <1>1 DEF Begun
<1>3. ph \in Phases /\ r \in FlowRecord BY DEF Phases, Results, FlowRecord
<1>4. r.provider = p /\ r.phase = ph /\ r.result = "none" OBVIOUS
<1>5. ph = IF ByDevice(p) THEN "starting" ELSE "open" OBVIOUS
<1> HIDE DEF r, ph
<1>6. /\ Unlocked /\ flow[f].phase = "new" /\ ~IsActive(p)
      /\ UNCHANGED <<cancelOp, reset, process, ipc, faults, msg, cancelled>>
  BY <1>1 DEF Begun
<1>7. /\ flow \in [Flows -> FlowRecord] /\ flow' \in [Flows -> FlowRecord]
      /\ flow'[f] = r /\ \A g \in Flows : g # f => flow'[g] = flow[g]
  BY <1>2, <1>3 DEF AuthInv, AuthStates
<1>8. /\ activeFlow \in [Providers -> Flows \cup {NoFlow}] /\ NoFlow \notin Flows
      /\ activeFlow' \in [Providers -> Flows \cup {NoFlow}]
      /\ \A q \in Providers : q # p => activeFlow'[q] = activeFlow[q]
      /\ activeFlow'[p] = IF ByDevice(p) THEN activeFlow[p] ELSE f
  BY <1>1, AuthAssumption DEF AuthInv, AuthStates
<1>9. AuthStates' BY <1>6, <1>7, <1>8 DEF AuthInv, AuthStates, process
<1>10. \A q \in Providers : activeFlow[q] # f
  BY <1>6, <1>8 DEF AuthInv, ActiveIsOwn
<1>11. ASSUME NEW g \in Flows PROVE FlowIsFormed(g)'
  <2>1. FlowIsFormed(g) BY DEF AuthInv
  <2>2. CASE g = f BY <1>4, <1>5, <1>7, <2>2 DEF FlowIsFormed, Prov, ByDevice
  <2>3. CASE g # f BY <1>7, <2>1, <2>3 DEF FlowIsFormed, Prov, ByDevice
  <2> QED BY <2>2, <2>3
<1>12. ASSUME NEW g \in Flows PROVE FlowIsTracked(g)'
  <2>1. FlowIsTracked(g) BY DEF AuthInv
  <2>2. CASE g = f
    BY <1>4, <1>5, <1>7, <1>8, <2>2 DEF FlowIsTracked, Prov
  <2>3. CASE g # f
    <3> SUFFICES ASSUME LiveFlow(g)' PROVE activeFlow'[Prov(g)'] = g BY DEF FlowIsTracked
    <3>1. LiveFlow(g) /\ Prov(g)' = Prov(g) BY <1>7, <2>3 DEF LiveFlow, Prov
    <3>2. activeFlow[Prov(g)] = g BY <1>6, <2>1, <3>1 DEF FlowIsTracked, Unlocked
    <3>3. Prov(g) # p BY <1>6, <1>8, <3>1, <3>2 DEF IsActive
    <3>4. Prov(g) \in Providers BY <1>7 DEF FlowRecord, Prov
    <3> QED BY <1>8, <3>1, <3>2, <3>3, <3>4
  <2> QED BY <2>2, <2>3
<1>13. ASSUME NEW g \in Flows PROVE StartIsAlone(g)'
  <2> SUFFICES ASSUME flow'[g].phase = "starting"
               PROVE  /\ ~IsActive(Prov(g))'
                      /\ \A h \in Flows : flow'[h].phase = "starting" => h = g
    BY DEF StartIsAlone
  <2>1. g = f /\ \A h \in Flows : flow'[h].phase = "starting" => h = f
    BY <1>6, <1>7 DEF Unlocked
  <2>2. ByDevice(p) /\ Prov(f)' = p BY <1>4, <1>5, <1>7, <2>1 DEF Prov
  <2>3. activeFlow'[p] = activeFlow[p] BY <1>8, <2>2
  <2>4. activeFlow[p] # NoFlow => flow'[activeFlow[p]] = flow[activeFlow[p]]
    BY <1>7, <1>8, <1>10
  <2>5. ~IsActive(p)' BY <1>6, <2>3, <2>4 DEF IsActive, LiveFlow
  <2> QED BY <2>1, <2>2, <2>5
<1>14. ASSUME NEW q \in Providers PROVE ActiveIsOwn(q)'
  <2>1. ActiveIsOwn(q) BY DEF AuthInv
  <2>2. CASE activeFlow'[q] = activeFlow[q]
    <3>1. activeFlow[q] # NoFlow => flow'[activeFlow[q]] = flow[activeFlow[q]]
      BY <1>7, <1>8, <1>10
    <3> QED BY <2>1, <2>2, <3>1 DEF ActiveIsOwn, Prov
  <2>3. CASE activeFlow'[q] # activeFlow[q]
    BY <1>4, <1>5, <1>7, <1>8, <2>3 DEF ActiveIsOwn, Prov
  <2> QED BY <2>2, <2>3
<1>15. ASSUME NEW g \in Flows PROVE PendingIsFollowed(g)'
  <2>1. PendingIsFollowed(g) /\ onthespot' = onthespot BY <1>6 DEF AuthInv, process
  <2>2. onthespot[g] = "pending" => g # f BY <1>6, <2>1 DEF PendingIsFollowed, LiveFlow
  <2> QED BY <1>7, <2>1, <2>2 DEF PendingIsFollowed, LiveFlow, Prov, ByDevice
<1>16. ASSUME NEW q \in Providers PROVE CancelIsOrdered(q)'
  <2>1. CancelIsOrdered(q) /\ onthespot' = onthespot /\ cancelOp' = cancelOp
    BY <1>6 DEF AuthInv, process
  <2>2. cancelOp[q].phase # "idle" =>
          cancelOp[q].flow # f /\ flow'[cancelOp[q].flow] = flow[cancelOp[q].flow]
    BY <1>6, <1>7, <2>1 DEF CancelIsOrdered
  <2> QED BY <2>1, <2>2 DEF CancelIsOrdered, Prov
<1>17. ASSUME NEW q \in Providers PROVE ResetIsOrdered(q)'
  <2>1. /\ ResetIsOrdered(q) /\ cancelOp' = cancelOp /\ reset' = reset /\ saved' = saved
        /\ reset[q].old \subseteq Flows
    BY <1>6 DEF AuthInv, AuthStates, ResetRecord, process
  <2>2. \A g \in reset[q].old : g # f /\ flow'[g] = flow[g]
    BY <1>6, <1>7, <2>1 DEF ResetIsOrdered
  <2> QED BY <2>1, <2>2 DEF ResetIsOrdered, Prov, LiveFlow
<1>18. CancelledHasEnded'
  BY <1>6, <1>7 DEF AuthInv, AuthStates, CancelledHasEnded
<1>19. CallIsWanted'
  <2>1. ipc # FlowCall(f) BY <1>6, CallWants
  <2> QED BY <1>6, <1>7, <1>9, <2>1, WantedKept
<1>20. AuthInv'
  BY <1>9, <1>11, <1>12, <1>13, <1>14, <1>15, <1>16, <1>17, <1>18, <1>19 DEF AuthInv
<1> QED BY <1>6, <1>7, <1>20 DEF FinalStep, StaysEnded, StaysCancelled, process

(* What a cancellation in its first lock section does: a secret that was   *)
(* not submitted ends, a device flow is entered in the table.              *)
CancelEnters(p) ==
  /\ flow' \in [Flows -> FlowRecord] /\ activeFlow' \in [Providers -> Flows \cup {NoFlow}]
  /\ cancelOp' \in [Providers -> CancelRecord] /\ cancelled' \subseteq Flows
  /\ Moves /\ Forgets /\ Pends /\ Writes /\ \A g \in Flows : FlowIsFormed(g)'
  /\ \A q \in Providers : cancelOp'[q] = cancelOp[q] \/ (q = p /\ CancelIsOrdered(q)')
  /\ cancelOp'[p] # cancelOp[p] => cancelOp[p].phase = "idle"
  /\ \A f \in cancelled' : f \in cancelled \/ flow'[f].phase = "done"
  /\ \A f \in Flows : ipc = FlowCall(f) => flow'[f] = flow[f]

LEMMA CancelOpenEnters ==
  ASSUME AuthInv, NEW p \in Providers, IsActive(p), Cancellable(p), CancelOpen(p),
         UNCHANGED process
  PROVE  CancelEnters(p) /\ flow'[activeFlow[p]].phase = "done"
<1> DEFINE f == activeFlow[p]
<1>1. f \in Flows BY DEF AuthInv, AuthStates, IsActive
<1>2. flow[f].phase = "open" BY DEF Cancellable
<1>3. /\ flow' = Ended(f, "CANCELLED") /\ activeFlow' = [activeFlow EXCEPT ![p] = NoFlow]
      /\ cancelled' = cancelled \cup {f} /\ cancelOp' = cancelOp
  BY DEF CancelOpen
<1> HIDE DEF f
<1>4. activeFlow[p] = f BY DEF f
<1>5. /\ flow' \in [Flows -> FlowRecord] /\ activeFlow' \in [Providers -> Flows \cup {NoFlow}]
      /\ flow'[f].phase = "done" /\ \A g \in Flows : g # f => flow'[g] = flow[g]
      /\ Moves /\ Forgets /\ Pends /\ Writes /\ \A g \in Flows : FlowIsFormed(g)'
      /\ ipc # FlowCall(f)
  BY <1>1, <1>2, <1>3, <1>4, OpenEnds
<1> QED BY <1>1, <1>3, <1>4, <1>5 DEF CancelEnters, AuthInv, AuthStates

LEMMA CancelBegins ==
  ASSUME AuthInv, AuthStates', Moves, NEW p \in Providers, NEW f \in Flows,
         Prov(f) = p, activeFlow[p] = f, LiveFlow(f), 
         cancelOp'[p] = [phase |-> "child", flow |-> f]
  PROVE  CancelIsOrdered(p)'
<1>1. flow[f].phase # "starting"
  <2>1. IsActive(p) BY AuthAssumption DEF IsActive
  <2> QED BY <2>1 DEF AuthInv, StartIsAlone
<1>2. Prov(f)' = p /\ flow'[f].phase \notin {"new", "starting"} BY <1>1, MovesBack DEF LiveFlow
<1>3. cancelOp'[p].phase = "child" /\ cancelOp'[p].flow = f OBVIOUS
<1> QED BY <1>2, <1>3 DEF CancelIsOrdered, Prov

LEMMA CancelDeviceEnters ==
  ASSUME AuthInv, NEW p \in Providers, IsActive(p), CancelDevice(p),
         UNCHANGED <<process, ipc, faults, msg>>, reset' \in [Providers -> ResetRecord]
  PROVE  /\ CancelEnters(p) /\ cancelOp[p].phase = "idle"
         /\ cancelOp'[p].phase = "child" /\ cancelOp'[p].flow = activeFlow[p]
<1> DEFINE f == activeFlow[p]
           r == [phase |-> "child", flow |-> f]
<1>1. f \in Flows /\ LiveFlow(f) /\ Prov(f) = p
  BY DEF AuthInv, AuthStates, IsActive, ActiveIsOwn
<1>2. r \in CancelRecord /\ r.phase = "child" /\ r.flow = f BY <1>1 DEF CancelRecord
<1>3. /\ cancelOp' = [cancelOp EXCEPT ![p] = r] /\ cancelOp[p].phase = "idle"
      /\ UNCHANGED <<flow, activeFlow, cancelled>>
  BY DEF CancelDevice
<1>4. cancelOp' \in [Providers -> CancelRecord] /\ cancelOp'[p] = r
  <2> HIDE DEF r
  <2> QED BY <1>2, <1>3 DEF AuthInv, AuthStates
<1>5. AuthStates' BY <1>3, <1>4 DEF AuthInv, AuthStates, process
<1>6. Moves /\ Forgets /\ Pends /\ Writes /\ \A g \in Flows : FlowIsFormed(g)'
  BY <1>3, NothingMoves
<1>7. CancelIsOrdered(p)' BY <1>1, <1>4, <1>5, <1>6, CancelBegins
<1>8. \A q \in Providers : q # p => cancelOp'[q] = cancelOp[q]
  <2> HIDE DEF r
  <2> QED BY <1>3 DEF AuthInv, AuthStates
<1> QED BY <1>2, <1>3, <1>4, <1>5, <1>6, <1>7, <1>8 DEF CancelEnters, AuthStates

LEMMA CancelKeeps ==
  ASSUME AuthInv, NEW p \in Providers, Cancel(p)
  PROVE  FinalStep
<1>1. IsActive(p) /\ UNCHANGED <<reset, process, ipc, faults, msg>> BY DEF Cancel
<1>2. CancelEnters(p)
  <2>1. reset' \in [Providers -> ResetRecord] BY <1>1 DEF AuthInv, AuthStates
  <2> QED BY <1>1, <2>1, CancelOpenEnters, CancelDeviceEnters DEF Cancel
<1>3. AuthStates' BY <1>1, <1>2 DEF AuthInv, AuthStates, process, CancelEnters
<1>4. CallIsWanted'
  <2>1. \A q \in Providers : ipc = CancelCall(q) => cancelOp[q].phase = "child"
    BY CancelWants
  <2>2. \A q \in Providers : ipc = CancelCall(q) => cancelOp'[q] = cancelOp[q]
    BY <1>2, <2>1 DEF CancelEnters
  <2> QED BY <1>1, <1>2, <1>3, <2>2, WantedKept DEF CancelEnters
<1>5. ASSUME NEW q \in Providers, reset[q].phase = "cancelling"
      PROVE  cancelOp'[q] = cancelOp[q] /\ cancelOp[q].phase # "idle"
  BY <1>2, <1>5 DEF AuthInv, ResetIsOrdered, CancelEnters
<1>6. \A f \in cancelled' : f \in cancelled \/ flow'[f].phase = "done" BY <1>2 DEF CancelEnters
<1> QED BY <1>1, <1>2, <1>3, <1>4, <1>5, <1>6, StepKept DEF CancelEnters

LEMMA ResetRecords ==
  ASSUME AuthInv, NEW p \in Providers, NEW ph, NEW old \in SUBSET Flows,
         ph \in {"idle", "cancelling", "resetting", "verifying", "disconnected", "failed"},
         reset' = [reset EXCEPT ![p] = [phase |-> ph, old |-> old]]
  PROVE  /\ reset' \in [Providers -> ResetRecord]
         /\ reset'[p].phase = ph /\ reset'[p].old = old
         /\ \A q \in Providers : q # p => reset'[q] = reset[q]
<1> DEFINE r == [phase |-> ph, old |-> old]
<1>1. r \in ResetRecord /\ r.phase = ph /\ r.old = old BY DEF ResetRecord
<1>2. reset' = [reset EXCEPT ![p] = r] OBVIOUS
<1> HIDE DEF r
<1> QED BY <1>1, <1>2 DEF AuthInv, AuthStates

LEMMA DisconnectKeeps ==
  ASSUME AuthInv, NEW p \in Providers, Disconnect(p)
  PROVE  FinalStep
<1> DEFINE begun == {f \in Flows : flow[f].phase # "new"}
           Enter(ph) == reset' = [reset EXCEPT ![p] = [phase |-> ph, old |-> begun]]
           Kept == UNCHANGED <<flow, activeFlow, cancelOp, cancelled>>
<1>0. /\ Unlocked /\ reset[p].phase = "idle" /\ UNCHANGED <<process, ipc, faults, msg>>
      /\ \/ ~IsActive(p) /\ Enter("resetting") /\ Kept
         \/ IsActive(p) /\ Cancellable(p) /\ CancelOpen(p) /\ Enter("resetting")
         \/ IsActive(p) /\ ByDevice(p) /\ CancelDevice(p) /\ Enter("cancelling")
         \/ IsActive(p) /\ ~ByDevice(p) /\ ~Cancellable(p) /\ Enter("failed") /\ Kept
  BY DEF Disconnect, room
<1>1. PICK ph \in {"resetting", "cancelling", "failed"} : Enter(ph) BY <1>0
<1>2. begun \in SUBSET Flows OBVIOUS
<1>3. /\ reset' \in [Providers -> ResetRecord]
      /\ reset'[p].phase = ph /\ reset'[p].old = begun
      /\ \A q \in Providers : q # p => reset'[q] = reset[q]
  <2>1. reset' = [reset EXCEPT ![p] = [phase |-> ph, old |-> begun]] BY <1>1
  <2> HIDE DEF begun
  <2> QED BY <1>2, <2>1, ResetRecords
<1>4. \A x \in {"resetting", "cancelling", "failed"} : Enter(x) => x = ph
  <2>1. SUFFICES ASSUME NEW x \in {"resetting", "cancelling", "failed"}, Enter(x) PROVE x = ph
    OBVIOUS
  <2>2. reset' = [reset EXCEPT ![p] = [phase |-> x, old |-> begun]] BY <2>1
  <2> HIDE DEF begun
  <2>3. reset'[p].phase = x BY <1>2, <2>2, ResetRecords
  <2> QED BY <1>3, <2>3
<1>5. /\ \/ ph = "resetting" /\ ~IsActive(p) /\ Kept
         \/ ph = "resetting" /\ IsActive(p) /\ Cancellable(p) /\ CancelOpen(p)
         \/ ph = "cancelling" /\ IsActive(p) /\ CancelDevice(p)
         \/ ph = "failed" /\ Kept
  <2> HIDE DEF Enter, Kept
  <2> QED BY <1>0, <1>4
<1> HIDE DEF Enter
<1>6. \A f \in Flows : LiveFlow(f) /\ Prov(f) = p => activeFlow[p] = f
  BY <1>0 DEF AuthInv, FlowIsTracked, Unlocked
<1>7. CancelEnters(p)
  <2>1. CASE Kept
    <3>1. Moves /\ Forgets /\ Pends /\ Writes /\ \A g \in Flows : FlowIsFormed(g)'
      BY <1>0, <2>1, NothingMoves
    <3> QED BY <2>1, <3>1 DEF CancelEnters, AuthInv, AuthStates
  <2>2. CASE IsActive(p) /\ Cancellable(p) /\ CancelOpen(p) BY <1>0, <2>2, CancelOpenEnters
  <2>3. CASE IsActive(p) /\ CancelDevice(p)
    <3>1. UNCHANGED <<process, ipc, faults, msg>> BY <1>0
    <3> QED BY <1>3, <2>3, <3>1, CancelDeviceEnters
  <2> HIDE DEF Kept
  <2> QED BY <1>5, <2>1, <2>2, <2>3
<1>8. AuthStates' BY <1>0, <1>3, <1>7 DEF AuthInv, AuthStates, process, CancelEnters
<1>9. \A f \in Flows : LiveFlow(f)' /\ Prov(f)' = p => activeFlow[p] = f
  BY <1>6, <1>7, <1>8, MovesBack DEF CancelEnters
<1>10. ResetIsOrdered(p)'
  <2>1. \A f \in begun : flow'[f].phase # "new" BY <1>7, <1>8, MovesBack DEF CancelEnters
  <2>2. ASSUME ph = "resetting" PROVE \A f \in begun : Prov(f)' = p => ~LiveFlow(f)'
    <3>1. CASE ~IsActive(p) /\ Kept
      <4>1. \A f \in Flows : Prov(f)' = p => ~LiveFlow(f)'
        BY <1>6, <3>1, AuthAssumption DEF IsActive, Prov, LiveFlow
      <4> QED BY <4>1
    <3>2. CASE IsActive(p) /\ Cancellable(p) /\ CancelOpen(p)
      <4>1. flow'[activeFlow[p]].phase = "done" BY <1>0, <3>2, CancelOpenEnters
      <4> QED BY <1>9, <4>1 DEF LiveFlow
    <3> HIDE DEF Kept
    <3> QED BY <1>5, <2>2, <3>1, <3>2
  <2>3. ASSUME ph = "cancelling"
        PROVE  cancelOp'[p].phase # "idle" /\ cancelOp'[p].flow = activeFlow[p]
    <3>1. IsActive(p) /\ CancelDevice(p) BY <1>5, <2>3
    <3>2. UNCHANGED <<process, ipc, faults, msg>> BY <1>0
    <3> QED BY <1>3, <3>1, <3>2, CancelDeviceEnters
  <2> QED BY <1>3, <1>9, <2>1, <2>2, <2>3 DEF ResetIsOrdered
<1>11. CallIsWanted'
  <2>1. \A q \in Providers : ipc = CancelCall(q) => cancelOp'[q] = cancelOp[q]
    BY <1>7, CancelWants DEF CancelEnters
  <2>2. \A q \in Providers : ipc = ResetCall(q) => reset'[q] = reset[q]
    BY <1>0, <1>3, ResetWants
  <2> QED BY <1>0, <1>7, <1>8, <2>1, <2>2, WantedKept DEF CancelEnters
<1>12. ASSUME NEW q \in Providers, q # p, reset[q].phase = "cancelling"
       PROVE  cancelOp'[q] = cancelOp[q] /\ cancelOp[q].phase # "idle"
  BY <1>7, <1>12 DEF AuthInv, ResetIsOrdered, CancelEnters
<1>13. \A f \in cancelled' : f \in cancelled \/ flow'[f].phase = "done" BY <1>7 DEF CancelEnters
<1>14. \A q \in Providers :
         \/ /\ reset'[q] = reset[q]
            /\ (reset[q].phase = "cancelling" =>
                  cancelOp'[q].phase # "idle" /\ cancelOp'[q].flow = cancelOp[q].flow)
         \/ ResetIsOrdered(q)'
  BY <1>3, <1>10, <1>12
<1> QED BY <1>7, <1>8, <1>11, <1>13, <1>14, StepKept DEF CancelEnters

LEMMA CancelRecordsKeeps ==
  ASSUME AuthInv, NEW p \in Providers, CancelRecords(p)
  PROVE  FinalStep
<1> DEFINE f == cancelOp[p].flow
           none == [phase |-> "idle", flow |-> NoFlow]
<1>1. f \in Flows /\ Prov(f) = p /\ flow[f].phase = "done"
  BY DEF AuthInv, CancelIsOrdered, CancelRecords
<1>2. UNCHANGED <<flow, process, ipc, faults, msg>> BY DEF CancelRecords, room
<1>3. /\ activeFlow' = [activeFlow EXCEPT ![p] = IF @ = f THEN NoFlow ELSE @]
      /\ cancelOp' = [cancelOp EXCEPT ![p] = none]
      /\ cancelled' = cancelled \cup {f} /\ cancelOp[p].phase = "recording"
      /\ reset' = [reset EXCEPT ![p].phase = IF @ = "cancelling" THEN "resetting" ELSE @]
  BY DEF CancelRecords
<1>4. none \in CancelRecord /\ none.phase = "idle" BY DEF CancelRecord
<1> HIDE DEF f, none
<1>5. /\ cancelOp' \in [Providers -> CancelRecord] /\ cancelOp'[p] = none
      /\ \A q \in Providers : q # p => cancelOp'[q] = cancelOp[q]
  BY <1>3, <1>4 DEF AuthInv, AuthStates
<1>6. /\ activeFlow' \in [Providers -> Flows \cup {NoFlow}]
      /\ \A q \in Providers : activeFlow'[q] = activeFlow[q]
                              \/ (q = p /\ activeFlow[q] = f /\ activeFlow'[q] = NoFlow)
  BY <1>3 DEF AuthInv, AuthStates
<1> DEFINE ph == IF reset[p].phase = "cancelling" THEN "resetting" ELSE reset[p].phase
           r == [phase |-> ph, old |-> reset[p].old]
<1>7. /\ reset \in [Providers -> ResetRecord] /\ reset[p] \in ResetRecord
      /\ reset[p].old \in SUBSET Flows
  BY DEF AuthInv, AuthStates, ResetRecord
<1>8. ph \in {"idle", "cancelling", "resetting", "verifying", "disconnected", "failed"}
  BY <1>7 DEF ResetRecord
<1>9. reset' = [reset EXCEPT ![p] = r]
  <2>1. [reset[p] EXCEPT !.phase = ph] = r BY <1>7 DEF ResetRecord
  <2>2. reset' = [reset EXCEPT ![p] = [reset[p] EXCEPT !.phase = ph]] BY <1>3
  <2> HIDE DEF ph, r
  <2> QED BY <2>1, <2>2
<1>10. /\ reset' \in [Providers -> ResetRecord]
       /\ reset'[p].phase = ph /\ reset'[p].old = reset[p].old
       /\ \A q \in Providers : q # p => reset'[q] = reset[q]
  <2> HIDE DEF ph
  <2> QED BY <1>7, <1>8, <1>9, ResetRecords
<1>11. AuthStates' BY <1>1, <1>2, <1>3, <1>5, <1>6, <1>10 DEF AuthInv, AuthStates, process
<1>12. Moves /\ Pends /\ Writes /\ \A g \in Flows : FlowIsFormed(g)'
  BY <1>2 DEF Moves, Pends, Writes, process, AuthInv, FlowIsFormed, Prov, ByDevice
<1>13. Forgets BY <1>1, <1>2, <1>6 DEF Forgets
<1>14. \A q \in Providers : cancelOp'[q] = cancelOp[q] \/ CancelIsOrdered(q)'
  BY <1>4, <1>5 DEF CancelIsOrdered
<1>15. ResetIsOrdered(p)'
  <2>1. ResetIsOrdered(p) BY DEF AuthInv
  <2>2. reset[p].phase = "cancelling" => \A g \in reset[p].old : Prov(g) = p => ~LiveFlow(g)
    BY <1>1, <2>1 DEF ResetIsOrdered, LiveFlow, f
  <2>3. \A g \in reset[p].old : Prov(g)' = Prov(g) /\ LiveFlow(g)' = LiveFlow(g)
    BY <1>2 DEF Prov, LiveFlow
  <2>4. saved' = saved BY <1>2 DEF process
  <2>5. ph # "cancelling" /\ (ph = "resetting" \/ ph = reset[p].phase)
        /\ (ph = "resetting" => reset[p].phase \in {"resetting", "cancelling"})
    OBVIOUS
  <2> HIDE DEF ph
  <2> QED BY <1>2, <1>10, <2>1, <2>2, <2>3, <2>4, <2>5 DEF ResetIsOrdered
<1>16. CallIsWanted'
  <2>1. \A q \in Providers : ipc = CancelCall(q) => cancelOp'[q] = cancelOp[q]
    BY <1>3, <1>5, CancelWants
  <2>2. ASSUME NEW q \in Providers, ipc = ResetCall(q) PROVE Wants(ipc)'
    <3>1. ipc'.who = "reset" /\ ipc'.id = q BY <1>2, <2>2, CallersDiffer
    <3>2. reset[q].phase \in {"resetting", "verifying"} BY <2>2, ResetWants
    <3>3. reset'[q].phase = reset[q].phase BY <1>10, <3>2
    <3> QED BY <3>1, <3>2, <3>3 DEF Wants
  <2>3. CASE \E q \in Providers : ipc = ResetCall(q) BY <2>2, <2>3 DEF CallIsWanted
  <2>4. CASE ~\E q \in Providers : ipc = ResetCall(q)
    BY <1>2, <1>11, <2>1, <2>4, WantedKept
  <2> QED BY <2>3, <2>4
<1>17. \A q \in Providers :
         \/ /\ reset'[q] = reset[q]
            /\ (reset[q].phase = "cancelling" =>
                  cancelOp'[q].phase # "idle" /\ cancelOp'[q].flow = cancelOp[q].flow)
         \/ ResetIsOrdered(q)'
  BY <1>5, <1>10, <1>15 DEF AuthInv, ResetIsOrdered
<1>18. \A g \in cancelled' : g \in cancelled \/ flow'[g].phase = "done"
  BY <1>1, <1>2, <1>3
<1> QED BY <1>11, <1>12, <1>13, <1>14, <1>16, <1>17, <1>18, StepKept

-----------------------------------------------------------------------------
(* What a call may have changed when its answer comes, or when it breaks.  *)

(* Accounts are written for the calling flow alone; the child takes up a   *)
(* flow only when it says so; a release and a reset leave nothing behind.  *)
Effect(c, child, sv, pool, answer) ==
  /\ child \in [Flows -> ChildState]
  /\ sv \in [Providers -> SUBSET Flows]
  /\ pool \in [Providers -> SUBSET Flows]
  /\ \A p \in Providers : \A f \in sv[p] : f \in saved[p] \/ (c = FlowCall(f) /\ Prov(f) = p)
  /\ \A g \in Flows : child[g] = "pending" =>
       \/ onthespot[g] = "pending"
       \/ c = FlowCall(g) /\ flow[g].phase = "starting" /\ answer = "started"
  /\ \A f \in Flows : c = FlowCall(f) /\ flow[f].phase = "releasing" => child[f] # "pending"
  /\ \A p \in Providers : c = CancelCall(p) => child[cancelOp[p].flow] # "pending"
  /\ \A p \in Providers :
       c = ResetCall(p) /\ reset[p].phase = "resetting" /\ answer = "ok" => sv[p] = {}

EffectOf(c, r) == Effect(c, r.child, r.saved, r.pool, r.answer)

LEMMA ReplyIs ==
  ASSUME NEW x, NEW s, NEW l, NEW a
  PROVE  /\ Reply(x, s, l, a).child = x /\ Reply(x, s, l, a).saved = s
         /\ Reply(x, s, l, a).pool = l /\ Reply(x, s, l, a).answer = a
BY DEF Reply

(* A flow's call that is no release.                                       *)
LEMMA FlowEffect ==
  ASSUME AuthInv, NEW f \in Flows, NEW child, NEW sv, NEW pool, NEW a,
         flow[f].phase # "releasing",
         child \in [Flows -> ChildState], sv \in [Providers -> SUBSET Flows],
         pool \in [Providers -> SUBSET Flows],
         \A p \in Providers : \A g \in sv[p] : g \in saved[p] \/ (g = f /\ Prov(f) = p),
         \A g \in Flows : child[g] = "pending" =>
           \/ onthespot[g] = "pending"
           \/ g = f /\ flow[f].phase = "starting" /\ a = "started"
  PROVE  EffectOf(FlowCall(f), Reply(child, sv, pool, a))
<1>1. /\ \A g \in Flows : FlowCall(f) = FlowCall(g) => f = g
      /\ \A p \in Providers : FlowCall(f) # CancelCall(p) /\ FlowCall(f) # ResetCall(p)
  <2>1. FlowCall(f).who = "flow" /\ FlowCall(f).id = f BY CallersDiffer
  <2>2. \A g \in Flows : FlowCall(g).id = g BY CallersDiffer
  <2>3. \A p \in Providers : CancelCall(p).who # "flow" /\ ResetCall(p).who # "flow"
    BY CallersDiffer
  <2> QED BY <2>1, <2>2, <2>3
<1> DEFINE r == Reply(child, sv, pool, a)
<1>2. r.child = child /\ r.saved = sv /\ r.pool = pool /\ r.answer = a BY ReplyIs
<1> HIDE DEF r
<1>3. Effect(FlowCall(f), child, sv, pool, a) BY <1>1 DEF Effect
<1>4. EffectOf(FlowCall(f), r) BY <1>2, <1>3 DEF EffectOf
<1> QED BY <1>4 DEF r

LEMMA UnchangedEffect ==
  ASSUME AuthInv, NEW c \in Callers, NEW a,
         \A f \in Flows : c = FlowCall(f) => flow[f].phase # "releasing",
         \A p \in Providers : c # CancelCall(p),
         \A p \in Providers : c = ResetCall(p) /\ reset[p].phase = "resetting" => a # "ok"
  PROVE  EffectOf(c, Unchanged(a))
<1> DEFINE r == Reply(onthespot, saved, accounts, a)
<1>1. r.child = onthespot /\ r.saved = saved /\ r.pool = accounts /\ r.answer = a BY ReplyIs
<1>2. r = Unchanged(a) BY DEF Unchanged
<1> HIDE DEF r
<1> QED BY <1>1, <1>2 DEF EffectOf, Effect, AuthInv, AuthStates

LEMMA FlowRepliesFit ==
  ASSUME AuthInv, NEW f \in Flows, Wants(FlowCall(f)), NEW r \in FlowReplies(f)
  PROVE  EffectOf(FlowCall(f), r)
<1> DEFINE p == Prov(f)  m == Method[p]  ph == flow[f].phase
<1>0. /\ p \in Providers
      /\ onthespot \in [Flows -> ChildState] /\ saved \in [Providers -> SUBSET Flows]
      /\ accounts \in [Providers -> SUBSET Flows]
      /\ m \in {"device", "pairing", "secret", "session"}
  BY AuthAssumption DEF AuthInv, AuthStates, FlowRecord, Prov
<1>1. ph \in {"starting", "polling", "authorizing", "reloading", "checking", "releasing"}
  BY CallersDiffer DEF Wants
<1>2. FlowCall(f) \in Callers BY CallersDiffer
<1>3. /\ \A g \in Flows : FlowCall(f) = FlowCall(g) => f = g
      /\ \A q \in Providers : FlowCall(f) # CancelCall(q) /\ FlowCall(f) # ResetCall(q)
  <2>1. FlowCall(f).who = "flow" /\ FlowCall(f).id = f BY CallersDiffer
  <2>2. \A g \in Flows : FlowCall(g).id = g BY CallersDiffer
  <2>3. \A q \in Providers : CancelCall(q).who # "flow" /\ ResetCall(q).who # "flow"
    BY CallersDiffer
  <2> QED BY <2>1, <2>2, <2>3
<1>4. ASSUME ph # "releasing", NEW a PROVE EffectOf(FlowCall(f), Unchanged(a))
  BY <1>2, <1>3, <1>4, UnchangedEffect
<1>5. ASSUME ph # "releasing", NEW x \in {"approved", "ended"}, NEW a,
             NEW sv, sv \in {saved, [saved EXCEPT ![p] = @ \cup {f}]}
      PROVE  EffectOf(FlowCall(f), Reply([onthespot EXCEPT ![f] = x], sv, accounts, a))
  <2> DEFINE child == [onthespot EXCEPT ![f] = x]
  <2>1. child \in [Flows -> ChildState] BY <1>0 DEF ChildState
  <2>2. \A g \in Flows : child[g] = "pending" => onthespot[g] = "pending" BY <1>0
  <2>3. sv \in [Providers -> SUBSET Flows] BY <1>0, <1>5
  <2>4. \A q \in Providers : \A g \in sv[q] : g \in saved[q] \/ (g = f /\ p = q)
    BY <1>0, <1>5
  <2> HIDE DEF child
  <2>5. EffectOf(FlowCall(f), Reply(child, sv, accounts, a))
    BY <1>0, <1>5, <2>1, <2>2, <2>3, <2>4, FlowEffect
  <2> QED BY <2>5 DEF child
<1>6. ASSUME ph # "releasing", NEW sv, NEW pool, NEW a,
             sv \in {saved, [saved EXCEPT ![p] = @ \cup {f}], [saved EXCEPT ![p] = {}],
                     [saved EXCEPT ![p] = {f}]},
             pool \in {accounts, sv}
      PROVE  EffectOf(FlowCall(f), Reply(onthespot, sv, pool, a))
  <2>1. sv \in [Providers -> SUBSET Flows] BY <1>0, <1>6
  <2>2. pool \in [Providers -> SUBSET Flows] BY <1>0, <1>6, <2>1
  <2>3. \A q \in Providers : \A g \in sv[q] : g \in saved[q] \/ (g = f /\ p = q)
    BY <1>0, <1>6
  <2> QED BY <1>0, <1>6, <2>1, <2>2, <2>3, FlowEffect
<1>7. ASSUME ph = "starting", r \in StartReplies(f) PROVE EffectOf(FlowCall(f), r)
  <2>1. CASE r = Unchanged("refused") BY <1>4, <1>7, <2>1
  <2>2. CASE r = Reply([onthespot EXCEPT ![f] = "pending"], saved, accounts, "started")
    <3> DEFINE child == [onthespot EXCEPT ![f] = "pending"]
    <3>1. child \in [Flows -> ChildState] BY <1>0 DEF ChildState
    <3>2. \A g \in Flows : child[g] = "pending" => onthespot[g] = "pending" \/ g = f BY <1>0
    <3> HIDE DEF child
    <3>3. EffectOf(FlowCall(f), Reply(child, saved, accounts, "started"))
      BY <1>0, <1>7, <3>1, <3>2, FlowEffect
    <3> QED BY <2>2, <3>3 DEF child
  <2> QED BY <1>7, <2>1, <2>2 DEF StartReplies
<1>8. CASE ph = "starting"
  <2>1. r \in IF m = "device" THEN StartReplies(f) ELSE PairingStartReplies(f)
    BY <1>8 DEF FlowReplies
  <2>2. r \in StartReplies(f) \/ r = Unchanged("refused")
    BY <2>1 DEF PairingStartReplies
  <2> QED BY <1>4, <1>7, <1>8, <2>2
<1>9. CASE ph = "polling"
  <2>1. r \in IF m = "device" THEN PollReplies(f) ELSE PairingPollReplies(f)
    BY <1>9 DEF FlowReplies
  <2>2. onthespot[f] \in {"none", "ended", "approved", "pending"} BY <1>0 DEF ChildState
  <2>3. \/ \E a : r = Unchanged(a)
        \/ r = Fail(f)
        \/ r = Approve(f)
    BY <2>1, <2>2 DEF PollReplies, PairingPollReplies
  <2>4. CASE r = Fail(f) BY <1>5, <1>9, <2>4 DEF Fail
  <2>5. CASE r = Approve(f) BY <1>5, <1>9, <2>5 DEF Approve
  <2> QED BY <1>4, <1>9, <2>3, <2>4, <2>5
<1>10. CASE ph = "authorizing"
  <2>1. r \in IF m = "secret" THEN SecretReplies(f) ELSE SessionReplies(f)
    BY <1>10 DEF FlowReplies
  <2>2. CASE r \in SecretReplies(f) BY <1>4, <1>6, <1>10, <2>2 DEF SecretReplies
  <2>3. CASE r \in SessionReplies(f)
    <3> DEFINE now == [saved EXCEPT ![p] = {f}]
               gone == [saved EXCEPT ![p] = {}]
    <3>1. EffectOf(FlowCall(f), Unchanged("failed")) BY <1>4, <1>10
    <3>2. EffectOf(FlowCall(f), Reply(onthespot, gone, accounts, "failed")) BY <1>6, <1>10
    <3>3. \A a : EffectOf(FlowCall(f), Reply(onthespot, now, now, a)) BY <1>6, <1>10
    <3>4. r \in {Unchanged("failed"), Reply(onthespot, gone, accounts, "failed"),
                 Reply(onthespot, now, now, "failed"), Reply(onthespot, now, now, "saved")}
      BY <2>3 DEF SessionReplies
    <3> HIDE DEF now, gone
    <3> QED BY <3>1, <3>2, <3>3, <3>4
  <2> QED BY <2>1, <2>2, <2>3
<1>11. CASE ph = "reloading"
  <2>1. r \in RefreshReplies BY <1>11 DEF FlowReplies
  <2>2. CASE r = Unchanged("failed") BY <1>4, <1>11, <2>2
  <2>3. CASE r = Reply(onthespot, saved, saved, "ok")
    <3>1. EffectOf(FlowCall(f), Reply(onthespot, saved, saved, "ok")) BY <1>6, <1>11
    <3> QED BY <2>3, <3>1
  <2> QED BY <2>1, <2>2, <2>3 DEF RefreshReplies
<1>12. CASE ph = "checking"
  <2>1. r \in StatusReplies(p) BY <1>12 DEF FlowReplies
  <2> QED BY <1>4, <1>12, <2>1 DEF StatusReplies
<1>13. CASE ph = "releasing"
  <2> DEFINE child == [onthespot EXCEPT ![f] = "none"]
  <2>1. child \in [Flows -> ChildState] BY <1>0 DEF ChildState
  <2>2. child[f] = "none" /\ \A g \in Flows : child[g] = "pending" => onthespot[g] = "pending"
    BY <1>0
  <2>3. r = Reply(child, saved, accounts, "ok") BY <1>13 DEF FlowReplies, ReleaseReplies
  <2> HIDE DEF child
  <2>4. r.child = child /\ r.saved = saved /\ r.pool = accounts /\ r.answer = "ok"
    BY <2>3, ReplyIs
  <2> QED BY <1>0, <1>3, <2>1, <2>2, <2>4 DEF EffectOf, Effect
<1> QED BY <1>1, <1>8, <1>9, <1>10, <1>11, <1>12, <1>13

LEMMA RepliesFit ==
  ASSUME AuthInv, NEW c \in Callers, Wants(c), NEW r \in Replies(c)
  PROVE  EffectOf(c, r)
<1>0. /\ onthespot \in [Flows -> ChildState] /\ saved \in [Providers -> SUBSET Flows]
      /\ accounts \in [Providers -> SUBSET Flows]
  BY DEF AuthInv, AuthStates
<1>1. ASSUME NEW f \in Flows, c = FlowCall(f) PROVE EffectOf(c, r)
  <2>1. r \in FlowReplies(f) BY <1>1, CallersDiffer DEF Replies
  <2> QED BY <1>1, <2>1, FlowRepliesFit
<1>2. ASSUME NEW p \in Providers, c = CancelCall(p) PROVE EffectOf(c, r)
  <2> DEFINE f == cancelOp[p].flow
             child == [onthespot EXCEPT ![f] = "none"]
  <2>1. c.who = "cancel" /\ c.id = p BY <1>2, CallersDiffer
  <2>2. r = Reply(child, saved, accounts, "ok") BY <2>1 DEF Replies, ReleaseReplies
  <2>3. cancelOp[p].phase = "child" BY <2>1 DEF Wants
  <2>4. f \in Flows BY <2>3 DEF AuthInv, CancelIsOrdered
  <2>5. /\ child \in [Flows -> ChildState] /\ child[f] = "none"
        /\ \A g \in Flows : child[g] = "pending" => onthespot[g] = "pending"
    BY <1>0, <2>4 DEF ChildState
  <2>6. /\ \A g \in Flows : c # FlowCall(g)
        /\ \A q \in Providers : c = CancelCall(q) => q = p
        /\ \A q \in Providers : c # ResetCall(q)
    BY <2>1, CallersDiffer
  <2> HIDE DEF child
  <2>7. r.child = child /\ r.saved = saved /\ r.pool = accounts /\ r.answer = "ok"
    BY <2>2, ReplyIs
  <2> QED BY <1>0, <2>5, <2>6, <2>7 DEF EffectOf, Effect
<1>3. ASSUME NEW p \in Providers, c = ResetCall(p) PROVE EffectOf(c, r)
  <2>1. c.who = "reset" /\ c.id = p BY <1>3, CallersDiffer
  <2>2. /\ \A g \in Flows : c # FlowCall(g)
        /\ \A q \in Providers : c # CancelCall(q)
        /\ \A q \in Providers : c = ResetCall(q) => q = p
    BY <2>1, CallersDiffer
  <2>3. CASE reset[p].phase # "resetting"
    <3>1. r \in StatusReplies(p) BY <2>1, <2>3 DEF Replies
    <3>2. \E a : r = Unchanged(a) BY <3>1 DEF StatusReplies
    <3> QED BY <2>2, <2>3, <3>2, UnchangedEffect
  <2>4. CASE reset[p].phase = "resetting"
    <3>1. r \in ResetReplies(p) BY <2>1, <2>4 DEF Replies
    <3>2. CASE r = Unchanged("failed") BY <2>2, <3>2, UnchangedEffect
    <3>3. CASE r # Unchanged("failed")
      <4> DEFINE now == [saved EXCEPT ![p] = {}]
                 child == Without(p)
      <4>1. now \in [Providers -> SUBSET Flows] /\ now[p] = {}
            /\ \A q \in Providers : now[q] \subseteq saved[q]
        BY <1>0
      <4>2. child \in [Flows -> ChildState]
            /\ \A g \in Flows : child[g] = "pending" => onthespot[g] = "pending"
        BY <1>0 DEF Without, ChildState
      <4>3. PICK pool \in {now, accounts}, a \in {"ok", "failed"} : r = Reply(child, now, pool, a)
        BY <3>1, <3>3 DEF ResetReplies
      <4>4. pool \in [Providers -> SUBSET Flows] BY <1>0, <4>1, <4>3
      <4> HIDE DEF now, child
      <4>5. r.child = child /\ r.saved = now /\ r.pool = pool /\ r.answer = a
        BY <4>3, ReplyIs
      <4> QED BY <2>2, <4>1, <4>2, <4>4, <4>5 DEF EffectOf, Effect
    <3> QED BY <3>2, <3>3
  <2> QED BY <2>3, <2>4
<1> QED BY <1>1, <1>2, <1>3, CallersDiffer

(* A call that breaks takes the child's flows with it.                     *)
LEMMA BrokenFits ==
  ASSUME AuthInv, NEW c \in Callers, Wants(c), NEW r \in Replies(c) \cup {Unchanged("error")},
         NEW a, a # "ok"
  PROVE  Effect(c, [f \in Flows |-> "none"], r.saved, r.saved, a)
<1> DEFINE none == [f \in Flows |-> "none"]
<1>1. none \in [Flows -> ChildState] /\ \A f \in Flows : none[f] # "pending" BY DEF ChildState
<1>2. /\ r.saved \in [Providers -> SUBSET Flows]
      /\ \A p \in Providers : \A f \in r.saved[p] :
           f \in saved[p] \/ (c = FlowCall(f) /\ Prov(f) = p)
  <2>1. CASE r \in Replies(c)
    <3>1. EffectOf(c, r) BY <2>1, RepliesFit
    <3> QED BY <3>1 DEF EffectOf, Effect
  <2>2. CASE r = Unchanged("error")
    <3>1. r.saved = saved BY <2>2, ReplyIs DEF Unchanged
    <3> QED BY <3>1 DEF AuthInv, AuthStates
  <2> QED BY <2>1, <2>2
<1>3. \A p \in Providers : c = CancelCall(p) => cancelOp[p].flow \in Flows
  <2> SUFFICES ASSUME NEW p \in Providers, c = CancelCall(p) PROVE cancelOp[p].flow \in Flows
    OBVIOUS
  <2>1. cancelOp[p].phase = "child" BY CallersDiffer DEF Wants
  <2> QED BY <2>1 DEF AuthInv, CancelIsOrdered
<1> HIDE DEF none
<1>4. Effect(c, none, r.saved, r.saved, a) BY <1>1, <1>2, <1>3 DEF Effect
<1> QED BY <1>4 DEF none

(* What an answer makes of a flow that does not start with it.             *)
LEMMA ReceiveBecomes ==
  ASSUME AuthInv, NEW f \in Flows, NEW a, FlowReceives(f, a),
         flow[f].phase = "starting" => a # "started"
  PROVE  \E ph \in Phases, s \in Results :
           /\ FlowBecomes(f, ph, s) /\ FitPhase(f, ph, s)
           /\ ph = "done" => flow[f].phase \in {"starting", "releasing"}
           /\ activeFlow' = activeFlow
<1> DEFINE Fits(ph, s) == /\ FlowBecomes(f, ph, s) /\ FitPhase(f, ph, s)
                          /\ ph = "done" => flow[f].phase \in {"starting", "releasing"}
                          /\ activeFlow' = activeFlow
<1> SUFFICES \E ph \in Phases, s \in Results : Fits(ph, s) OBVIOUS
<1>0. FlowIsFormed(f) /\ flow[f].result \in Results BY DEF AuthInv, AuthStates, FlowRecord
<1>1. CASE StartReceives(f, a)
  <2>1. flow[f].phase = "starting" /\ flow' = Ended(f, "FAILED") /\ activeFlow' = activeFlow
    BY <1>1 DEF StartReceives
  <2>2. FlowBecomes(f, "done", "FAILED") BY <2>1, EndedBecomes DEF Ended, Phases, Results
  <2>3. FitPhase(f, "done", "FAILED") BY <2>1 DEF FitPhase
  <2>4. Fits("done", "FAILED") BY <2>1, <2>2, <2>3
  <2> QED BY <2>4 DEF Phases, Results
<1>2. ASSUME NEW s \in Results, s # "none", Conclude(f, s), activeFlow' = activeFlow,
             flow[f].phase \in {"polling", "authorizing", "reloading", "checking"}
      PROVE  \E ph \in Phases, x \in Results : Fits(ph, x)
  <2> DEFINE ph == IF ByDevice(Prov(f)) THEN "releasing" ELSE "settling"
  <2>1. FlowBecomes(f, ph, s) BY <1>2, ConcludeBecomes
  <2>2. FitPhase(f, ph, s) BY <1>2 DEF FitPhase
  <2>3. Fits(ph, s) BY <1>2, <2>1, <2>2
  <2> QED BY <2>3 DEF Phases
<1>3. ASSUME NEW ph \in Phases, flow' = WithPhase(f, ph), activeFlow' = activeFlow,
             FitPhase(f, ph, flow[f].result),
             ph = "done" => flow[f].phase \in {"starting", "releasing"}
      PROVE  \E x \in Phases, s \in Results : Fits(x, s)
  <2>1. FlowBecomes(f, ph, flow[f].result) BY <1>3, WithPhaseBecomes
  <2>2. Fits(ph, flow[f].result) BY <1>3, <2>1
  <2> QED BY <1>0, <2>2
<1> HIDE DEF Fits
<1>4. CASE PollReceives(f, a) /\ activeFlow' = activeFlow
  <2>1. flow[f].phase = "polling" BY <1>4 DEF PollReceives
  <2>2. CASE Conclude(f, "FAILED") BY <1>2, <1>4, <2>1, <2>2 DEF Results
  <2>3. CASE \E ph \in {"reloading", "waiting"} : flow' = WithPhase(f, ph)
    <3>1. PICK ph \in {"reloading", "waiting"} : flow' = WithPhase(f, ph) BY <2>3
    <3>2. FitPhase(f, ph, flow[f].result) BY <1>0, <2>1, <3>1 DEF FitPhase, FlowIsFormed
    <3> QED BY <1>3, <1>4, <3>1, <3>2 DEF Phases
  <2> QED BY <1>4, <2>2, <2>3 DEF PollReceives
<1>5. CASE SubmissionReceives(f, a) /\ activeFlow' = activeFlow
  <2>1. flow[f].phase = "authorizing" BY <1>5 DEF SubmissionReceives
  <2>2. CASE Conclude(f, "FAILED") BY <1>2, <1>5, <2>1, <2>2 DEF Results
  <2>3. CASE flow' = WithPhase(f, "reloading")
    <3>1. FitPhase(f, "reloading", flow[f].result) BY <1>0, <2>1 DEF FitPhase, FlowIsFormed
    <3> QED BY <1>3, <1>5, <2>3, <3>1 DEF Phases
  <2> QED BY <1>5, <2>2, <2>3 DEF SubmissionReceives
<1>6. CASE VerifyReceives(f, a) /\ activeFlow' = activeFlow
  <2>1. flow[f].phase \in {"reloading", "checking"} BY <1>6 DEF VerifyReceives
  <2>2. CASE \E s \in {"READY", "FAILED"} : Conclude(f, s)
    BY <1>2, <1>6, <2>1, <2>2 DEF Results
  <2>3. CASE flow' = WithPhase(f, "checking")
    <3>1. FitPhase(f, "checking", flow[f].result) BY <1>0, <2>1 DEF FitPhase, FlowIsFormed
    <3> QED BY <1>3, <1>6, <2>3, <3>1 DEF Phases
  <2> QED BY <1>6, <2>2, <2>3 DEF VerifyReceives
<1>7. CASE flow[f].phase = "releasing" /\ flow' = WithPhase(f, "done") /\ activeFlow' = activeFlow
  <2>1. FitPhase(f, "done", flow[f].result) BY <1>0, <1>7 DEF FitPhase, FlowIsFormed
  <2> QED BY <1>3, <1>7, <2>1 DEF Phases
<1> QED BY <1>1, <1>4, <1>5, <1>6, <1>7 DEF FlowReceives

LEMMA EffectMoves ==
  ASSUME AuthInv, NEW c \in Callers, Wants(c), NEW child, NEW sv, NEW pool, NEW a,
         Effect(c, child, sv, pool, a),
         onthespot' = child, saved' = sv
  PROVE  /\ Writes
         /\ \A f \in Flows : onthespot'[f] = "pending" =>
              onthespot[f] = "pending" \/ (c = FlowCall(f) /\ flow[f].phase = "starting" /\ a = "started")
<1>1. ASSUME NEW f \in Flows, c = FlowCall(f) PROVE LiveFlow(f)
  <2>1. c.who = "flow" /\ c.id = f BY <1>1, CallersDiffer
  <2> QED BY <2>1 DEF Wants, LiveFlow
<1>2. \A p \in Providers : sv[p] \subseteq Flows BY DEF Effect
<1>3. Writes BY <1>1, <1>2 DEF Writes, Effect
<1> QED BY <1>3 DEF Effect

LEMMA StartedKeeps ==
  ASSUME AuthInv, NEW f \in Flows, Wants(FlowCall(f)), NEW child, NEW sv, NEW pool,
         Effect(FlowCall(f), child, sv, pool, "started"), flow[f].phase = "starting",
         onthespot' = child, saved' = sv, accounts' = pool,
         flow' = WithPhase(f, "waiting"), activeFlow' = [activeFlow EXCEPT ![Prov(f)] = f],
         ipc' = Idle, faults' \in 0..MaxFaults, UNCHANGED <<cancelOp, reset, msg, cancelled>>
  PROVE  FinalStep
<1> DEFINE p == Prov(f)
<1>1. FlowBecomes(f, "waiting", flow[f].result) BY WithPhaseBecomes DEF Phases
<1>2. /\ flow \in [Flows -> FlowRecord] /\ flow' \in [Flows -> FlowRecord]
      /\ flow'[f].provider = flow[f].provider /\ flow'[f].phase = "waiting"
      /\ flow'[f].result = flow[f].result
      /\ \A g \in Flows : g # f => flow'[g] = flow[g]
  BY <1>1 DEF FlowBecomes, AuthInv, AuthStates
<1>3. p \in Providers /\ \A g \in Flows : Prov(g) \in Providers /\ Prov(g)' = Prov(g)
  BY <1>2 DEF FlowRecord, Prov
<1>4. /\ activeFlow \in [Providers -> Flows \cup {NoFlow}] /\ NoFlow \notin Flows
      /\ activeFlow' \in [Providers -> Flows \cup {NoFlow}]
      /\ \A q \in Providers : q # p => activeFlow'[q] = activeFlow[q]
      /\ activeFlow'[p] = f
  BY <1>3, AuthAssumption DEF AuthInv, AuthStates
<1>5. AuthStates'
  BY <1>2, <1>4 DEF AuthInv, AuthStates, Effect
<1>6. /\ FlowCall(f) \in Callers
      /\ \A g \in Flows : FlowCall(f) = FlowCall(g) => f = g
      /\ \A q \in Providers : FlowCall(f) # CancelCall(q) /\ FlowCall(f) # ResetCall(q)
  <2>1. FlowCall(f).who = "flow" /\ FlowCall(f).id = f BY CallersDiffer
  <2>2. \A g \in Flows : FlowCall(g).id = g BY CallersDiffer
  <2>3. \A q \in Providers : CancelCall(q).who # "flow" /\ ResetCall(q).who # "flow"
    BY CallersDiffer
  <2> QED BY <2>1, <2>2, <2>3, CallersDiffer
<1>7. /\ Writes
      /\ \A g \in Flows : onthespot'[g] = "pending" => onthespot[g] = "pending" \/ g = f
  BY <1>6, EffectMoves
<1>8. ~IsActive(p) /\ \A g \in Flows : flow[g].phase = "starting" => g = f
  BY DEF AuthInv, StartIsAlone
<1>9. \A g \in Flows : LiveFlow(g)' = LiveFlow(g) BY <1>2 DEF LiveFlow
<1>10. ByDevice(p) /\ flow[f].result = "none" BY DEF AuthInv, FlowIsFormed
<1>11. ASSUME NEW g \in Flows PROVE FlowIsFormed(g)'
  <2>1. FlowIsFormed(g) BY DEF AuthInv
  <2>2. CASE g = f BY <1>2, <1>3, <1>10, <2>2 DEF FlowIsFormed, ByDevice
  <2>3. CASE g # f BY <1>2, <1>3, <2>1, <2>3 DEF FlowIsFormed, ByDevice
  <2> QED BY <2>2, <2>3
<1>12. ASSUME NEW g \in Flows PROVE FlowIsTracked(g)'
  <2> SUFFICES ASSUME LiveFlow(g), g # f PROVE activeFlow'[Prov(g)] = g
    BY <1>3, <1>4, <1>9 DEF FlowIsTracked
  <2>1. activeFlow[Prov(g)] = g BY <1>8 DEF AuthInv, FlowIsTracked
  <2>2. Prov(g) # p BY <1>4, <1>8, <2>1 DEF IsActive
  <2> QED BY <1>3, <1>4, <2>1, <2>2
<1>13. ASSUME NEW g \in Flows PROVE StartIsAlone(g)'
  <2>1. flow'[g].phase # "starting" BY <1>2, <1>8
  <2> QED BY <2>1 DEF StartIsAlone
<1>14. ASSUME NEW q \in Providers PROVE ActiveIsOwn(q)'
  <2>1. ActiveIsOwn(q) BY DEF AuthInv
  <2>2. CASE q = p BY <1>2, <1>3, <1>4, <2>2 DEF ActiveIsOwn
  <2>3. CASE q # p BY <1>2, <1>3, <1>4, <2>1, <2>3 DEF ActiveIsOwn, Prov
  <2> QED BY <2>2, <2>3
<1>15. ASSUME NEW g \in Flows PROVE PendingIsFollowed(g)'
  <2> SUFFICES ASSUME onthespot'[g] = "pending"
               PROVE  LiveFlow(g) /\ flow'[g].phase # "starting" /\ ByDevice(Prov(g))
    BY <1>3, <1>9 DEF PendingIsFollowed, ByDevice
  <2>1. CASE g = f BY <1>2, <1>10, <2>1 DEF LiveFlow
  <2>2. CASE g # f BY <1>2, <1>7, <2>2 DEF AuthInv, PendingIsFollowed
  <2> QED BY <2>1, <2>2
<1>16. ASSUME NEW q \in Providers PROVE CancelIsOrdered(q)'
  <2> SUFFICES ASSUME cancelOp[q].phase # "idle" PROVE CancelIsOrdered(q)'
    BY DEF CancelIsOrdered
  <2> DEFINE g == cancelOp[q].flow
  <2>1. /\ g \in Flows /\ Prov(g) = q /\ flow[g].phase \notin {"new", "starting"}
        /\ cancelOp[q].phase \in {"stopping", "recording"} => onthespot[g] # "pending"
        /\ cancelOp[q].phase = "recording" => flow[g].phase = "done"
    BY DEF AuthInv, CancelIsOrdered
  <2>2. g # f /\ flow'[g] = flow[g] BY <1>2, <2>1
  <2>3. onthespot'[g] = "pending" => onthespot[g] = "pending" BY <1>7, <2>1, <2>2
  <2> QED BY <1>3, <2>1, <2>2, <2>3 DEF CancelIsOrdered
<1>17. ASSUME NEW q \in Providers PROVE ResetIsOrdered(q)'
  <2>1. ResetIsOrdered(q) /\ reset[q].old \subseteq Flows
    BY DEF AuthInv, AuthStates, ResetRecord
  <2>2. \A g \in reset[q].old : /\ Prov(g)' = Prov(g) /\ LiveFlow(g)' = LiveFlow(g)
                                /\ (flow[g].phase # "new" => flow'[g].phase # "new")
    BY <1>2, <1>3, <1>9, <2>1
  <2>3. reset[q].phase \in {"verifying", "disconnected"} => saved'[q] \cap reset[q].old = {}
    BY <1>7, <2>1 DEF ResetIsOrdered, Writes
  <2> QED BY <2>1, <2>2, <2>3 DEF ResetIsOrdered
<1>18. CancelledHasEnded' BY <1>2 DEF AuthInv, AuthStates, CancelledHasEnded
<1>19. CallIsWanted' BY DEF CallIsWanted
<1>20. AuthInv'
  BY <1>5, <1>11, <1>12, <1>13, <1>14, <1>15, <1>16, <1>17, <1>18, <1>19 DEF AuthInv
<1>21. StaysEnded BY <1>2 DEF StaysEnded
<1>22. StaysCancelled
  BY <1>7 DEF StaysCancelled, Writes, LiveFlow, AuthInv, CancelledHasEnded
<1> QED BY <1>20, <1>21, <1>22 DEF FinalStep

LEMMA ReceiveKeeps ==
  ASSUME AuthInv, NEW c \in Callers, Wants(c), NEW child, NEW sv, NEW pool, NEW a,
         Effect(c, child, sv, pool, a), Receive(c, a),
         onthespot' = child, saved' = sv, accounts' = pool,
         ipc' = Idle, faults' \in 0..MaxFaults, UNCHANGED <<msg, cancelled>>
  PROVE  FinalStep
<1>0. CallIsWanted' BY DEF CallIsWanted
<1>1. /\ Writes
      /\ \A f \in Flows : onthespot'[f] = "pending" =>
           onthespot[f] = "pending" \/ (c = FlowCall(f) /\ flow[f].phase = "starting" /\ a = "started")
  BY EffectMoves
<1>2. ASSUME NEW f \in Flows, c = FlowCall(f) PROVE FinalStep
  <2>1. FlowReceives(f, a) /\ UNCHANGED <<cancelOp, reset>>
    BY <1>2, CallersDiffer DEF Receive
  <2>2. CASE flow[f].phase = "starting" /\ a = "started"
    <3>1. flow' = WithPhase(f, "waiting") /\ activeFlow' = [activeFlow EXCEPT ![Prov(f)] = f]
      BY <2>1, <2>2 DEF FlowReceives, StartReceives, PollReceives, SubmissionReceives,
                        VerifyReceives
    <3> QED BY <1>2, <2>1, <2>2, <3>1, StartedKeeps
  <2>3. CASE ~(flow[f].phase = "starting" /\ a = "started")
    <3>1. PICK ph \in Phases, s \in Results :
            /\ FlowBecomes(f, ph, s) /\ FitPhase(f, ph, s)
            /\ ph = "done" => flow[f].phase \in {"starting", "releasing"}
            /\ activeFlow' = activeFlow
      BY <2>1, <2>3, ReceiveBecomes
    <3>2. Moves /\ \A g \in Flows : FlowIsFormed(g)' BY <3>1, BecomesMoves
    <3>3. AuthStates' BY <2>1, <3>1 DEF AuthInv, AuthStates, Effect, FlowBecomes
    <3>4. Forgets BY <3>1 DEF Forgets
    <3>5. Pends
      <4>1. SUFFICES ASSUME NEW g \in Flows, onthespot'[g] = "pending"
                     PROVE  onthespot[g] = "pending" /\ (flow'[g] = flow[g] \/ flow'[g].phase # "done")
        BY DEF Pends
      <4>2. onthespot[g] = "pending"
        <5>1. CASE g = f BY <1>1, <2>3, <4>1, <5>1
        <5>2. CASE g # f
          <6>1. c # FlowCall(g) BY <1>2, <5>2, CallersDiffer
          <6> QED BY <1>1, <4>1, <6>1
        <5> QED BY <5>1, <5>2
      <4>3. g = f => flow[f].phase # "releasing" BY <1>2, <4>1 DEF Effect
      <4>4. g = f => flow[f].phase # "starting" BY <4>2 DEF AuthInv, PendingIsFollowed
      <4> QED BY <3>1, <4>2, <4>3, <4>4 DEF FlowBecomes
    <3> QED BY <1>0, <1>1, <2>1, <3>2, <3>3, <3>4, <3>5, TableKept, StepKept
  <2> QED BY <2>2, <2>3
<1>3. ASSUME NEW p \in Providers, c = CancelCall(p) PROVE FinalStep
  <2>1. c.who = "cancel" /\ c.id = p BY <1>3, CallersDiffer
  <2>2. /\ cancelOp' = [cancelOp EXCEPT ![p].phase = "stopping"]
        /\ UNCHANGED <<flow, activeFlow, reset>>
    BY <2>1 DEF Receive
  <2>3. cancelOp[p].phase = "child" /\ cancelOp[p] \in CancelRecord
    BY <2>1 DEF Wants, AuthInv, AuthStates
  <2> DEFINE r == [cancelOp[p] EXCEPT !.phase = "stopping"]
  <2>4. r \in CancelRecord /\ r.phase = "stopping" /\ r.flow = cancelOp[p].flow
    BY <2>3 DEF CancelRecord
  <2>5. cancelOp' = [cancelOp EXCEPT ![p] = r] BY <2>2
  <2> HIDE DEF r
  <2>6. /\ cancelOp' \in [Providers -> CancelRecord] /\ cancelOp'[p] = r
        /\ \A q \in Providers : q # p => cancelOp'[q] = cancelOp[q]
    BY <2>4, <2>5 DEF AuthInv, AuthStates
  <2>7. AuthStates' BY <2>2, <2>6 DEF AuthInv, AuthStates, Effect
  <2>8. \A f \in Flows : onthespot'[f] = "pending" => onthespot[f] = "pending"
    BY <1>1, <2>1, CallersDiffer
  <2>9. Moves /\ Forgets /\ Pends /\ \A f \in Flows : FlowIsFormed(f)'
    BY <2>2, <2>8 DEF Moves, Forgets, Pends, AuthInv, FlowIsFormed, Prov, ByDevice
  <2>10. CancelIsOrdered(p)'
    <3>1. CancelIsOrdered(p) BY DEF AuthInv
    <3>2. onthespot'[cancelOp[p].flow] # "pending" BY <1>3 DEF Effect
    <3> QED BY <2>2, <2>3, <2>4, <2>6, <3>1, <3>2 DEF CancelIsOrdered, Prov
  <2>11. \A q \in Providers :
           /\ reset'[q] = reset[q]
           /\ (reset[q].phase = "cancelling" =>
                 cancelOp'[q].phase # "idle" /\ cancelOp'[q].flow = cancelOp[q].flow)
    BY <2>2, <2>4, <2>6 DEF AuthInv, ResetIsOrdered
  <2> QED BY <1>0, <1>1, <2>6, <2>7, <2>9, <2>10, <2>11, StepKept
<1>4. ASSUME NEW p \in Providers, c = ResetCall(p) PROVE FinalStep
  <2>1. c.who = "reset" /\ c.id = p BY <1>4, CallersDiffer
  <2>2. ResetReceives(p, a) /\ UNCHANGED <<flow, activeFlow, cancelOp>> BY <2>1 DEF Receive
  <2>3. reset[p].phase \in {"resetting", "verifying"} /\ reset[p] \in ResetRecord
    BY <2>1 DEF Wants, AuthInv, AuthStates
  <2> DEFINE ph == CASE reset[p].phase = "resetting" /\ a = "ok" -> "verifying"
                     [] reset[p].phase = "verifying" /\ a = "unconfigured" -> "disconnected"
                     [] OTHER -> "failed"
             r == [reset[p] EXCEPT !.phase = ph]
  <2>4. /\ ph \in {"verifying", "disconnected", "failed"}
        /\ ph = "verifying" => reset[p].phase = "resetting" /\ a = "ok"
        /\ ph = "disconnected" => reset[p].phase = "verifying"
    BY <2>3
  <2>5. reset' = [reset EXCEPT ![p] = r] BY <2>2 DEF ResetReceives
  <2> HIDE DEF ph
  <2>6. r \in ResetRecord /\ r.phase = ph /\ r.old = reset[p].old
    BY <2>3, <2>4 DEF ResetRecord
  <2> HIDE DEF r
  <2>7. /\ reset' \in [Providers -> ResetRecord] /\ reset'[p] = r
        /\ \A q \in Providers : q # p => reset'[q] = reset[q]
    BY <2>5, <2>6 DEF AuthInv, AuthStates
  <2>8. AuthStates' BY <2>2, <2>7 DEF AuthInv, AuthStates, Effect
  <2>9. \A f \in Flows : onthespot'[f] = "pending" => onthespot[f] = "pending"
    BY <1>1, <2>1, CallersDiffer
  <2>10. Moves /\ Forgets /\ Pends /\ \A f \in Flows : FlowIsFormed(f)'
    BY <2>2, <2>9 DEF Moves, Forgets, Pends, AuthInv, FlowIsFormed, Prov, ByDevice
  <2>11. ResetIsOrdered(p)'
    <3>1. ResetIsOrdered(p) /\ reset[p].old \subseteq Flows
      BY <2>3 DEF AuthInv, ResetRecord
    <3>2. ph \in {"verifying", "disconnected"} => saved'[p] \cap reset[p].old = {}
      <4>1. CASE ph = "verifying" BY <1>4, <2>4, <4>1 DEF Effect
      <4>2. CASE ph = "disconnected" BY <1>1, <2>4, <3>1, <4>2 DEF ResetIsOrdered, Writes
      <4> QED BY <4>1, <4>2
    <3> QED BY <2>2, <2>3, <2>4, <2>6, <2>7, <3>1, <3>2 DEF ResetIsOrdered, LiveFlow, Prov
  <2>12. \A q \in Providers :
           \/ /\ reset'[q] = reset[q]
              /\ (reset[q].phase = "cancelling" =>
                    cancelOp'[q].phase # "idle" /\ cancelOp'[q].flow = cancelOp[q].flow)
           \/ ResetIsOrdered(q)'
    BY <2>2, <2>7, <2>11 DEF AuthInv, ResetIsOrdered
  <2> QED BY <1>0, <1>1, <2>2, <2>8, <2>10, <2>12, StepKept
<1> QED BY <1>2, <1>3, <1>4, CallersDiffer

LEMMA AnswerKeeps ==
  ASSUME AuthInv, NEW c \in Callers, AnswerCall(c)
  PROVE  FinalStep
<1>1. PICK r \in Replies(c) : /\ onthespot' = r.child /\ saved' = r.saved /\ accounts' = r.pool
                              /\ Receive(c, r.answer)
  BY DEF AnswerCall
<1>2. Wants(c) BY DEF AnswerCall, AuthInv, CallIsWanted
<1>3. Effect(c, r.child, r.saved, r.pool, r.answer) BY <1>2, RepliesFit DEF EffectOf
<1>4. ipc' = Idle /\ faults' \in 0..MaxFaults /\ UNCHANGED <<msg, cancelled>>
  BY DEF AnswerCall, room, AuthInv, AuthStates
<1> QED BY <1>1, <1>2, <1>3, <1>4, ReceiveKeeps

LEMMA BreakKeeps ==
  ASSUME AuthInv, NEW c \in Callers, Break(c)
  PROVE  FinalStep
<1>1. PICK r \in Replies(c) \cup {Unchanged("error")} :
        onthespot' = [f \in Flows |-> "none"] /\ saved' = r.saved /\ accounts' = r.saved
  BY DEF Break, Killed
<1>2. Wants(c) BY DEF Break, AuthInv, CallIsWanted
<1>3. Effect(c, [f \in Flows |-> "none"], r.saved, r.saved, "error") BY <1>2, BrokenFits
<1>4. ipc' = Idle /\ faults' \in 0..MaxFaults /\ UNCHANGED <<msg, cancelled>>
  BY AuthAssumption DEF Break, room, AuthInv, AuthStates
<1>5. Receive(c, "error") BY DEF Break
<1> QED BY <1>1, <1>2, <1>3, <1>4, <1>5, ReceiveKeeps

LEMMA CancelStopsKeeps ==
  ASSUME AuthInv, NEW p \in Providers, CancelStops(p)
  PROVE  FinalStep
<1> DEFINE f == cancelOp[p].flow
<1>1. cancelOp[p].phase = "stopping" /\ UNCHANGED <<activeFlow, reset, faults, msg, cancelled>>
  BY DEF CancelStops, room
<1>2. f \in Flows /\ Prov(f) = p /\ flow[f].phase \notin {"new", "starting"} /\ onthespot[f] # "pending"
  BY <1>1 DEF AuthInv, CancelIsOrdered
<1>3. /\ flow' = IF LiveFlow(f) THEN Ended(f, "CANCELLED") ELSE flow
      /\ cancelOp' = [cancelOp EXCEPT ![p].phase = "recording"]
      /\ IF ipc = FlowCall(f) THEN Killed(ipc) /\ ipc' = Idle ELSE UNCHANGED <<process, ipc>>
  BY DEF CancelStops
<1>4. cancelOp[p] \in CancelRecord /\ cancelOp[p].flow = f BY DEF AuthInv, AuthStates
<1> HIDE DEF f
<1> DEFINE r == [cancelOp[p] EXCEPT !.phase = "recording"]
<1>5. r \in CancelRecord /\ r.phase = "recording" /\ r.flow = f
  BY <1>4 DEF CancelRecord
<1>6. cancelOp' = [cancelOp EXCEPT ![p] = r] BY <1>3
<1> HIDE DEF r
<1>7. /\ cancelOp' \in [Providers -> CancelRecord] /\ cancelOp'[p] = r
      /\ \A q \in Providers : q # p => cancelOp'[q] = cancelOp[q]
  BY <1>5, <1>6 DEF AuthInv, AuthStates
<1>8. /\ Moves /\ \A g \in Flows : FlowIsFormed(g)'
      /\ flow' \in [Flows -> FlowRecord] /\ flow'[f].phase = "done"
      /\ flow'[f].provider = p
      /\ \A g \in Flows : g # f => flow'[g] = flow[g]
  <2>1. CASE LiveFlow(f)
    <3>1. FlowBecomes(f, "done", "CANCELLED")
      BY <1>2, <1>3, <2>1, EndedBecomes DEF Ended, Phases, Results
    <3>2. FitPhase(f, "done", "CANCELLED") BY <2>1 DEF FitPhase, LiveFlow
    <3> QED BY <1>2, <3>1, <3>2, BecomesMoves DEF FlowBecomes, Prov
  <2>2. CASE ~LiveFlow(f)
    <3>1. flow' = flow BY <1>3, <2>2
    <3>2. flow[f].phase = "done" BY <1>2, <2>2 DEF LiveFlow
    <3> QED BY <1>2, <3>1, <3>2 DEF Moves, AuthInv, AuthStates, FlowIsFormed, Prov, ByDevice
  <2> QED BY <2>1, <2>2
<1>9. /\ onthespot' \in [Flows -> ChildState] /\ saved' \in [Providers -> SUBSET Flows]
      /\ accounts' \in [Providers -> SUBSET Flows] /\ ipc' \in Callers \cup {Idle}
      /\ \A g \in Flows : onthespot'[g] = "pending" => onthespot[g] = "pending"
      /\ Writes
  <2>1. CASE ipc = FlowCall(f)
    <3>1. ipc \in Callers /\ ipc # Idle BY <1>2, <2>1, CallersDiffer
    <3>2. Wants(ipc) BY <3>1 DEF AuthInv, CallIsWanted
    <3>3. PICK x \in Replies(ipc) \cup {Unchanged("error")} :
            onthespot' = [g \in Flows |-> "none"] /\ saved' = x.saved /\ accounts' = x.saved
      BY <1>3, <2>1 DEF Killed
    <3> DEFINE c == ipc
               child == [g \in Flows |-> "none"]
    <3>4. c \in Callers /\ Wants(c) /\ x \in Replies(c) \cup {Unchanged("error")}
      BY <3>1, <3>2, <3>3
    <3>5. Effect(c, child, x.saved, x.saved, "error") BY <3>4, BrokenFits
    <3>6. Writes /\ \A g \in Flows : onthespot'[g] = "pending" => onthespot[g] = "pending"
      BY <3>3, <3>4, <3>5, EffectMoves
    <3>7. ipc' = Idle BY <1>3, <2>1
    <3> QED BY <3>3, <3>5, <3>6, <3>7 DEF Effect
  <2>2. CASE ipc # FlowCall(f)
    BY <1>3, <2>2 DEF AuthInv, AuthStates, Writes, process
  <2> QED BY <2>1, <2>2
<1>10. AuthStates' BY <1>1, <1>7, <1>8, <1>9 DEF AuthInv, AuthStates
<1>11. Forgets BY <1>1 DEF Forgets
<1>12. Pends BY <1>2, <1>8, <1>9 DEF Pends
<1>13. CancelIsOrdered(p)' BY <1>2, <1>5, <1>7, <1>8, <1>9 DEF CancelIsOrdered, Prov
<1>14. CallIsWanted'
  <2>1. CASE ipc = FlowCall(f) BY <1>3, <2>1 DEF CallIsWanted
  <2>2. CASE ipc # FlowCall(f)
    <3>1. \A q \in Providers : ipc = CancelCall(q) => cancelOp'[q] = cancelOp[q]
      BY <1>1, <1>7, CancelWants
    <3> QED BY <1>1, <1>3, <1>8, <1>10, <2>2, <3>1, WantedKept
  <2> QED BY <2>1, <2>2
<1>15. \A q \in Providers :
         /\ reset'[q] = reset[q]
         /\ (reset[q].phase = "cancelling" =>
               cancelOp'[q].phase # "idle" /\ cancelOp'[q].flow = cancelOp[q].flow)
  BY <1>1, <1>4, <1>5, <1>7 DEF AuthInv, ResetIsOrdered
<1> QED BY <1>1, <1>7, <1>8, <1>9, <1>10, <1>11, <1>12, <1>13, <1>14, <1>15, StepKept

-----------------------------------------------------------------------------
(* Shutdown.                                                               *)

LEMMA CloseKeeps ==
  ASSUME AuthInv, Close
  PROVE  FinalStep
<1>1. UNCHANGED <<flow, activeFlow, reset, process, ipc, faults, msg, cancelled>> BY DEF Close, room
<1>2. ASSUME NEW p \in Providers
      PROVE  \/ cancelOp'[p] = cancelOp[p]
             \/ /\ cancelOp'[p] = [phase |-> "child", flow |-> activeFlow[p]]
                /\ IsActive(p) /\ cancelOp[p].phase = "idle"
  BY DEF Close
<1>3. \A p \in Providers : IsActive(p) =>
        activeFlow[p] \in Flows /\ LiveFlow(activeFlow[p]) /\ Prov(activeFlow[p]) = p
  BY DEF AuthInv, AuthStates, IsActive, ActiveIsOwn
<1>4. ASSUME NEW p \in Providers PROVE cancelOp'[p] \in CancelRecord
  <2>1. CASE cancelOp'[p] = cancelOp[p] BY <2>1 DEF AuthInv, AuthStates
  <2>2. CASE cancelOp'[p] # cancelOp[p]
    <3>1. cancelOp'[p] = [phase |-> "child", flow |-> activeFlow[p]] /\ activeFlow[p] \in Flows
      BY <1>2, <1>3, <2>2
    <3> QED BY <3>1 DEF CancelRecord
  <2> QED BY <2>1, <2>2
<1>5. cancelOp' \in [Providers -> CancelRecord] BY <1>4 DEF Close
<1>6. AuthStates' BY <1>1, <1>5 DEF AuthInv, AuthStates, process
<1>7. Moves BY <1>1 DEF Moves
<1>8. ASSUME NEW f \in Flows PROVE FlowIsFormed(f)'
  BY <1>1 DEF AuthInv, FlowIsFormed, Prov, ByDevice
<1>9. Forgets /\ Writes BY <1>1 DEF Forgets, Writes, process
<1>10. Pends BY <1>1 DEF Pends, process
<1>11. \A p \in Providers : cancelOp'[p] = cancelOp[p] \/ CancelIsOrdered(p)'
  BY <1>2, <1>3, <1>6, <1>7, CancelBegins
<1>12. CallIsWanted'
  <2>1. \A p \in Providers : ipc = CancelCall(p) => cancelOp'[p] = cancelOp[p]
    BY <1>2, CancelWants
  <2> QED BY <1>1, <1>6, <2>1, WantedKept
<1>13. \A q \in Providers :
         /\ reset'[q] = reset[q]
         /\ (reset[q].phase = "cancelling" =>
               cancelOp'[q].phase # "idle" /\ cancelOp'[q].flow = cancelOp[q].flow)
  BY <1>1, <1>2 DEF AuthInv, ResetIsOrdered
<1> QED BY <1>1, <1>6, <1>7, <1>8, <1>9, <1>10, <1>11, <1>12, <1>13, StepKept

LEMMA CloseSecretsKeeps ==
  ASSUME AuthInv, CloseSecrets
  PROVE  FinalStep
<1>1. UNCHANGED <<activeFlow, cancelOp, reset, process, ipc, faults, msg, cancelled>>
  BY DEF CloseSecrets, room
<1>2. ASSUME NEW f \in Flows
      PROVE  /\ flow'[f] \in FlowRecord /\ flow'[f].provider = flow[f].provider
             /\ flow[f].phase # "open" => flow'[f] = flow[f]
             /\ flow[f].phase = "open" =>
                  flow'[f].phase = "done" /\ flow'[f].result = "CANCELLED"
  <2>1. flow'[f] = ClosedFlow(f) BY DEF CloseSecrets
  <2>2. flow[f] \in FlowRecord BY DEF AuthInv, AuthStates
  <2> DEFINE old == flow[f]
             r == [old EXCEPT !.phase = "done", !.result = "CANCELLED"]
  <2>3. ClosedFlow(f) = IF old.phase = "open" THEN r ELSE old BY DEF ClosedFlow
  <2>4. old \in FlowRecord BY <2>2
  <2>5. /\ r \in FlowRecord /\ r.provider = old.provider /\ r.phase = "done"
        /\ r.result = "CANCELLED"
    <3> HIDE DEF old
    <3> QED BY <2>4 DEF FlowRecord, Phases, Results
  <2> HIDE DEF r
  <2> QED BY <2>1, <2>2, <2>3, <2>5
<1>3. flow' \in [Flows -> FlowRecord] BY <1>2 DEF CloseSecrets
<1>4. AuthStates' BY <1>1, <1>3 DEF AuthInv, AuthStates, process
<1>5. Moves BY <1>2 DEF Moves
<1>6. ASSUME NEW f \in Flows PROVE FlowIsFormed(f)'
  BY <1>2 DEF AuthInv, FlowIsFormed, Prov, ByDevice
<1>7. Forgets /\ Writes BY <1>1 DEF Forgets, Writes, process
<1>8. Pends
  <2>1. \A f \in Flows : onthespot[f] = "pending" => flow[f].phase # "open"
    BY DEF AuthInv, FlowIsFormed, PendingIsFollowed
  <2> QED BY <1>1, <1>2, <2>1 DEF Pends, process
<1>9. CallIsWanted'
  <2>1. \A f \in Flows : ipc = FlowCall(f) => flow'[f] = flow[f] BY <1>2, CallWants
  <2> QED BY <1>1, <1>4, <2>1, WantedKept
<1>10. \A q \in Providers :
         /\ reset'[q] = reset[q]
         /\ (reset[q].phase = "cancelling" =>
               cancelOp'[q].phase # "idle" /\ cancelOp'[q].flow = cancelOp[q].flow)
  BY <1>1 DEF AuthInv, ResetIsOrdered
<1> QED BY <1>1, <1>4, <1>5, <1>6, <1>7, <1>8, <1>9, <1>10, StepKept

LEMMA AllClosedKeeps ==
  ASSUME AuthInv, AllClosed
  PROVE  FinalStep
<1>1. /\ UNCHANGED <<flow, cancelOp, reset, saved, accounts, ipc, faults, msg, cancelled>>
      /\ ipc = Idle
      /\ activeFlow' = [p \in Providers |-> NoFlow]
      /\ onthespot' = [f \in Flows |-> "none"]
      /\ \A f \in Flows : ~LiveFlow(f)
      /\ \A p \in Providers : reset[p].phase \in {"idle", "disconnected", "failed"}
  BY DEF AllClosed, room
<1>2. AuthStates' BY <1>1 DEF AuthInv, AuthStates, ChildState
<1>3. Moves /\ Pends /\ Writes BY <1>1 DEF Moves, Pends, Writes
<1>4. Forgets BY <1>1 DEF Forgets, AuthInv, AuthStates, ActiveIsOwn, LiveFlow
<1>5. \A f \in Flows : FlowIsFormed(f)' BY <1>1 DEF AuthInv, FlowIsFormed, Prov, ByDevice
<1>6. CallIsWanted' BY <1>1 DEF CallIsWanted
<1> QED BY <1>1, <1>2, <1>3, <1>4, <1>5, <1>6, StepKept

LEMMA AuthNextInv == AuthInv /\ [AuthNext]_authVars => FinalStep
<1> SUFFICES ASSUME AuthInv, [AuthNext]_authVars PROVE FinalStep OBVIOUS
<1>1. ASSUME NEW c \in Callers, Begin(c) \/ AnswerCall(c) \/ Break(c) PROVE FinalStep
  BY <1>1, BeginKeeps, AnswerKeeps, BreakKeeps
<1>2. ASSUME NEW f \in Flows, Poll(f) \/ Expire(f) \/ SettleFlow(f) \/ ReleaseFlow(f) PROVE FinalStep
  BY <1>2, PollKeeps, ExpireKeeps, SettleKeeps, ReleaseKeeps
<1>3. ASSUME NEW f \in Flows, NEW p \in Providers, StartDevice(f, p) \/ StartSensitive(f, p)
      PROVE  FinalStep
  BY <1>3, StartKeeps
<1>4. ASSUME NEW p \in Providers, Cancel(p) \/ CancelStops(p) \/ CancelRecords(p) \/ Disconnect(p)
      PROVE  FinalStep
  BY <1>4, CancelKeeps, CancelStopsKeeps, CancelRecordsKeeps, DisconnectKeeps
<1>5. ASSUME NEW m \in Messages,
             Route(m) \/ Recheck(m) \/ RejectSecret(m) \/ SubmitSecret(m) \/ Handled(m)
      PROVE  FinalStep
  BY <1>5, RouteKeeps, RecheckKeeps, RejectKeeps, SubmitKeeps, HandledKeeps
<1>6. CASE UNCHANGED authVars
  <2>1. msg' \in [Messages -> MessageRecord] BY <1>6 DEF authVars, AuthInv, AuthStates
  <2> QED BY <1>6, <2>1, RoomKeeps DEF authVars, process
<1> QED BY <1>1, <1>2, <1>3, <1>4, <1>5, <1>6, CloseKeeps, CloseSecretsKeeps, AllClosedKeeps
         DEF AuthNext
==============================================================================
