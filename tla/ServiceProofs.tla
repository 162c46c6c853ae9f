---------------------------- MODULE ServiceProofs ----------------------------
(***************************************************************************)
(* Theorems about the services around the downloads.  MCServices runs each *)
(* of them in a part of its own; every part takes steps of its component's *)
(* next-state relation, so one inductive invariant per component, proved   *)
(* here or in the module of its name, carries every part of it.            *)
(***************************************************************************)
EXTENDS MCServices, AuthorizationProofs, AccessProofs

-----------------------------------------------------------------------------
(* The worker pool: a task that serves a job is registered, and the tasks  *)
(* that serve are at most the maximum, whatever was called back.           *)

SlotPc == {None, "loop", "claim", "busy", "settling", "done"}
PoolPhase == {"new", "started", "stopping", "cancelling", "stopped"}

SlotRecord == [pc : SlotPc, retire : BOOLEAN, job : Job \cup {None}, beat : BOOLEAN]

PoolStates ==
  /\ setting \in 1..Maximum
  /\ pool \in [desired : Nat, accepting : BOOLEAN, phase : PoolPhase]
  /\ slot \in [Slot -> SlotRecord]
  /\ held \in [Job -> {"queued", "running", "stray"}]
  /\ activeJobs \in [Job -> Slot \cup {None}]
  /\ admin \in 0..Maximum
  /\ loop \in [pc : {"off", "idle", "apply"}, read : 0..Maximum]

(* A registered operation and the slot that runs it point at each other,   *)
(* and the job is RUNNING exactly as long.                                 *)
SlotWorks(s) == slot[s].pc \in {"busy", "settling"}
WorkIsRegistered ==
  /\ \A s \in Slot : SlotWorks(s) => slot[s].job \in Job /\ activeJobs[slot[s].job] = s
  /\ \A j \in Job : activeJobs[j] # None => SlotWorks(activeJobs[j]) /\ slot[activeJobs[j]].job = j
  /\ \A j \in Job : held[j] = "running" <=> activeJobs[j] # None

(* What the phases of the manager exclude.                                 *)
PhasesHold ==
  /\ loop.pc # "off" => pool.phase = "started"
  /\ pool.phase = "new" => \A s \in Slot : slot[s].pc = None
  /\ pool.phase = "stopped" => LiveSlots = {}

PoolInv == PoolStates /\ WorkIsRegistered /\ PhasesHold /\ PoolWithinMaximum

LEMMA PoolInvImplies == PoolInv => PoolTypeOK /\ PoolWithinMaximum /\ NothingRunsAfterStop
<1> SUFFICES ASSUME PoolInv PROVE PoolTypeOK /\ NothingRunsAfterStop
  BY DEF PoolInv
<1>1. PoolTypeOK
  BY DEF PoolInv, PoolStates, SlotPc, SlotRecord, PoolPhase, WorkIsRegistered, PoolTypeOK
<1>2. NothingRunsAfterStop
  <2> SUFFICES ASSUME pool.phase = "stopped", NEW j \in Job, held[j] = "running" PROVE FALSE
    BY DEF NothingRunsAfterStop
  <2>1. activeJobs[j] # None /\ activeJobs[j] \in Slot
    BY DEF PoolInv, PoolStates, WorkIsRegistered
  <2>2. activeJobs[j] \in LiveSlots
    BY <2>1 DEF PoolInv, PoolStates, WorkIsRegistered, SlotWorks, LiveSlots, None
  <2> QED BY <2>2 DEF PoolInv, PhasesHold
<1> QED BY <1>1, <1>2

LEMMA PoolInitInv == PoolInit => PoolInv
<1> SUFFICES ASSUME PoolInit PROVE PoolInv OBVIOUS
<1>1. PoolStates
  BY PoolAssumption DEF PoolInit, PoolStates, NoSlot, SlotPc, SlotRecord, PoolPhase
<1>2. WorkIsRegistered /\ PhasesHold
  BY DEF PoolInit, WorkIsRegistered, PhasesHold, SlotWorks, NoSlot, None
<1>3. LiveSlots = {}
  BY DEF PoolInit, LiveSlots, NoSlot
<1>4. PoolWithinMaximum
  BY <1>3, FS_EmptySet, PoolAssumption DEF PoolWithinMaximum
<1> QED BY <1>1, <1>2, <1>4 DEF PoolInv

LEMMA RecordUpdates ==
  ASSUME NEW r \in SlotRecord
  PROVE  /\ r.pc \in SlotPc
         /\ \A b \in BOOLEAN : [r EXCEPT !.retire = b] \in SlotRecord
         /\ \A b \in BOOLEAN : [r EXCEPT !.beat = b] \in SlotRecord
         /\ \A p \in SlotPc : [r EXCEPT !.pc = p] \in SlotRecord
         /\ \A p \in SlotPc, j \in Job \cup {None}, b \in BOOLEAN :
              [r EXCEPT !.pc = p, !.job = j, !.beat = b] \in SlotRecord
BY DEF SlotRecord

(* No new task: the bound is kept.                                         *)
LEMMA FewerTasks ==
  ASSUME PoolWithinMaximum, LiveSlots' \subseteq LiveSlots
  PROVE  PoolWithinMaximum'
<1>1. IsFiniteSet(LiveSlots) 
  BY PoolAssumption, FS_Subset DEF LiveSlots
<1>2. Cardinality(LiveSlots') <= Cardinality(LiveSlots)
  BY <1>1, FS_Subset
<1>3. Cardinality(LiveSlots) \in Nat /\ Cardinality(LiveSlots') \in Nat
  <2>1. IsFiniteSet(LiveSlots') BY <1>1, FS_Subset
  <2> QED BY <1>1, <2>1, FS_CardinalityType
<1> QED BY <1>2, <1>3, PoolAssumption DEF PoolWithinMaximum

(* resize(): whatever was called back, the tasks are at most the count it  *)
(* was asked for, or as many as before.                                    *)
LEMMA ResizeInv ==
  ASSUME PoolInv, NEW n \in 0..Maximum, Resize(n), pool.phase = "started",
         UNCHANGED <<held, activeJobs>>, UNCHANGED setting,
         admin' \in 0..Maximum, loop' \in [pc : {"off", "idle", "apply"}, read : 0..Maximum]
  PROVE  PoolInv'
<1> DEFINE f == Pruned(slot)
           serving == {s \in Slot : f[s].pc # None /\ ~f[s].retire}
           retiring == {s \in Slot : f[s].pc # None /\ f[s].retire}
           space == IF n > Cardinality(serving) THEN n - Cardinality(serving) ELSE 0
<1>1. PICK kept \in Reused(f, n) :
        \E new \in {N \in SUBSET {s \in Slot : f[s].pc = None} :
                      Cardinality(N) = IF pool'.accepting /\ n > Cardinality(kept)
                                       THEN n - Cardinality(kept) ELSE 0},
           go \in SUBSET kept :
          slot' = [s \in Slot |->
                     IF s \in new THEN NewSlot
                     ELSE IF s \in kept THEN [f[s] EXCEPT !.retire = s \in go]
                     ELSE f[s]]
  BY DEF Resize, CalledBack
<1>2. PICK new \in SUBSET {s \in Slot : f[s].pc = None}, go \in SUBSET kept :
        /\ Cardinality(new) = IF pool'.accepting /\ n > Cardinality(kept)
                              THEN n - Cardinality(kept) ELSE 0
        /\ slot' = [s \in Slot |->
                      IF s \in new THEN NewSlot
                      ELSE IF s \in kept THEN [f[s] EXCEPT !.retire = s \in go]
                      ELSE f[s]]
  BY <1>1
<1>3. PICK B \in SUBSET retiring :
        /\ kept = serving \cup B
        /\ Cardinality(B) = IF space < Cardinality(retiring) THEN space
                            ELSE Cardinality(retiring)
  BY DEF Reused
<1>4. PoolStates /\ n \in Nat /\ Maximum \in Nat
  BY PoolAssumption DEF PoolInv
<1>5. /\ f \in [Slot -> SlotRecord]
      /\ \A s \in Slot : f[s].pc = None \/ f[s] = slot[s]
      /\ \A s \in Slot : f[s].pc # "done"
      /\ \A s \in Slot : f[s].pc # None <=> s \in LiveSlots
  BY <1>4 DEF PoolStates, Pruned, LiveSlots, NoSlot, SlotPc, SlotRecord, None
<1>6. serving \cup retiring = LiveSlots /\ serving \cap retiring = {}
  BY <1>5 DEF LiveSlots
<1>7. IsFiniteSet(serving) /\ IsFiniteSet(retiring) /\ IsFiniteSet(LiveSlots) /\ IsFiniteSet(B)
      /\ IsFiniteSet(kept) /\ IsFiniteSet(new) /\ IsFiniteSet(serving \cap B)
  <2>1. serving \in SUBSET Slot /\ retiring \in SUBSET Slot /\ B \in SUBSET Slot
        /\ kept \in SUBSET Slot /\ new \in SUBSET Slot /\ LiveSlots \in SUBSET Slot
        /\ serving \cap B \in SUBSET Slot
    BY <1>3 DEF LiveSlots
  <2> HIDE DEF serving, retiring
  <2> QED BY <2>1, PoolAssumption, FS_Subset
<1>8. /\ Cardinality(LiveSlots) = Cardinality(serving) + Cardinality(retiring)
      /\ Cardinality(kept) = Cardinality(serving) + Cardinality(B)
      /\ Cardinality(serving) \in Nat /\ Cardinality(retiring) \in Nat
      /\ Cardinality(B) \in Nat /\ Cardinality(new) \in Nat
  <2>0. serving \cap B = {} BY <1>3, <1>6
  <2> HIDE DEF serving, retiring
  <2>1. Cardinality(serving \cup retiring)
          = Cardinality(serving) + Cardinality(retiring) - Cardinality({})
    BY <1>6, <1>7, FS_Union
  <2>2. Cardinality(serving \cup B)
          = Cardinality(serving) + Cardinality(B) - Cardinality({})
    BY <2>0, <1>7, FS_Union
  <2>3. /\ Cardinality(serving) \in Nat /\ Cardinality(retiring) \in Nat
        /\ Cardinality(B) \in Nat /\ Cardinality(new) \in Nat
    BY <1>7, FS_CardinalityType
  <2>4. Cardinality({}) = 0 BY FS_EmptySet
  <2>5. Cardinality(LiveSlots) = Cardinality(serving \cup retiring) BY <1>6
  <2>6. Cardinality(kept) = Cardinality(serving \cup B) BY <1>3
  <2> QED BY <2>1, <2>2, <2>3, <2>4, <2>5, <2>6
<1>9. /\ LiveSlots' = LiveSlots \cup new
      /\ LiveSlots \cap new = {}
      /\ slot' \in [Slot -> SlotRecord]
      /\ \A s \in Slot : SlotWorks(s)' <=> SlotWorks(s)
      /\ \A s \in Slot : SlotWorks(s) => slot'[s].job = slot[s].job
  <2>1. kept \in SUBSET LiveSlots BY <1>3, <1>6
  <2> HIDE DEF f
  <2>11. NewSlot \in SlotRecord BY DEF NewSlot, NoSlot, SlotRecord, SlotPc
  <2>12. \A s \in Slot : f[s] \in SlotRecord BY <1>5
  <2>13. \A s \in Slot : [f[s] EXCEPT !.retire = s \in go] \in SlotRecord
    <3> SUFFICES ASSUME NEW s \in Slot PROVE [f[s] EXCEPT !.retire = s \in go] \in SlotRecord
      OBVIOUS
    <3>1. f[s] \in SlotRecord BY <2>12
    <3>2. (s \in go) \in BOOLEAN OBVIOUS
    <3> QED BY <3>1, <3>2, RecordUpdates
  <2>2. slot' \in [Slot -> SlotRecord]
    <3> QED BY <1>2, <2>11, <2>12, <2>13
  <2>3. \A s \in Slot : slot'[s].pc = IF s \in new THEN "loop" ELSE f[s].pc
    BY <1>2, <1>5 DEF NewSlot, NoSlot
  <2>4. \A s \in Slot \ new : slot'[s].job = f[s].job
    BY <1>2, <1>5
  <2>5. LiveSlots' = LiveSlots \cup new
    BY <1>2, <2>2, <2>3, <1>5 DEF LiveSlots, None
  <2>6. LiveSlots \cap new = {}
    BY <1>2, <1>5
  <2>7. \A s \in Slot : s \in new => slot[s].pc \in {None, "done"}
    BY <1>2, <1>5 DEF LiveSlots
  <2>8. \A s \in Slot : slot[s].pc \in {"busy", "settling"} => s \in LiveSlots
    BY DEF LiveSlots, None
  <2>9. \A s \in Slot : SlotWorks(s)' <=> SlotWorks(s)
    <3> TAKE s \in Slot
    <3>1. CASE s \in new
      BY <3>1, <2>3, <2>7 DEF SlotWorks, None
    <3>2. CASE s \notin new
      <4>1. slot'[s].pc = f[s].pc BY <3>2, <2>3
      <4>2. f[s].pc = None \/ f[s] = slot[s] BY <1>5
      <4>3. f[s].pc = None => s \notin LiveSlots BY <1>5
      <4> QED BY <4>1, <4>2, <4>3, <2>8 DEF SlotWorks, None
    <3> QED BY <3>1, <3>2
  <2>10. \A s \in Slot : SlotWorks(s) => slot'[s].job = slot[s].job
    BY <2>4, <2>7, <2>8, <1>5 DEF SlotWorks, None
  <2> QED BY <2>2, <2>5, <2>6, <2>9, <2>10
<1>10. PoolWithinMaximum'
  <2>1. Cardinality(LiveSlots') = Cardinality(LiveSlots) + Cardinality(new)
    <3>1. Cardinality(LiveSlots \cup new)
            = Cardinality(LiveSlots) + Cardinality(new) - Cardinality({})
      BY <1>9, <1>7, FS_Union
    <3>2. Cardinality(LiveSlots) \in Nat BY <1>8
    <3> QED BY <1>9, <3>1, <3>2, <1>8, FS_EmptySet
  <2> HIDE DEF serving, retiring
  <2>2. CASE Cardinality(new) = 0
    BY <2>1, <2>2, <1>8, <1>4 DEF PoolInv, PoolWithinMaximum
  <2>3. CASE Cardinality(new) # 0
    <3>1. n > Cardinality(kept) /\ Cardinality(new) = n - Cardinality(kept)
      BY <2>3, <1>2
    <3>2. Cardinality(B) = Cardinality(retiring)
      BY <3>1, <1>3, <1>8, <1>4
    <3> QED BY <3>1, <3>2, <2>1, <1>8, <1>4 DEF PoolWithinMaximum
  <2> QED BY <2>2, <2>3
<1>11. PoolStates'
  BY <1>4, <1>9 DEF PoolStates, Resize
<1>12. WorkIsRegistered'
  BY <1>4, <1>9 DEF PoolInv, PoolStates, WorkIsRegistered
<1>13. PhasesHold'
  BY <1>4 DEF PoolInv, PoolStates, PhasesHold, Resize
<1> QED BY <1>10, <1>11, <1>12, <1>13 DEF PoolInv

LEMMA StartManagerInv == PoolInv /\ StartManager => PoolInv'
<1> SUFFICES ASSUME PoolInv, StartManager PROVE PoolInv' OBVIOUS
<1> USE DEF PoolInv
<1>1. PICK new \in SUBSET Slot :
        /\ Cardinality(new) = setting
        /\ slot' = [s \in Slot |-> IF s \in new THEN NewSlot ELSE NoSlot]
  BY DEF StartManager
<1>2. PoolStates'
  <2>1. NewSlot \in SlotRecord /\ NoSlot \in SlotRecord BY DEF NewSlot, NoSlot, SlotRecord, SlotPc
  <2>2. slot' \in [Slot -> SlotRecord]
    <3> QED BY <1>1, <2>1
  <2> QED BY <2>2, PoolAssumption DEF PoolStates, StartManager, PoolPhase
<1>3. \A j \in Job : activeJobs[j] = None /\ held[j] # "running"
  <2> SUFFICES ASSUME NEW j \in Job, activeJobs[j] # None PROVE FALSE
    BY DEF WorkIsRegistered
  <2>1. SlotWorks(activeJobs[j]) /\ activeJobs[j] \in Slot
    BY DEF WorkIsRegistered, PoolStates
  <2> QED BY <2>1 DEF SlotWorks, PhasesHold, StartManager, None
<1>4. \A s \in Slot : ~SlotWorks(s)'
  BY <1>1 DEF SlotWorks, NewSlot, NoSlot, None
<1>5. WorkIsRegistered'
  BY <1>3, <1>4 DEF WorkIsRegistered, StartManager
<1>6. PhasesHold'
  BY DEF PhasesHold, StartManager
<1>7. LiveSlots' = new
  BY <1>1 DEF LiveSlots, NewSlot, NoSlot, None
<1>8. PoolWithinMaximum'
  BY <1>1, <1>7, PoolAssumption DEF PoolWithinMaximum, PoolStates
<1> QED BY <1>2, <1>5, <1>6, <1>8

LEMMA SettingsKept ==
  PoolInv /\ (ReadSetting \/ SaveSetting \/ ToolSaves) => PoolInv'
<1> SUFFICES ASSUME PoolInv, ReadSetting \/ SaveSetting \/ ToolSaves PROVE PoolInv' OBVIOUS
<1>1. LiveSlots' = LiveSlots
  BY DEF LiveSlots, ReadSetting, SaveSetting, ToolSaves
<1>2. PoolStates'
  BY PoolAssumption DEF PoolInv, PoolStates, ReadSetting, SaveSetting, ToolSaves
<1>3. WorkIsRegistered' /\ PhasesHold'
  BY <1>1 DEF PoolInv, WorkIsRegistered, PhasesHold, SlotWorks, ReadSetting, SaveSetting, ToolSaves
<1>4. PoolWithinMaximum'
  BY <1>1 DEF PoolInv, PoolWithinMaximum
<1> QED BY <1>2, <1>3, <1>4 DEF PoolInv

LEMMA ApplyReadInv == PoolInv /\ ApplyRead => PoolInv'
<1> SUFFICES ASSUME PoolInv, ApplyRead PROVE PoolInv' OBVIOUS
<1>1. loop.read \in 0..Maximum /\ loop.pc = "apply" /\ pool.phase = "started"
  BY DEF PoolInv, PoolStates, PhasesHold, ApplyRead
<1>2. loop' \in [pc : {"off", "idle", "apply"}, read : 0..Maximum] /\ admin' \in 0..Maximum
  BY PoolAssumption DEF PoolInv, PoolStates, ApplyRead
<1>3. Resize(loop.read) /\ UNCHANGED <<setting, held, activeJobs>>
  BY DEF ApplyRead
<1> QED BY <1>1, <1>2, <1>3, ResizeInv

LEMMA ApplySettingInv == PoolInv /\ ApplySetting => PoolInv'
<1> SUFFICES ASSUME PoolInv, ApplySetting PROVE PoolInv' OBVIOUS
<1>1. admin \in 0..Maximum /\ admin' \in 0..Maximum /\ UNCHANGED <<setting, held, activeJobs>>
      /\ loop' \in [pc : {"off", "idle", "apply"}, read : 0..Maximum]
  BY PoolAssumption DEF PoolInv, PoolStates, ApplySetting
<1>2. CASE pool.phase = "started"
  BY <1>1, <1>2, ResizeInv DEF ApplySetting
<1>3. CASE pool.phase # "started"
  <2>1. UNCHANGED <<pool, slot, setting, held, activeJobs, loop>>
    BY <1>3 DEF ApplySetting
  <2>2. LiveSlots' = LiveSlots BY <2>1 DEF LiveSlots
  <2>3. PoolStates' BY <1>1, <2>1 DEF PoolInv, PoolStates
  <2>4. WorkIsRegistered' /\ PhasesHold'
    BY <2>1, <2>2 DEF PoolInv, WorkIsRegistered, PhasesHold, SlotWorks
  <2> QED BY <2>2, <2>3, <2>4 DEF PoolInv, PoolWithinMaximum
<1> QED BY <1>2, <1>3

LEMMA StopManagerInv == PoolInv /\ StopManager => PoolInv'
<1> SUFFICES ASSUME PoolInv, StopManager PROVE PoolInv' OBVIOUS
<1>1. /\ slot' \in [Slot -> SlotRecord]
      /\ \A s \in Slot : slot'[s].pc = slot[s].pc /\ slot'[s].job = slot[s].job
  <2>1. slot \in [Slot -> SlotRecord] BY DEF PoolInv, PoolStates
  <2>2. \A s \in Slot : [slot[s] EXCEPT !.retire = TRUE] \in SlotRecord
    BY <2>1, RecordUpdates
  <2>3. \A s \in Slot : slot'[s] = IF slot[s].pc # None THEN [slot[s] EXCEPT !.retire = TRUE]
                                    ELSE slot[s]
    BY DEF StopManager
  <2>4. slot' \in [Slot -> SlotRecord] BY <2>1, <2>2 DEF StopManager
  <2>5. \A s \in Slot : slot'[s].pc = slot[s].pc /\ slot'[s].job = slot[s].job
    BY <2>1, <2>3 DEF SlotRecord
  <2> QED BY <2>4, <2>5
<1>2. LiveSlots' = LiveSlots
  BY <1>1 DEF LiveSlots
<1>3. PoolStates'
  BY <1>1, PoolAssumption DEF PoolInv, PoolStates, StopManager, PoolPhase
<1>4. WorkIsRegistered'
  BY <1>1 DEF PoolInv, PoolStates, WorkIsRegistered, SlotWorks, StopManager
<1>5. PhasesHold'
  BY DEF PhasesHold, StopManager
<1> QED BY <1>2, <1>3, <1>4, <1>5 DEF PoolInv, PoolWithinMaximum

LEMMA NextRoundInv == \A s \in Slot : PoolInv /\ NextRound(s) => PoolInv'
<1> SUFFICES ASSUME NEW s \in Slot, PoolInv, NextRound(s) PROVE PoolInv' OBVIOUS
<1>1. /\ slot' \in [Slot -> SlotRecord]
      /\ \A t \in Slot : t # s => slot'[t] = slot[t]
      /\ slot'[s].pc \in {"claim", "done"}
  BY DEF PoolInv, PoolStates, NextRound, SlotPc, SlotRecord
<1>2. LiveSlots' \subseteq LiveSlots
  BY <1>1 DEF LiveSlots, NextRound, None
<1>3. PoolWithinMaximum'
  BY <1>2, FewerTasks DEF PoolInv
<1>4. PoolStates'
  BY <1>1 DEF PoolInv, PoolStates, NextRound
<1>5. \A t \in Slot : (SlotWorks(t)' <=> SlotWorks(t)) /\ (SlotWorks(t) => slot'[t].job = slot[t].job)
  BY <1>1 DEF SlotWorks, NextRound
<1>6. WorkIsRegistered'
  BY <1>5, <1>4 DEF PoolInv, PoolStates, WorkIsRegistered, NextRound
<1>7. PhasesHold'
  BY <1>2 DEF PoolInv, PhasesHold, NextRound, None
<1> QED BY <1>3, <1>4, <1>6, <1>7 DEF PoolInv

LEMMA ClaimJobInv == \A s \in Slot : PoolInv /\ ClaimJob(s) => PoolInv'
<1> SUFFICES ASSUME NEW s \in Slot, PoolInv, ClaimJob(s) PROVE PoolInv' OBVIOUS
<1>0. slot[s].pc = "claim" /\ s \in LiveSlots /\ s # None
  BY PoolAssumption DEF ClaimJob, LiveSlots, None
<1>1. CASE \E j \in Job :
          /\ held[j] = "queued"
          /\ held' = [held EXCEPT ![j] = "running"]
          /\ activeJobs' = [activeJobs EXCEPT ![j] = s]
          /\ slot' = [slot EXCEPT ![s].pc = "busy", ![s].job = j, ![s].beat = TRUE]
  <2> PICK j \in Job :
          /\ held[j] = "queued"
          /\ held' = [held EXCEPT ![j] = "running"]
          /\ activeJobs' = [activeJobs EXCEPT ![j] = s]
          /\ slot' = [slot EXCEPT ![s].pc = "busy", ![s].job = j, ![s].beat = TRUE]
    BY <1>1
  <2>1. /\ slot' \in [Slot -> SlotRecord]
        /\ \A t \in Slot : t # s => slot'[t] = slot[t]
        /\ slot'[s].pc = "busy" /\ slot'[s].job = j
    <3> DEFINE r == [slot[s] EXCEPT !.pc = "busy", !.job = j, !.beat = TRUE]
    <3>1. slot \in [Slot -> SlotRecord] BY DEF PoolInv, PoolStates
    <3>2. slot' = [slot EXCEPT ![s] = r] BY <3>1 DEF SlotRecord
    <3>3. r \in SlotRecord
      <4>1. "busy" \in SlotPc /\ j \in Job \cup {None} /\ TRUE \in BOOLEAN
        BY DEF SlotPc
      <4> QED BY <3>1, <4>1, RecordUpdates
    <3>4. r.pc = "busy" /\ r.job = j BY <3>1 DEF SlotRecord
    <3> QED BY <3>1, <3>2, <3>3, <3>4
  <2>2. LiveSlots' = LiveSlots
    BY <2>1, <1>0 DEF LiveSlots, None
  <2>3. PoolStates'
    BY <2>1 DEF PoolInv, PoolStates, ClaimJob
  <2>6. activeJobs[j] = None /\ s # None
    BY PoolAssumption DEF PoolInv, PoolStates, WorkIsRegistered
  <2>7. \A t \in Slot : SlotWorks(t)' <=> SlotWorks(t) \/ t = s
    BY <2>1 DEF SlotWorks
  <2>8. ~SlotWorks(s) BY <1>0 DEF SlotWorks
  <2>11. activeJobs \in [Job -> Slot \cup {None}] /\ held \in [Job -> {"queued", "running", "stray"}]
    BY DEF PoolInv, PoolStates
  <2>9. \A k \in Job :
          /\ activeJobs'[k] = IF k = j THEN s ELSE activeJobs[k]
          /\ held'[k] = IF k = j THEN "running" ELSE held[k]
    BY <2>11
  <2>10. \A t \in Slot : SlotWorks(t) => slot[t].job # j
    BY <2>6, PoolAssumption DEF PoolInv, WorkIsRegistered
  <2>4. WorkIsRegistered'
    BY <2>1, <2>6, <2>7, <2>8, <2>9, <2>10 DEF PoolInv, PoolStates, WorkIsRegistered
  <2>5. PhasesHold'
    BY <2>2, <1>0 DEF PoolInv, PhasesHold, ClaimJob, None
  <2> QED BY <2>2, <2>3, <2>4, <2>5 DEF PoolInv, PoolWithinMaximum
<1>2. CASE slot' = [slot EXCEPT ![s].pc = "loop"] /\ UNCHANGED <<held, activeJobs>>
  <2>1. /\ slot' \in [Slot -> SlotRecord]
        /\ \A t \in Slot : t # s => slot'[t] = slot[t]
        /\ slot'[s].pc = "loop"
    BY <1>2 DEF PoolInv, PoolStates, SlotPc, SlotRecord
  <2>2. LiveSlots' = LiveSlots
    BY <2>1, <1>0 DEF LiveSlots, None
  <2>3. PoolStates'
    BY <2>1, <1>2 DEF PoolInv, PoolStates, ClaimJob
  <2>4. WorkIsRegistered'
    BY <2>1, <1>0, <1>2 DEF PoolInv, PoolStates, WorkIsRegistered, SlotWorks
  <2>5. PhasesHold'
    BY <2>2, <1>0 DEF PoolInv, PhasesHold, ClaimJob, None
  <2> QED BY <2>2, <2>3, <2>4, <2>5 DEF PoolInv, PoolWithinMaximum
<1> QED BY <1>1, <1>2 DEF ClaimJob

LEMMA FinishJobInv == \A s \in Slot : PoolInv /\ FinishJob(s) => PoolInv'
<1> SUFFICES ASSUME NEW s \in Slot, PoolInv, FinishJob(s) PROVE PoolInv' OBVIOUS
<1>0. SlotWorks(s) /\ s \in LiveSlots /\ slot[s].job \in Job /\ activeJobs[slot[s].job] = s
  BY DEF FinishJob, LiveSlots, None, SlotWorks, PoolInv, WorkIsRegistered
<1>1. /\ slot' \in [Slot -> SlotRecord]
      /\ \A t \in Slot : t # s => slot'[t] = slot[t]
      /\ slot'[s].pc = "loop"
  <2> DEFINE r == [slot[s] EXCEPT !.pc = "loop", !.job = None, !.beat = FALSE]
  <2>1. slot \in [Slot -> SlotRecord] BY DEF PoolInv, PoolStates
  <2>2. slot' = [slot EXCEPT ![s] = r] BY <2>1 DEF FinishJob, SlotRecord
  <2>3. r \in SlotRecord
    <3>1. "loop" \in SlotPc /\ None \in Job \cup {None} /\ FALSE \in BOOLEAN
      BY DEF SlotPc
    <3> QED BY <2>1, <3>1, RecordUpdates
  <2>4. r.pc = "loop" BY <2>1 DEF SlotRecord
  <2> QED BY <2>1, <2>2, <2>3, <2>4
<1>2. LiveSlots' = LiveSlots
  BY <1>1, <1>0 DEF LiveSlots, None
<1>3. PoolStates'
  BY <1>1 DEF PoolInv, PoolStates, FinishJob
<1>4. WorkIsRegistered'
  BY <1>1, <1>0 DEF PoolInv, PoolStates, WorkIsRegistered, SlotWorks, FinishJob
<1>5. PhasesHold'
  BY <1>2, <1>0 DEF PoolInv, PhasesHold, FinishJob, None, LiveSlots
<1> QED BY <1>2, <1>3, <1>4, <1>5 DEF PoolInv, PoolWithinMaximum

(* What one cancellation makes of a slot.                                  *)
LEMMA HitSlot ==
  ASSUME slot \in [Slot -> SlotRecord], NEW s \in Slot
  PROVE  /\ Hit(slot, s) \in [Slot -> SlotRecord]
         /\ \A t \in Slot : t # s => Hit(slot, s)[t] = slot[t]
         /\ slot[s].pc = "busy" =>
              Hit(slot, s)[s].pc = "settling" /\ Hit(slot, s)[s].job = slot[s].job
         /\ slot[s].pc \in {"settling", "claim", "loop"} => Hit(slot, s)[s].pc = "done"
         /\ slot[s].pc \in {None, "done"} => Hit(slot, s)[s] = slot[s]
<1> DEFINE r == CASE slot[s].pc = "busy" -> [slot[s] EXCEPT !.pc = "settling"]
                  [] slot[s].pc \in {"settling", "claim", "loop"} ->
                       [slot[s] EXCEPT !.pc = "done", !.job = None, !.beat = FALSE]
                  [] OTHER -> slot[s]
<1>1. Hit(slot, s) = [slot EXCEPT ![s] = r] BY DEF Hit
<1>2. slot[s] \in SlotRecord OBVIOUS
<1>3. r \in SlotRecord
  <2>1. {"settling", "done"} \subseteq SlotPc /\ None \in Job \cup {None} /\ FALSE \in BOOLEAN
    BY DEF SlotPc
  <2> QED BY <1>2, <2>1, RecordUpdates
<1>4. /\ slot[s].pc = "busy" => r.pc = "settling" /\ r.job = slot[s].job
      /\ slot[s].pc \in {"settling", "claim", "loop"} => r.pc = "done"
      /\ slot[s].pc \in {None, "done"} => r = slot[s]
  BY <1>2 DEF SlotRecord, None
<1> QED BY <1>1, <1>3, <1>4

(* A cancellation ends no task but the one it hits, and makes none.        *)
LEMMA HitKeeps ==
  ASSUME PoolInv, NEW s \in Slot, NEW beat \in BOOLEAN,
         \/ slot' = Hit(slot, s)
         \/ slot' = [Hit(slot, s) EXCEPT ![s].beat = beat],
         LeftBehind(s), UNCHANGED <<setting, pool, admin, loop>>
  PROVE  PoolInv'
<1>1. /\ slot' \in [Slot -> SlotRecord]
      /\ \A t \in Slot : t # s => slot'[t] = slot[t]
      /\ slot[s].pc = "busy" => slot'[s].pc = "settling" /\ slot'[s].job = slot[s].job
      /\ slot[s].pc \in {"settling", "claim", "loop"} => slot'[s].pc = "done"
      /\ slot[s].pc \in {None, "done"} => slot'[s].pc = slot[s].pc
  <2> DEFINE h == Hit(slot, s)
  <2>1. slot \in [Slot -> SlotRecord] BY DEF PoolInv, PoolStates
  <2>2. h \in [Slot -> SlotRecord] BY <2>1, HitSlot
  <2> HIDE DEF h
  <2>3. \A b \in BOOLEAN : [h[s] EXCEPT !.beat = b] \in SlotRecord
    BY <2>2, RecordUpdates
  <2>4. slot' = h \/ slot' = [h EXCEPT ![s] = [h[s] EXCEPT !.beat = beat]]
    BY <2>2 DEF h, SlotRecord
  <2>5. /\ slot' \in [Slot -> SlotRecord]
        /\ \A t \in Slot : t # s => slot'[t] = h[t]
        /\ slot'[s].pc = h[s].pc /\ slot'[s].job = h[s].job
    <3>1. h[s] \in SlotRecord BY <2>2
    <3>2. /\ [h[s] EXCEPT !.beat = beat].pc = h[s].pc
          /\ [h[s] EXCEPT !.beat = beat].job = h[s].job
      BY <3>1 DEF SlotRecord
    <3> QED BY <2>2, <2>3, <2>4, <3>2
  <2> QED BY <2>1, <2>5, HitSlot DEF h
<1>2. slot[s].pc \in SlotPc
  BY DEF PoolInv, PoolStates, SlotRecord
<1>3. LiveSlots' \subseteq LiveSlots
  BY <1>1, <1>2 DEF LiveSlots, SlotPc, SlotRecord, None
<1>4. PoolWithinMaximum'
  BY <1>3, FewerTasks DEF PoolInv
<1>5. CASE slot[s].pc = "settling"
  <2>1. /\ held' = [held EXCEPT ![slot[s].job] = "stray"]
        /\ activeJobs' = [activeJobs EXCEPT ![slot[s].job] = None]
        /\ slot[s].job \in Job /\ activeJobs[slot[s].job] = s
    BY <1>5 DEF LeftBehind, PoolInv, WorkIsRegistered, SlotWorks
  <2>2. PoolStates'
    BY <1>1, <2>1 DEF PoolInv, PoolStates
  <2>3. WorkIsRegistered'
    BY <1>1, <1>5, <2>1 DEF PoolInv, PoolStates, WorkIsRegistered, SlotWorks
  <2>4. PhasesHold'
    BY <1>3, <1>1, <1>2 DEF PoolInv, PhasesHold, SlotPc, SlotRecord, None
  <2> QED BY <1>4, <2>2, <2>3, <2>4 DEF PoolInv
<1>6. CASE slot[s].pc # "settling"
  <2>1. UNCHANGED <<held, activeJobs>> BY <1>6 DEF LeftBehind
  <2>2. PoolStates'
    BY <1>1, <2>1 DEF PoolInv, PoolStates
  <2>3. \A t \in Slot : (SlotWorks(t)' <=> SlotWorks(t)) /\ (SlotWorks(t) => slot'[t].job = slot[t].job)
    BY <1>1, <1>2, <1>6 DEF SlotWorks, SlotPc, SlotRecord, None
  <2>4. WorkIsRegistered'
    BY <2>1, <2>3 DEF PoolInv, PoolStates, WorkIsRegistered
  <2>5. PhasesHold'
    BY <1>3, <1>1, <1>2 DEF PoolInv, PhasesHold, SlotPc, SlotRecord, None
  <2> QED BY <1>4, <2>2, <2>4, <2>5 DEF PoolInv
<1> QED BY <1>5, <1>6

LEMMA CancelJobInv == \A j \in Job : PoolInv /\ CancelJob(j) => PoolInv'
<1> SUFFICES ASSUME NEW j \in Job, PoolInv, CancelJob(j) PROVE PoolInv' OBVIOUS
<1>1. activeJobs[j] \in Slot
  BY DEF PoolInv, PoolStates, CancelJob
<1>2. slot' = Hit(slot, activeJobs[j]) /\ LeftBehind(activeJobs[j])
      /\ UNCHANGED <<setting, pool, admin, loop>>
  BY DEF CancelJob
<1> QED BY <1>1, <1>2, HitKeeps

LEMMA BeatFailsInv == \A s \in Slot : PoolInv /\ BeatFails(s) => PoolInv'
<1> SUFFICES ASSUME NEW s \in Slot, PoolInv, BeatFails(s) PROVE PoolInv' OBVIOUS
<1>1. slot' = [Hit(slot, s) EXCEPT ![s].beat = FALSE] /\ LeftBehind(s)
      /\ UNCHANGED <<setting, pool, admin, loop>> /\ FALSE \in BOOLEAN
  BY DEF BeatFails
<1> QED BY <1>1, HitKeeps

LEMMA LeaseExpiresInv == \A j \in Job : PoolInv /\ LeaseExpires(j) => PoolInv'
<1> SUFFICES ASSUME NEW j \in Job, PoolInv, LeaseExpires(j) PROVE PoolInv' OBVIOUS
<1>1. LiveSlots' = LiveSlots BY DEF LiveSlots, LeaseExpires
<1>2. PoolStates' BY DEF PoolInv, PoolStates, LeaseExpires
<1>3. WorkIsRegistered'
  BY DEF PoolInv, PoolStates, WorkIsRegistered, SlotWorks, LeaseExpires
<1>4. PhasesHold' BY <1>1 DEF PoolInv, PhasesHold, LeaseExpires
<1> QED BY <1>1, <1>2, <1>3, <1>4 DEF PoolInv, PoolWithinMaximum

LEMMA CancelPendingInv == PoolInv /\ CancelPending => PoolInv'
<1> SUFFICES ASSUME PoolInv, CancelPending PROVE PoolInv' OBVIOUS
<1> DEFINE settling == {j \in Job : activeJobs[j] # None /\ slot[activeJobs[j]].pc = "settling"}
<1>1. PICK lost \in SUBSET {j \in Job : held[j] = "queued"} :
        /\ held' = [j \in Job |-> IF j \in settling \cup lost THEN "stray" ELSE held[j]]
        /\ activeJobs' = [j \in Job |-> IF j \in settling THEN None ELSE activeJobs[j]]
  BY DEF CancelPending
<1>2. /\ slot' \in [Slot -> SlotRecord]
      /\ \A s \in Slot :
           /\ slot[s].pc = "busy" => slot'[s].pc = "settling" /\ slot'[s].job = slot[s].job
           /\ slot[s].pc \in {"settling", "claim", "loop"} => slot'[s].pc = "done"
           /\ slot[s].pc \in {None, "done"} => slot'[s].pc = slot[s].pc
  <2>1. slot \in [Slot -> SlotRecord] BY DEF PoolInv, PoolStates
  <2>2. slot' = [s \in Slot |-> IF s \in LiveSlots THEN Hit(slot, s)[s] ELSE slot[s]]
    BY DEF CancelPending
  <2>3. \A s \in Slot : Hit(slot, s)[s] \in SlotRecord BY <2>1, HitSlot
  <2>4. slot' \in [Slot -> SlotRecord] BY <2>1, <2>2, <2>3
  <2>5. \A s \in Slot : s \in LiveSlots <=> slot[s].pc \notin {None, "done"}
    BY DEF LiveSlots
  <2> QED BY <2>1, <2>2, <2>4, <2>5, HitSlot DEF None
<1>3. \A s \in Slot : slot[s].pc \in SlotPc
  BY DEF PoolInv, PoolStates, SlotRecord
<1>4. LiveSlots' \subseteq LiveSlots
  BY <1>2, <1>3 DEF LiveSlots, SlotPc, SlotRecord, None
<1>5. PoolWithinMaximum'
  BY <1>4, FewerTasks DEF PoolInv
<1>6. PoolStates'
  BY <1>1, <1>2, PoolAssumption DEF PoolInv, PoolStates, CancelPending, PoolPhase
<1>7. \A s \in Slot : /\ SlotWorks(s)' <=> slot[s].pc = "busy"
                      /\ slot[s].pc = "busy" => slot'[s].job = slot[s].job
  BY <1>2, <1>3 DEF SlotWorks, SlotPc, SlotRecord, None
<1>8. \A j \in Job : /\ activeJobs'[j] = IF j \in settling THEN None ELSE activeJobs[j]
                     /\ held'[j] = "running" <=> held[j] = "running" /\ j \notin settling
  BY <1>1
<1>9. \A j \in Job : activeJobs[j] # None =>
        (j \notin settling <=> slot[activeJobs[j]].pc = "busy")
  BY DEF PoolInv, WorkIsRegistered, SlotWorks
<1>10. WorkIsRegistered'
  BY <1>7, <1>8, <1>9 DEF PoolInv, PoolStates, WorkIsRegistered, SlotWorks
<1>11. PhasesHold'
  BY DEF PoolInv, PoolStates, PhasesHold, CancelPending
<1> QED BY <1>5, <1>6, <1>10, <1>11 DEF PoolInv

LEMMA StopEndsInv == PoolInv /\ StopEnds => PoolInv'
<1> SUFFICES ASSUME PoolInv, StopEnds PROVE PoolInv' OBVIOUS
<1>1. LiveSlots = {} BY DEF StopEnds, Awaited
<1>2. \A s \in Slot : slot[s].pc \in {None, "done"} BY <1>1 DEF LiveSlots
<1>3. slot' = [s \in Slot |-> IF slot[s].pc = "done" THEN NoSlot ELSE slot[s]]
  BY DEF StopEnds, Pruned
<1>4. /\ slot' \in [Slot -> SlotRecord]
      /\ \A s \in Slot : slot'[s].pc = None
  BY <1>2, <1>3 DEF PoolInv, PoolStates, NoSlot, SlotPc, SlotRecord
<1>5. LiveSlots' = {} BY <1>4 DEF LiveSlots
<1>6. PoolStates'
  BY <1>4, PoolAssumption DEF PoolInv, PoolStates, StopEnds, PoolPhase
<1>7. WorkIsRegistered'
  BY <1>2, <1>4 DEF PoolInv, PoolStates, WorkIsRegistered, SlotWorks, StopEnds, None
<1>8. PhasesHold' BY <1>5 DEF PoolInv, PoolStates, PhasesHold, StopEnds
<1>9. PoolWithinMaximum' BY <1>5, <1>1, FewerTasks DEF PoolInv
<1> QED BY <1>6, <1>7, <1>8, <1>9 DEF PoolInv

LEMMA PoolNextInv == PoolInv /\ [PoolNext]_poolVars => PoolInv'
<1> SUFFICES ASSUME PoolInv, [PoolNext]_poolVars PROVE PoolInv' OBVIOUS
<1>1. CASE UNCHANGED poolVars
  <2>1. LiveSlots' = LiveSlots BY <1>1 DEF poolVars, LiveSlots
  <2> QED BY <1>1, <2>1 DEF poolVars, PoolInv, PoolStates, WorkIsRegistered, SlotWorks,
                            PhasesHold, PoolWithinMaximum
<1>2. CASE PoolNext
  BY <1>2, StartManagerInv, SettingsKept, ApplyReadInv, ApplySettingInv, StopManagerInv,
     NextRoundInv, ClaimJobInv, FinishJobInv, CancelJobInv, BeatFailsInv, LeaseExpiresInv,
     CancelPendingInv, StopEndsInv DEF PoolNext
<1> QED BY <1>1, <1>2

-----------------------------------------------------------------------------
(* The process: what is up, what was recovered and who holds the lock,     *)
(* phase by phase of its start and its stop.                               *)

ProcessPc == {"out", "tool", "opening", "starting", "unwinding", "started", "polling",
              "serving", "closing", "stopping", "clients", "leaving", "abandoned"}
Service == Workers \cup {"provider", "gateway", "api", "polling"}
ProcessRecord == [pc : ProcessPc, step : 0..8, built : BOOLEAN, recovered : BOOLEAN,
                  waiter : {"none", "new", "waits"}, cancelled : BOOLEAN, api : BOOLEAN]

RuntimeStates ==
  /\ lock \in Process \cup {Free}
  /\ proc \in [Process -> ProcessRecord]
  /\ up \in [Process -> SUBSET Service]
  /\ ready \in [Process -> BOOLEAN]

(* The lock is held from the first step to the last, and nothing runs      *)
(* without it.                                                             *)
HoldsLock(p) ==
  /\ proc[p].pc \notin {"out", "leaving"} => lock = p
  /\ proc[p].pc \in {"out", "leaving", "tool"} => up[p] = {}

(* What start() has done after so many of its steps.                       *)
StartedSoFar(p) ==
  /\ proc[p].pc = "starting" =>
       /\ proc[p].step \in 1..7
       /\ proc[p].step >= 3 => proc[p].recovered
       /\ \A i \in 1..7 : i < proc[p].step /\ Starting[i] \in Workers => Starting[i] \in up[p]
       /\ up[p] \cap {"api", "polling"} = {}
  /\ up[p] \cap Workers # {} => proc[p].recovered

(* What stop() has left after so many of its steps.                        *)
LeftToStop(p) ==
  proc[p].pc \in {"stopping", "unwinding"} =>
    /\ proc[p].step \in 1..8
    /\ up[p] \subseteq {StopOrder[i] : i \in proc[p].step..8}

(* Readiness is told while polling only, by a process whose pools are up.  *)
ReadyIsServing(p) ==
  /\ ready[p] => proc[p].pc = "serving"
  /\ proc[p].pc \in {"started", "polling", "serving"} => {"queue", "fanout", "album"} \subseteq up[p]

ProcessInv(p) == HoldsLock(p) /\ StartedSoFar(p) /\ LeftToStop(p) /\ ReadyIsServing(p)
RuntimeInv == RuntimeStates /\ \A p \in Process : ProcessInv(p)

LEMMA StopOrderIs ==
  /\ Len(StopOrder) = 8
  /\ StopOrder[1] = "cleanup" /\ StopOrder[2] = "album" /\ StopOrder[3] = "fanout"
  /\ StopOrder[4] = "queue" /\ StopOrder[5] = "ui" /\ StopOrder[6] = "authorization"
  /\ StopOrder[7] = "provider" /\ StopOrder[8] = "gateway"
BY DEF StopOrder

LEMMA StartingIs ==
  /\ Len(Starting) = 7
  /\ Starting[1] = "recovery" /\ Starting[2] = "sweep" /\ Starting[3] = "accounts"
  /\ Starting[4] = "queue" /\ Starting[5] = "fanout" /\ Starting[6] = "album"
  /\ Starting[7] = "cleanup"
BY DEF Starting, StartOrder

LEMMA RuntimeInvImplies ==
  RuntimeInv => RuntimeTypeOK /\ OneInstanceRuns /\ WorkIsRecovered
<1> SUFFICES ASSUME RuntimeInv PROVE RuntimeTypeOK /\ OneInstanceRuns /\ WorkIsRecovered
  OBVIOUS
<1>1. RuntimeTypeOK
  BY StopOrderIs DEF RuntimeInv, RuntimeStates, RuntimeTypeOK, ProcessRecord, ProcessPc, Service
<1>2. OneInstanceRuns
  <2> SUFFICES ASSUME NEW p \in Process, NEW q \in Process, AtWork(p), AtWork(q) PROVE p = q
    BY DEF OneInstanceRuns
  <2>1. lock = p /\ lock = q
    BY DEF RuntimeInv, ProcessInv, HoldsLock, AtWork
  <2> QED BY <2>1
<1>3. WorkIsRecovered
  BY DEF RuntimeInv, ProcessInv, StartedSoFar, ReadyIsServing, WorkIsRecovered
<1> QED BY <1>1, <1>2, <1>3

LEMMA RuntimeInitInv == RuntimeInit => RuntimeInv
BY DEF RuntimeInit, RuntimeInv, RuntimeStates, ProcessRecord, ProcessPc, NoProcess, ProcessInv,
       HoldsLock, StartedSoFar, LeftToStop, ReadyIsServing

(* A step of one process keeps the invariant of every other: a process     *)
(* holds the lock, and only the holder or a process that takes the free    *)
(* lock changes it.                                                        *)
LEMMA OthersStay ==
  ASSUME RuntimeInv, NEW p \in Process,
         NEW r \in ProcessRecord, proc' = [proc EXCEPT ![p] = r],
         NEW u \in SUBSET Service, up' = [up EXCEPT ![p] = u],
         NEW b \in BOOLEAN, ready' = [ready EXCEPT ![p] = b],
         lock' \in Process \cup {Free},
         lock' = lock \/ lock \in {p, Free},
         ProcessInv(p)'
  PROVE  RuntimeInv'
<1>1. RuntimeStates' BY DEF RuntimeInv, RuntimeStates
<1>2. ASSUME NEW q \in Process, q # p PROVE ProcessInv(q)'
  <2>1. proc'[q] = proc[q] /\ up'[q] = up[q] /\ ready'[q] = ready[q]
    BY <1>2 DEF RuntimeInv, RuntimeStates
  <2>2. lock = q => lock' = q
    BY <1>2, RuntimeAssumption
  <2>3. ProcessInv(q) BY DEF RuntimeInv
  <2> QED BY <2>1, <2>2, <2>3 DEF ProcessInv, HoldsLock, StartedSoFar, LeftToStop, ReadyIsServing
<1> QED BY <1>1, <1>2 DEF RuntimeInv
(* One step of one process each.                                           *)
LEMMA NoProcessRecord == NoProcess \in ProcessRecord
BY DEF ProcessRecord, ProcessPc, NoProcess

LEMMA ProcessUpdates ==
  ASSUME NEW x \in ProcessRecord, NEW c \in ProcessPc
  PROVE  /\ [x EXCEPT !.pc = c] \in ProcessRecord
         /\ \A b \in BOOLEAN : [x EXCEPT !.pc = c, !.api = b] \in ProcessRecord
         /\ \A w \in {"none", "new", "waits"} :
              [x EXCEPT !.pc = c, !.waiter = w] \in ProcessRecord
         /\ \A n \in 0..8 :
              /\ [x EXCEPT !.pc = c, !.step = n] \in ProcessRecord
              /\ \A b \in BOOLEAN :
                   /\ [x EXCEPT !.pc = c, !.step = n, !.built = b] \in ProcessRecord
                   /\ [x EXCEPT !.pc = c, !.step = n, !.cancelled = b] \in ProcessRecord
              /\ \A w \in {"none", "new", "waits"} :
                   /\ [x EXCEPT !.pc = c, !.step = n, !.waiter = w] \in ProcessRecord
                   /\ \A b \in BOOLEAN :
                        [x EXCEPT !.pc = c, !.step = n, !.recovered = b, !.waiter = w]
                          \in ProcessRecord
BY DEF ProcessRecord

LEMMA TakeLockInv == \A p \in Process : RuntimeInv /\ TakeLock(p) => RuntimeInv'
<1> SUFFICES ASSUME NEW p \in Process, RuntimeInv, TakeLock(p) PROVE RuntimeInv' OBVIOUS
<1>0. ProcessInv(p) /\ proc[p] \in ProcessRecord /\ up[p] \in SUBSET Service
      /\ ready[p] \in BOOLEAN /\ lock \in Process \cup {Free} /\ RuntimeStates
  BY DEF RuntimeInv, RuntimeStates
<1>1. CASE \E api \in BOOLEAN : proc' = [proc EXCEPT ![p] = [NoProcess EXCEPT !.pc = "opening", !.api = api]]
  <2>0. PICK api \in BOOLEAN : proc' = [proc EXCEPT ![p] = [NoProcess EXCEPT !.pc = "opening", !.api = api]]
    BY <1>1
  <2> DEFINE r == [NoProcess EXCEPT !.pc = "opening", !.api = api]
             u == up[p]
             b == ready[p]
  <2>1. r \in ProcessRecord
    <3>1. "opening" \in ProcessPc BY DEF ProcessPc
    <3> QED BY <3>1, NoProcessRecord, ProcessUpdates
  <2>2. u \in SUBSET Service /\ b \in BOOLEAN
    BY <1>1, <1>0 DEF TakeLock, Service, Workers, RuntimeStates
  <2>3. proc' = [proc EXCEPT ![p] = r] /\ up' = [up EXCEPT ![p] = u]
        /\ ready' = [ready EXCEPT ![p] = b]
    BY <2>0, <1>0 DEF TakeLock, RuntimeStates
  <2>4. r.pc = "opening" /\ ~r.recovered
    BY DEF NoProcess
  <2>5. lock' \in Process \cup {Free} /\ (lock' = lock \/ lock \in {p, Free})
    BY <1>1, <1>0 DEF TakeLock, MayRelease
  <2>6. ProcessInv(p)'
    <3> HIDE DEF r
    <3>0. proc'[p] = r /\ up'[p] = u /\ ready'[p] = b
      BY <2>3 DEF RuntimeInv, RuntimeStates
    <3>1. HoldsLock(p)'
      BY <1>1, <1>0, <3>0, <2>4, <2>5, RuntimeAssumption
      DEF TakeLock, Workers, At, ProcessInv, HoldsLock, LeftToStop, MayRelease
    <3>2. StartedSoFar(p)'
      BY <1>1, <1>0, <3>0, <2>4, StartingIs
      DEF TakeLock, Workers, At, ProcessInv, HoldsLock, StartedSoFar
    <3>3. LeftToStop(p)'
      BY <1>1, <1>0, <3>0, <2>4, StopOrderIs
      DEF TakeLock, Workers, Service, At, ProcessInv, StartedSoFar, LeftToStop, MayRelease
    <3>4. ReadyIsServing(p)'
      BY <1>1, <1>0, <3>0, <2>4
      DEF TakeLock, Workers, At, ProcessInv, StartedSoFar, ReadyIsServing
    <3> QED BY <3>1, <3>2, <3>3, <3>4 DEF ProcessInv
  <2> HIDE DEF r, u, b
  <2> QED BY <2>1, <2>2, <2>3, <2>5, <2>6, OthersStay
<1>2. CASE proc' = [proc EXCEPT ![p] = [NoProcess EXCEPT !.pc = "tool"]]
  <2> DEFINE r == [NoProcess EXCEPT !.pc = "tool"]
             u == up[p]
             b == ready[p]
  <2>1. r \in ProcessRecord
    <3>1. "tool" \in ProcessPc BY DEF ProcessPc
    <3> QED BY <3>1, NoProcessRecord, ProcessUpdates
  <2>2. u \in SUBSET Service /\ b \in BOOLEAN
    BY <1>2, <1>0 DEF TakeLock, Service, Workers, RuntimeStates
  <2>3. proc' = [proc EXCEPT ![p] = r] /\ up' = [up EXCEPT ![p] = u]
        /\ ready' = [ready EXCEPT ![p] = b]
    BY <1>2, <1>0 DEF TakeLock, RuntimeStates, ProcessRecord, Goto, NotReady, At
  <2>4. r.pc = "tool" /\ ~r.recovered
    BY <1>2, <1>0 DEF TakeLock, ProcessRecord, NoProcess, RuntimeStates
  <2>5. lock' \in Process \cup {Free} /\ (lock' = lock \/ lock \in {p, Free})
    BY <1>2, <1>0 DEF TakeLock, MayRelease
  <2>6. ProcessInv(p)'
    <3> HIDE DEF r
    <3>0. proc'[p] = r /\ up'[p] = u /\ ready'[p] = b
      BY <2>3 DEF RuntimeInv, RuntimeStates
    <3>1. HoldsLock(p)'
      BY <1>2, <1>0, <3>0, <2>4, <2>5, RuntimeAssumption
      DEF TakeLock, Workers, At, ProcessInv, HoldsLock, LeftToStop, MayRelease
    <3>2. StartedSoFar(p)'
      BY <1>2, <1>0, <3>0, <2>4, StartingIs
      DEF TakeLock, Workers, At, ProcessInv, HoldsLock, StartedSoFar
    <3>3. LeftToStop(p)'
      BY <1>2, <1>0, <3>0, <2>4, StopOrderIs
      DEF TakeLock, Workers, Service, At, ProcessInv, StartedSoFar, LeftToStop, MayRelease
    <3>4. ReadyIsServing(p)'
      BY <1>2, <1>0, <3>0, <2>4
      DEF TakeLock, Workers, At, ProcessInv, StartedSoFar, ReadyIsServing
    <3> QED BY <3>1, <3>2, <3>3, <3>4 DEF ProcessInv
  <2> HIDE DEF r, u, b
  <2> QED BY <2>1, <2>2, <2>3, <2>5, <2>6, OthersStay
<1> QED BY <1>1, <1>2 DEF TakeLock, At, MayRelease

LEMMA ToolEndsInv == \A p \in Process : RuntimeInv /\ ToolEnds(p) => RuntimeInv'
<1> SUFFICES ASSUME NEW p \in Process, RuntimeInv, ToolEnds(p) PROVE RuntimeInv' OBVIOUS
<1>0. ProcessInv(p) /\ proc[p] \in ProcessRecord /\ up[p] \in SUBSET Service
      /\ ready[p] \in BOOLEAN /\ lock \in Process \cup {Free} /\ RuntimeStates
  BY DEF RuntimeInv, RuntimeStates
<1>1. RuntimeInv'
  <2> DEFINE r == NoProcess
             u == up[p]
             b == ready[p]
  <2>1. r \in ProcessRecord BY NoProcessRecord
  <2>2. u \in SUBSET Service /\ b \in BOOLEAN
    BY <1>0 DEF ToolEnds, Service, Workers, RuntimeStates
  <2>3. proc' = [proc EXCEPT ![p] = r] /\ up' = [up EXCEPT ![p] = u]
        /\ ready' = [ready EXCEPT ![p] = b]
    BY <1>0 DEF ToolEnds, RuntimeStates, ProcessRecord, Goto, NotReady, At
  <2>4. r.pc = "out" /\ ~r.recovered
    BY <1>0 DEF ToolEnds, ProcessRecord, NoProcess, RuntimeStates
  <2>5. lock' \in Process \cup {Free} /\ (lock' = lock \/ lock \in {p, Free})
    BY <1>0 DEF ToolEnds, At, ProcessInv, HoldsLock
  <2>6. ProcessInv(p)'
    <3> HIDE DEF r
    <3>0. proc'[p] = r /\ up'[p] = u /\ ready'[p] = b
      BY <2>3 DEF RuntimeInv, RuntimeStates
    <3>1. HoldsLock(p)'
      BY <1>0, <3>0, <2>4, <2>5, RuntimeAssumption
      DEF ToolEnds, Workers, At, ProcessInv, HoldsLock, LeftToStop, MayRelease
    <3>2. StartedSoFar(p)'
      BY <1>0, <3>0, <2>4, StartingIs
      DEF ToolEnds, Workers, At, ProcessInv, HoldsLock, StartedSoFar
    <3>3. LeftToStop(p)'
      BY <1>0, <3>0, <2>4, StopOrderIs
      DEF ToolEnds, Workers, Service, At, ProcessInv, StartedSoFar, LeftToStop, MayRelease
    <3>4. ReadyIsServing(p)'
      BY <1>0, <3>0, <2>4
      DEF ToolEnds, Workers, At, ProcessInv, StartedSoFar, ReadyIsServing
    <3> QED BY <3>1, <3>2, <3>3, <3>4 DEF ProcessInv
  <2> HIDE DEF r, u, b
  <2> QED BY <2>1, <2>2, <2>3, <2>5, <2>6, OthersStay
<1> QED BY <1>1

LEMMA ComposeInv == \A p \in Process : RuntimeInv /\ Compose(p) => RuntimeInv'
<1> SUFFICES ASSUME NEW p \in Process, RuntimeInv, Compose(p) PROVE RuntimeInv' OBVIOUS
<1>0. ProcessInv(p) /\ proc[p] \in ProcessRecord /\ up[p] \in SUBSET Service
      /\ ready[p] \in BOOLEAN /\ lock \in Process \cup {Free} /\ RuntimeStates
  BY DEF RuntimeInv, RuntimeStates
<1>1. CASE proc' = [proc EXCEPT ![p].pc = "starting", ![p].step = 1, ![p].built = TRUE] /\ up' = [up EXCEPT ![p] = {"provider", "gateway"}]
  <2> DEFINE r == [proc[p] EXCEPT !.pc = "starting", !.step = 1, !.built = TRUE]
             u == {"provider", "gateway"}
             b == ready[p]
  <2>1. r \in ProcessRecord
    <3>1. /\ ("starting") \in ProcessPc
          /\ (1) \in 0..8
          /\ (TRUE) \in BOOLEAN
      BY <1>1, <1>0 DEF Compose, At, ProcessPc, ProcessRecord, ProcessInv, StartedSoFar, LeftToStop
    <3> QED BY <1>0, <3>1, ProcessUpdates
  <2>2. u \in SUBSET Service /\ b \in BOOLEAN
    BY <1>1, <1>0 DEF Compose, Service, Workers, RuntimeStates
  <2>3. proc' = [proc EXCEPT ![p] = r] /\ up' = [up EXCEPT ![p] = u]
        /\ ready' = [ready EXCEPT ![p] = b]
    BY <1>1, <1>0 DEF Compose, RuntimeStates, ProcessRecord, Goto, NotReady, At
  <2>4. r.pc = "starting" /\ r.step = 1 /\ r.recovered = proc[p].recovered
    BY <1>1, <1>0 DEF Compose, ProcessRecord, NoProcess, RuntimeStates
  <2>5. lock' \in Process \cup {Free} /\ (lock' = lock \/ lock \in {p, Free})
    BY <1>1, <1>0 DEF Compose, MayRelease
  <2>6. ProcessInv(p)'
    <3> HIDE DEF r
    <3>0. proc'[p] = r /\ up'[p] = u /\ ready'[p] = b
      BY <2>3 DEF RuntimeInv, RuntimeStates
    <3>1. HoldsLock(p)'
      BY <1>1, <1>0, <3>0, <2>4, <2>5, RuntimeAssumption
      DEF Compose, Workers, At, ProcessInv, HoldsLock, LeftToStop, MayRelease
    <3>2. StartedSoFar(p)'
      BY <1>1, <1>0, <3>0, <2>4, StartingIs
      DEF Compose, Workers, At, ProcessInv, HoldsLock, StartedSoFar
    <3>3. LeftToStop(p)'
      BY <1>1, <1>0, <3>0, <2>4, StopOrderIs
      DEF Compose, Workers, Service, At, ProcessInv, StartedSoFar, LeftToStop, MayRelease
    <3>4. ReadyIsServing(p)'
      BY <1>1, <1>0, <3>0, <2>4
      DEF Compose, Workers, At, ProcessInv, StartedSoFar, ReadyIsServing
    <3> QED BY <3>1, <3>2, <3>3, <3>4 DEF ProcessInv
  <2> HIDE DEF r, u, b
  <2> QED BY <2>1, <2>2, <2>3, <2>5, <2>6, OthersStay
<1>2. CASE Goto(p, "closing") /\ up' = up
  <2> DEFINE r == [proc[p] EXCEPT !.pc = "closing", !.step = 1]
             u == up[p]
             b == ready[p]
  <2>1. r \in ProcessRecord
    <3>1. /\ ("closing") \in ProcessPc
          /\ (1) \in 0..8
      BY <1>2, <1>0 DEF Compose, At, ProcessPc, ProcessRecord, ProcessInv, StartedSoFar, LeftToStop
    <3> QED BY <1>0, <3>1, ProcessUpdates
  <2>2. u \in SUBSET Service /\ b \in BOOLEAN
    BY <1>2, <1>0 DEF Compose, Service, Workers, RuntimeStates
  <2>3. proc' = [proc EXCEPT ![p] = r] /\ up' = [up EXCEPT ![p] = u]
        /\ ready' = [ready EXCEPT ![p] = b]
    BY <1>2, <1>0 DEF Compose, RuntimeStates, ProcessRecord, Goto, NotReady, At
  <2>4. r.pc = "closing" /\ r.step = 1 /\ r.recovered = proc[p].recovered
    BY <1>2, <1>0 DEF Compose, ProcessRecord, NoProcess, RuntimeStates
  <2>5. lock' \in Process \cup {Free} /\ (lock' = lock \/ lock \in {p, Free})
    BY <1>2, <1>0 DEF Compose, MayRelease
  <2>6. ProcessInv(p)'
    <3> HIDE DEF r
    <3>0. proc'[p] = r /\ up'[p] = u /\ ready'[p] = b
      BY <2>3 DEF RuntimeInv, RuntimeStates
    <3>1. HoldsLock(p)'
      BY <1>2, <1>0, <3>0, <2>4, <2>5, RuntimeAssumption
      DEF Compose, Workers, At, ProcessInv, HoldsLock, LeftToStop, MayRelease
    <3>2. StartedSoFar(p)'
      BY <1>2, <1>0, <3>0, <2>4, StartingIs
      DEF Compose, Workers, At, ProcessInv, HoldsLock, StartedSoFar
    <3>3. LeftToStop(p)'
      BY <1>2, <1>0, <3>0, <2>4, StopOrderIs
      DEF Compose, Workers, Service, At, ProcessInv, StartedSoFar, LeftToStop, MayRelease
    <3>4. ReadyIsServing(p)'
      BY <1>2, <1>0, <3>0, <2>4
      DEF Compose, Workers, At, ProcessInv, StartedSoFar, ReadyIsServing
    <3> QED BY <3>1, <3>2, <3>3, <3>4 DEF ProcessInv
  <2> HIDE DEF r, u, b
  <2> QED BY <2>1, <2>2, <2>3, <2>5, <2>6, OthersStay
<1>3. CASE Goto(p, "closing") /\ up' = [up EXCEPT ![p] = {"provider", "gateway"}]
  <2> DEFINE r == [proc[p] EXCEPT !.pc = "closing", !.step = 1]
             u == {"provider", "gateway"}
             b == ready[p]
  <2>1. r \in ProcessRecord
    <3>1. /\ ("closing") \in ProcessPc
          /\ (1) \in 0..8
      BY <1>3, <1>0 DEF Compose, At, ProcessPc, ProcessRecord, ProcessInv, StartedSoFar, LeftToStop
    <3> QED BY <1>0, <3>1, ProcessUpdates
  <2>2. u \in SUBSET Service /\ b \in BOOLEAN
    BY <1>3, <1>0 DEF Compose, Service, Workers, RuntimeStates
  <2>3. proc' = [proc EXCEPT ![p] = r] /\ up' = [up EXCEPT ![p] = u]
        /\ ready' = [ready EXCEPT ![p] = b]
    BY <1>3, <1>0 DEF Compose, RuntimeStates, ProcessRecord, Goto, NotReady, At
  <2>4. r.pc = "closing" /\ r.step = 1 /\ r.recovered = proc[p].recovered
    BY <1>3, <1>0 DEF Compose, ProcessRecord, NoProcess, RuntimeStates
  <2>5. lock' \in Process \cup {Free} /\ (lock' = lock \/ lock \in {p, Free})
    BY <1>3, <1>0 DEF Compose, MayRelease
  <2>6. ProcessInv(p)'
    <3> HIDE DEF r
    <3>0. proc'[p] = r /\ up'[p] = u /\ ready'[p] = b
      BY <2>3 DEF RuntimeInv, RuntimeStates
    <3>1. HoldsLock(p)'
      BY <1>3, <1>0, <3>0, <2>4, <2>5, RuntimeAssumption
      DEF Compose, Workers, At, ProcessInv, HoldsLock, LeftToStop, MayRelease
    <3>2. StartedSoFar(p)'
      BY <1>3, <1>0, <3>0, <2>4, StartingIs
      DEF Compose, Workers, At, ProcessInv, HoldsLock, StartedSoFar
    <3>3. LeftToStop(p)'
      BY <1>3, <1>0, <3>0, <2>4, StopOrderIs
      DEF Compose, Workers, Service, At, ProcessInv, StartedSoFar, LeftToStop, MayRelease
    <3>4. ReadyIsServing(p)'
      BY <1>3, <1>0, <3>0, <2>4
      DEF Compose, Workers, At, ProcessInv, StartedSoFar, ReadyIsServing
    <3> QED BY <3>1, <3>2, <3>3, <3>4 DEF ProcessInv
  <2> HIDE DEF r, u, b
  <2> QED BY <2>1, <2>2, <2>3, <2>5, <2>6, OthersStay
<1> QED BY <1>1, <1>2, <1>3 DEF Compose, At, MayRelease

LEMMA StartNextInv == \A p \in Process : RuntimeInv /\ StartNext(p) => RuntimeInv'
<1> SUFFICES ASSUME NEW p \in Process, RuntimeInv, StartNext(p) PROVE RuntimeInv' OBVIOUS
<1>0. ProcessInv(p) /\ proc[p] \in ProcessRecord /\ up[p] \in SUBSET Service
      /\ ready[p] \in BOOLEAN /\ lock \in Process \cup {Free} /\ RuntimeStates
  BY DEF RuntimeInv, RuntimeStates
<1>1. RuntimeInv'
  <2> DEFINE r == [proc[p] EXCEPT !.pc = IF proc[p].step = Len(Starting) THEN "started" ELSE "starting",
                             !.step = IF proc[p].step = Len(Starting) THEN 1 ELSE proc[p].step + 1,
                             !.recovered = @ \/ Starting[proc[p].step] = "sweep",
                             !.waiter = IF proc[p].step = Len(Starting) THEN "new" ELSE "none"]
             u == up[p] \cup ({Starting[proc[p].step]} \cap Workers)
             b == ready[p]
  <2>1. r \in ProcessRecord
    <3>1. /\ (IF proc[p].step = Len(Starting) THEN "started" ELSE "starting") \in ProcessPc
          /\ (IF proc[p].step = Len(Starting) THEN 1 ELSE proc[p].step + 1) \in 0..8
          /\ (proc[p].recovered \/ Starting[proc[p].step] = "sweep") \in BOOLEAN
          /\ (IF proc[p].step = Len(Starting) THEN "new" ELSE "none") \in {"none", "new", "waits"}
      BY <1>0, StartingIs DEF StartNext, At, ProcessPc, ProcessRecord, ProcessInv, StartedSoFar, LeftToStop
    <3> DEFINE c == IF proc[p].step = Len(Starting) THEN "started" ELSE "starting"
               n == IF proc[p].step = Len(Starting) THEN 1 ELSE proc[p].step + 1
               rec == proc[p].recovered \/ Starting[proc[p].step] = "sweep"
               w == IF proc[p].step = Len(Starting) THEN "new" ELSE "none"
    <3>2. c \in ProcessPc /\ n \in 0..8 /\ rec \in BOOLEAN /\ w \in {"none", "new", "waits"}
      BY <3>1
    <3>3. r = [proc[p] EXCEPT !.pc = c, !.step = n, !.recovered = rec, !.waiter = w]
      OBVIOUS
    <3> HIDE DEF r, c, n, rec, w
    <3>4. [proc[p] EXCEPT !.pc = c, !.step = n, !.recovered = rec, !.waiter = w] \in ProcessRecord
      BY <1>0, <3>2, ProcessUpdates
    <3> QED BY <3>3, <3>4
  <2>2. u \in SUBSET Service /\ b \in BOOLEAN
    BY <1>0, StartingIs DEF StartNext, Service, Workers, RuntimeStates
  <2>3. proc' = [proc EXCEPT ![p] = r] /\ up' = [up EXCEPT ![p] = u]
        /\ ready' = [ready EXCEPT ![p] = b]
    BY <1>0, StartingIs DEF StartNext, RuntimeStates, ProcessRecord, Goto, NotReady, At
  <2>4. /\ r.pc = (IF proc[p].step = Len(Starting) THEN "started" ELSE "starting")
          /\ r.step = (IF proc[p].step = Len(Starting) THEN 1 ELSE proc[p].step + 1)
          /\ r.recovered = (proc[p].recovered \/ Starting[proc[p].step] = "sweep")
    BY <1>0, StartingIs DEF StartNext, ProcessRecord, NoProcess, RuntimeStates
  <2>5. lock' \in Process \cup {Free} /\ (lock' = lock \/ lock \in {p, Free})
    BY <1>0, StartingIs DEF StartNext, MayRelease
  <2>6. ProcessInv(p)'
    <3> HIDE DEF r
    <3>0. proc'[p] = r /\ up'[p] = u /\ ready'[p] = b
      BY <2>3 DEF RuntimeInv, RuntimeStates
    <3>1. HoldsLock(p)'
      BY <1>0, <3>0, <2>4, <2>5, RuntimeAssumption, StartingIs
      DEF StartNext, Workers, At, ProcessInv, HoldsLock, LeftToStop, MayRelease
    <3>2. StartedSoFar(p)'
      <4>0. proc[p].pc = "starting" /\ proc[p].step \in 1..7
        BY <1>0 DEF StartNext, At, ProcessInv, StartedSoFar
      <4>1. r.pc = "starting" => r.step = proc[p].step + 1 /\ r.step \in 1..7
        BY <2>4, <4>0, StartingIs
      <4>2. r.pc = "starting" => (r.step >= 3 => r.recovered)
        <5>1. CASE proc[p].step >= 3 BY <1>0, <2>4, <4>0, <5>1 DEF ProcessInv, StartedSoFar
        <5>2. CASE proc[p].step = 2 BY <2>4, <4>0, <5>2, StartingIs
        <5>3. CASE proc[p].step = 1 BY <4>0, <4>1, <5>3
        <5> QED BY <4>0, <5>1, <5>2, <5>3
      <4>3. ASSUME r.pc = "starting", NEW i \in 1..7, i < r.step, Starting[i] \in Workers
            PROVE  Starting[i] \in u
        <5>1. i < proc[p].step \/ i = proc[p].step BY <4>0, <4>1, <4>3
        <5>2. CASE i < proc[p].step BY <1>0, <4>0, <4>3, <5>2 DEF ProcessInv, StartedSoFar
        <5>3. CASE i = proc[p].step BY <4>3, <5>3
        <5> QED BY <5>1, <5>2, <5>3
      <4>4. r.pc = "starting" => u \cap {"api", "polling"} = {}
        BY <1>0, <4>0 DEF ProcessInv, StartedSoFar, Workers
      <4>5. u \cap Workers # {} => r.recovered
        <5>1. CASE up[p] \cap Workers # {} BY <1>0, <2>4, <5>1 DEF ProcessInv, StartedSoFar
        <5>2. CASE proc[p].step <= 3
          BY <2>4, <4>0, <5>1, <5>2, StartingIs DEF Workers
        <5>3. CASE proc[p].step >= 3
          BY <1>0, <2>4, <4>0, <5>3 DEF ProcessInv, StartedSoFar
        <5> QED BY <4>0, <5>1, <5>2, <5>3
      <4> QED BY <3>0, <4>1, <4>2, <4>3, <4>4, <4>5 DEF StartedSoFar
    <3>3. LeftToStop(p)'
      BY <1>0, <3>0, <2>4, StopOrderIs
      DEF StartNext, Workers, Service, At, ProcessInv, StartedSoFar, LeftToStop, MayRelease
    <3>4. ReadyIsServing(p)'
      BY <1>0, <3>0, <2>4, StartingIs
      DEF StartNext, Workers, At, ProcessInv, StartedSoFar, ReadyIsServing
    <3> QED BY <3>1, <3>2, <3>3, <3>4 DEF ProcessInv
  <2> HIDE DEF r, u, b
  <2> QED BY <2>1, <2>2, <2>3, <2>5, <2>6, OthersStay
<1> QED BY <1>1

LEMMA StartFailsInv == \A p \in Process : RuntimeInv /\ StartFails(p) => RuntimeInv'
<1> SUFFICES ASSUME NEW p \in Process, RuntimeInv, StartFails(p) PROVE RuntimeInv' OBVIOUS
<1>0. ProcessInv(p) /\ proc[p] \in ProcessRecord /\ up[p] \in SUBSET Service
      /\ ready[p] \in BOOLEAN /\ lock \in Process \cup {Free} /\ RuntimeStates
  BY DEF RuntimeInv, RuntimeStates
<1>1. RuntimeInv'
  <2> DEFINE r == [proc[p] EXCEPT !.pc = "unwinding", !.step = 1]
             u == up[p]
             b == ready[p]
  <2>1. r \in ProcessRecord
    <3>1. /\ ("unwinding") \in ProcessPc
          /\ (1) \in 0..8
      BY <1>0, StopOrderIs DEF StartFails, At, ProcessPc, ProcessRecord, ProcessInv, StartedSoFar, LeftToStop
    <3> QED BY <1>0, <3>1, ProcessUpdates
  <2>2. u \in SUBSET Service /\ b \in BOOLEAN
    BY <1>0, StopOrderIs DEF StartFails, Service, Workers, RuntimeStates
  <2>3. proc' = [proc EXCEPT ![p] = r] /\ up' = [up EXCEPT ![p] = u]
        /\ ready' = [ready EXCEPT ![p] = b]
    BY <1>0, StopOrderIs DEF StartFails, RuntimeStates, ProcessRecord, Goto, NotReady, At
  <2>4. r.pc = "unwinding" /\ r.step = 1 /\ r.recovered = proc[p].recovered
    BY <1>0, StopOrderIs DEF StartFails, ProcessRecord, NoProcess, RuntimeStates
  <2>5. lock' \in Process \cup {Free} /\ (lock' = lock \/ lock \in {p, Free})
    BY <1>0, StopOrderIs DEF StartFails, MayRelease
  <2>6. ProcessInv(p)'
    <3> HIDE DEF r
    <3>0. proc'[p] = r /\ up'[p] = u /\ ready'[p] = b
      BY <2>3 DEF RuntimeInv, RuntimeStates
    <3>1. HoldsLock(p)'
      BY <1>0, <3>0, <2>4, <2>5, RuntimeAssumption, StopOrderIs
      DEF StartFails, Workers, At, ProcessInv, HoldsLock, LeftToStop, MayRelease
    <3>2. StartedSoFar(p)'
      BY <1>0, <3>0, <2>4, StartingIs, StopOrderIs
      DEF StartFails, Workers, At, ProcessInv, HoldsLock, StartedSoFar
    <3>3. LeftToStop(p)'
      BY <1>0, <3>0, <2>4, StopOrderIs
      DEF StartFails, Workers, Service, At, ProcessInv, StartedSoFar, LeftToStop, MayRelease
    <3>4. ReadyIsServing(p)'
      BY <1>0, <3>0, <2>4, StopOrderIs
      DEF StartFails, Workers, At, ProcessInv, StartedSoFar, ReadyIsServing
    <3> QED BY <3>1, <3>2, <3>3, <3>4 DEF ProcessInv
  <2> HIDE DEF r, u, b
  <2> QED BY <2>1, <2>2, <2>3, <2>5, <2>6, OthersStay
<1> QED BY <1>1

LEMMA StartApiInv == \A p \in Process : RuntimeInv /\ StartApi(p) => RuntimeInv'
<1> SUFFICES ASSUME NEW p \in Process, RuntimeInv, StartApi(p) PROVE RuntimeInv' OBVIOUS
<1>0. ProcessInv(p) /\ proc[p] \in ProcessRecord /\ up[p] \in SUBSET Service
      /\ ready[p] \in BOOLEAN /\ lock \in Process \cup {Free} /\ RuntimeStates
  BY DEF RuntimeInv, RuntimeStates
<1>1. CASE up' = [up EXCEPT ![p] = @ \cup {"api"}] /\ proc' = [proc EXCEPT ![p].pc = "polling", ![p].waiter = "waits"]
  <2> DEFINE r == [proc[p] EXCEPT !.pc = "polling", !.waiter = "waits"]
             u == up[p] \cup {"api"}
             b == ready[p]
  <2>1. r \in ProcessRecord
    <3>1. /\ ("polling") \in ProcessPc
          /\ ("waits") \in {"none", "new", "waits"}
      BY <1>1, <1>0 DEF StartApi, At, ProcessPc, ProcessRecord, ProcessInv, StartedSoFar, LeftToStop
    <3> QED BY <1>0, <3>1, ProcessUpdates
  <2>2. u \in SUBSET Service /\ b \in BOOLEAN
    BY <1>1, <1>0 DEF StartApi, Service, Workers, RuntimeStates
  <2>3. proc' = [proc EXCEPT ![p] = r] /\ up' = [up EXCEPT ![p] = u]
        /\ ready' = [ready EXCEPT ![p] = b]
    BY <1>1, <1>0 DEF StartApi, RuntimeStates, ProcessRecord, Goto, NotReady, At
  <2>4. r.pc = "polling" /\ r.step = proc[p].step /\ r.recovered = proc[p].recovered
    BY <1>1, <1>0 DEF StartApi, ProcessRecord, NoProcess, RuntimeStates
  <2>5. lock' \in Process \cup {Free} /\ (lock' = lock \/ lock \in {p, Free})
    BY <1>1, <1>0 DEF StartApi, MayRelease
  <2>6. ProcessInv(p)'
    <3> HIDE DEF r
    <3>0. proc'[p] = r /\ up'[p] = u /\ ready'[p] = b
      BY <2>3 DEF RuntimeInv, RuntimeStates
    <3>1. HoldsLock(p)'
      BY <1>1, <1>0, <3>0, <2>4, <2>5, RuntimeAssumption
      DEF StartApi, Workers, At, ProcessInv, HoldsLock, LeftToStop, MayRelease
    <3>2. StartedSoFar(p)'
      BY <1>1, <1>0, <3>0, <2>4, StartingIs
      DEF StartApi, Workers, At, ProcessInv, HoldsLock, StartedSoFar
    <3>3. LeftToStop(p)'
      BY <1>1, <1>0, <3>0, <2>4, StopOrderIs
      DEF StartApi, Workers, Service, At, ProcessInv, StartedSoFar, LeftToStop, MayRelease
    <3>4. ReadyIsServing(p)'
      BY <1>1, <1>0, <3>0, <2>4
      DEF StartApi, Workers, At, ProcessInv, StartedSoFar, ReadyIsServing
    <3> QED BY <3>1, <3>2, <3>3, <3>4 DEF ProcessInv
  <2> HIDE DEF r, u, b
  <2> QED BY <2>1, <2>2, <2>3, <2>5, <2>6, OthersStay
<1>2. CASE proc' = [proc EXCEPT ![p].pc = "closing", ![p].step = 1, ![p].waiter = "waits"] /\ UNCHANGED up
  <2> DEFINE r == [proc[p] EXCEPT !.pc = "closing", !.step = 1, !.waiter = "waits"]
             u == up[p]
             b == ready[p]
  <2>1. r \in ProcessRecord
    <3>1. /\ ("closing") \in ProcessPc
          /\ (1) \in 0..8
          /\ ("waits") \in {"none", "new", "waits"}
      BY <1>2, <1>0 DEF StartApi, At, ProcessPc, ProcessRecord, ProcessInv, StartedSoFar, LeftToStop
    <3> QED BY <1>0, <3>1, ProcessUpdates
  <2>2. u \in SUBSET Service /\ b \in BOOLEAN
    BY <1>2, <1>0 DEF StartApi, Service, Workers, RuntimeStates
  <2>3. proc' = [proc EXCEPT ![p] = r] /\ up' = [up EXCEPT ![p] = u]
        /\ ready' = [ready EXCEPT ![p] = b]
    BY <1>2, <1>0 DEF StartApi, RuntimeStates, ProcessRecord, Goto, NotReady, At
  <2>4. r.pc = "closing" /\ r.step = 1 /\ r.recovered = proc[p].recovered
    BY <1>2, <1>0 DEF StartApi, ProcessRecord, NoProcess, RuntimeStates
  <2>5. lock' \in Process \cup {Free} /\ (lock' = lock \/ lock \in {p, Free})
    BY <1>2, <1>0 DEF StartApi, MayRelease
  <2>6. ProcessInv(p)'
    <3> HIDE DEF r
    <3>0. proc'[p] = r /\ up'[p] = u /\ ready'[p] = b
      BY <2>3 DEF RuntimeInv, RuntimeStates
    <3>1. HoldsLock(p)'
      BY <1>2, <1>0, <3>0, <2>4, <2>5, RuntimeAssumption
      DEF StartApi, Workers, At, ProcessInv, HoldsLock, LeftToStop, MayRelease
    <3>2. StartedSoFar(p)'
      BY <1>2, <1>0, <3>0, <2>4, StartingIs
      DEF StartApi, Workers, At, ProcessInv, HoldsLock, StartedSoFar
    <3>3. LeftToStop(p)'
      BY <1>2, <1>0, <3>0, <2>4, StopOrderIs
      DEF StartApi, Workers, Service, At, ProcessInv, StartedSoFar, LeftToStop, MayRelease
    <3>4. ReadyIsServing(p)'
      BY <1>2, <1>0, <3>0, <2>4
      DEF StartApi, Workers, At, ProcessInv, StartedSoFar, ReadyIsServing
    <3> QED BY <3>1, <3>2, <3>3, <3>4 DEF ProcessInv
  <2> HIDE DEF r, u, b
  <2> QED BY <2>1, <2>2, <2>3, <2>5, <2>6, OthersStay
<1>3. CASE proc' = [proc EXCEPT ![p].pc = "polling"] /\ UNCHANGED up
  <2> DEFINE r == [proc[p] EXCEPT !.pc = "polling"]
             u == up[p]
             b == ready[p]
  <2>1. r \in ProcessRecord
    <3>1. /\ ("polling") \in ProcessPc
      BY <1>3, <1>0 DEF StartApi, At, ProcessPc, ProcessRecord, ProcessInv, StartedSoFar, LeftToStop
    <3> QED BY <1>0, <3>1, ProcessUpdates
  <2>2. u \in SUBSET Service /\ b \in BOOLEAN
    BY <1>3, <1>0 DEF StartApi, Service, Workers, RuntimeStates
  <2>3. proc' = [proc EXCEPT ![p] = r] /\ up' = [up EXCEPT ![p] = u]
        /\ ready' = [ready EXCEPT ![p] = b]
    BY <1>3, <1>0 DEF StartApi, RuntimeStates, ProcessRecord, Goto, NotReady, At
  <2>4. r.pc = "polling" /\ r.step = proc[p].step /\ r.recovered = proc[p].recovered
    BY <1>3, <1>0 DEF StartApi, ProcessRecord, NoProcess, RuntimeStates
  <2>5. lock' \in Process \cup {Free} /\ (lock' = lock \/ lock \in {p, Free})
    BY <1>3, <1>0 DEF StartApi, MayRelease
  <2>6. ProcessInv(p)'
    <3> HIDE DEF r
    <3>0. proc'[p] = r /\ up'[p] = u /\ ready'[p] = b
      BY <2>3 DEF RuntimeInv, RuntimeStates
    <3>1. HoldsLock(p)'
      BY <1>3, <1>0, <3>0, <2>4, <2>5, RuntimeAssumption
      DEF StartApi, Workers, At, ProcessInv, HoldsLock, LeftToStop, MayRelease
    <3>2. StartedSoFar(p)'
      BY <1>3, <1>0, <3>0, <2>4, StartingIs
      DEF StartApi, Workers, At, ProcessInv, HoldsLock, StartedSoFar
    <3>3. LeftToStop(p)'
      BY <1>3, <1>0, <3>0, <2>4, StopOrderIs
      DEF StartApi, Workers, Service, At, ProcessInv, StartedSoFar, LeftToStop, MayRelease
    <3>4. ReadyIsServing(p)'
      BY <1>3, <1>0, <3>0, <2>4
      DEF StartApi, Workers, At, ProcessInv, StartedSoFar, ReadyIsServing
    <3> QED BY <3>1, <3>2, <3>3, <3>4 DEF ProcessInv
  <2> HIDE DEF r, u, b
  <2> QED BY <2>1, <2>2, <2>3, <2>5, <2>6, OthersStay
<1> QED BY <1>1, <1>2, <1>3 DEF StartApi, At, MayRelease

LEMMA StartPollingInv == \A p \in Process : RuntimeInv /\ StartPolling(p) => RuntimeInv'
<1> SUFFICES ASSUME NEW p \in Process, RuntimeInv, StartPolling(p) PROVE RuntimeInv' OBVIOUS
<1>0. ProcessInv(p) /\ proc[p] \in ProcessRecord /\ up[p] \in SUBSET Service
      /\ ready[p] \in BOOLEAN /\ lock \in Process \cup {Free} /\ RuntimeStates
  BY DEF RuntimeInv, RuntimeStates
<1>1. RuntimeInv'
  <2> DEFINE r == [proc[p] EXCEPT !.pc = "serving", !.waiter = "waits"]
             u == up[p] \cup {"polling"}
             b == TRUE
  <2>1. r \in ProcessRecord
    <3>1. /\ ("serving") \in ProcessPc
          /\ ("waits") \in {"none", "new", "waits"}
      BY <1>0 DEF StartPolling, At, ProcessPc, ProcessRecord, ProcessInv, StartedSoFar, LeftToStop
    <3> QED BY <1>0, <3>1, ProcessUpdates
  <2>2. u \in SUBSET Service /\ b \in BOOLEAN
    BY <1>0 DEF StartPolling, Service, Workers, RuntimeStates
  <2>3. proc' = [proc EXCEPT ![p] = r] /\ up' = [up EXCEPT ![p] = u]
        /\ ready' = [ready EXCEPT ![p] = b]
    BY <1>0 DEF StartPolling, RuntimeStates, ProcessRecord, Goto, NotReady, At
  <2>4. r.pc = "serving" /\ r.step = proc[p].step /\ r.recovered = proc[p].recovered
    BY <1>0 DEF StartPolling, ProcessRecord, NoProcess, RuntimeStates
  <2>5. lock' \in Process \cup {Free} /\ (lock' = lock \/ lock \in {p, Free})
    BY <1>0 DEF StartPolling, MayRelease
  <2>6. ProcessInv(p)'
    <3> HIDE DEF r
    <3>0. proc'[p] = r /\ up'[p] = u /\ ready'[p] = b
      BY <2>3 DEF RuntimeInv, RuntimeStates
    <3>1. HoldsLock(p)'
      BY <1>0, <3>0, <2>4, <2>5, RuntimeAssumption
      DEF StartPolling, Workers, At, ProcessInv, HoldsLock, LeftToStop, MayRelease
    <3>2. StartedSoFar(p)'
      BY <1>0, <3>0, <2>4, StartingIs
      DEF StartPolling, Workers, At, ProcessInv, HoldsLock, StartedSoFar
    <3>3. LeftToStop(p)'
      BY <1>0, <3>0, <2>4, StopOrderIs
      DEF StartPolling, Workers, Service, At, ProcessInv, StartedSoFar, LeftToStop, MayRelease
    <3>4. ReadyIsServing(p)'
      BY <1>0, <3>0, <2>4
      DEF StartPolling, Workers, At, ProcessInv, StartedSoFar, ReadyIsServing
    <3> QED BY <3>1, <3>2, <3>3, <3>4 DEF ProcessInv
  <2> HIDE DEF r, u, b
  <2> QED BY <2>1, <2>2, <2>3, <2>5, <2>6, OthersStay
<1> QED BY <1>1

LEMMA DiesInv == \A p \in Process : RuntimeInv /\ Dies(p) => RuntimeInv'
<1> SUFFICES ASSUME NEW p \in Process, RuntimeInv, Dies(p) PROVE RuntimeInv' OBVIOUS
<1>0. ProcessInv(p) /\ proc[p] \in ProcessRecord /\ up[p] \in SUBSET Service
      /\ ready[p] \in BOOLEAN /\ lock \in Process \cup {Free} /\ RuntimeStates
  BY DEF RuntimeInv, RuntimeStates
<1>1. CASE \E x \in {"polling", "api", "cleanup"} \cap up[p] : up' = [up EXCEPT ![p] = @ \ {x}]
  <2> DEFINE r == proc[p]
             u == up'[p]
             b == ready[p]
  <2>1. r \in ProcessRecord BY <1>0
  <2>2. u \in SUBSET Service /\ b \in BOOLEAN
    BY <1>1, <1>0 DEF Dies, Service, Workers, RuntimeStates
  <2>3. proc' = [proc EXCEPT ![p] = r] /\ up' = [up EXCEPT ![p] = u]
        /\ ready' = [ready EXCEPT ![p] = b]
    BY <1>1, <1>0 DEF Dies, RuntimeStates, ProcessRecord, Goto, NotReady, At
  <2>4. r = proc[p]
    BY <1>1, <1>0 DEF Dies, ProcessRecord, NoProcess, RuntimeStates
  <2>5. lock' \in Process \cup {Free} /\ (lock' = lock \/ lock \in {p, Free})
    BY <1>1, <1>0 DEF Dies, MayRelease
  <2>6. ProcessInv(p)'
    <3> HIDE DEF r
    <3>0. proc'[p] = r /\ up'[p] = u /\ ready'[p] = b
      BY <2>3 DEF RuntimeInv, RuntimeStates
    <3>1. HoldsLock(p)'
      BY <1>1, <1>0, <3>0, <2>4, <2>5, RuntimeAssumption
      DEF Dies, Workers, At, ProcessInv, HoldsLock, LeftToStop, MayRelease
    <3>2. StartedSoFar(p)'
      BY <1>1, <1>0, <3>0, <2>4, StartingIs
      DEF Dies, Workers, At, ProcessInv, HoldsLock, StartedSoFar
    <3>3. LeftToStop(p)'
      BY <1>1, <1>0, <3>0, <2>4, StopOrderIs
      DEF Dies, Workers, Service, At, ProcessInv, StartedSoFar, LeftToStop, MayRelease
    <3>4. ReadyIsServing(p)'
      BY <1>1, <1>0, <3>0, <2>4
      DEF Dies, Workers, At, ProcessInv, StartedSoFar, ReadyIsServing
    <3> QED BY <3>1, <3>2, <3>3, <3>4 DEF ProcessInv
  <2> HIDE DEF r, u, b
  <2> QED BY <2>1, <2>2, <2>3, <2>5, <2>6, OthersStay
<1> QED BY <1>1 DEF Dies, At, MayRelease

LEMMA LeavePollingInv == \A p \in Process : RuntimeInv /\ LeavePolling(p) => RuntimeInv'
<1> SUFFICES ASSUME NEW p \in Process, RuntimeInv, LeavePolling(p) PROVE RuntimeInv' OBVIOUS
<1>0. ProcessInv(p) /\ proc[p] \in ProcessRecord /\ up[p] \in SUBSET Service
      /\ ready[p] \in BOOLEAN /\ lock \in Process \cup {Free} /\ RuntimeStates
  BY DEF RuntimeInv, RuntimeStates
<1>1. RuntimeInv'
  <2> DEFINE r == [proc[p] EXCEPT !.pc = "closing", !.step = 1]
             u == up[p]
             b == FALSE
  <2>1. r \in ProcessRecord
    <3>1. /\ ("closing") \in ProcessPc
          /\ (1) \in 0..8
      BY <1>0 DEF LeavePolling, At, ProcessPc, ProcessRecord, ProcessInv, StartedSoFar, LeftToStop
    <3> QED BY <1>0, <3>1, ProcessUpdates
  <2>2. u \in SUBSET Service /\ b \in BOOLEAN
    BY <1>0 DEF LeavePolling, Service, Workers, RuntimeStates
  <2>3. proc' = [proc EXCEPT ![p] = r] /\ up' = [up EXCEPT ![p] = u]
        /\ ready' = [ready EXCEPT ![p] = b]
    BY <1>0 DEF LeavePolling, RuntimeStates, ProcessRecord, Goto, NotReady, At
  <2>4. r.pc = "closing" /\ r.step = 1 /\ r.recovered = proc[p].recovered
    BY <1>0 DEF LeavePolling, ProcessRecord, NoProcess, RuntimeStates
  <2>5. lock' \in Process \cup {Free} /\ (lock' = lock \/ lock \in {p, Free})
    BY <1>0 DEF LeavePolling, MayRelease
  <2>6. ProcessInv(p)'
    <3> HIDE DEF r
    <3>0. proc'[p] = r /\ up'[p] = u /\ ready'[p] = b
      BY <2>3 DEF RuntimeInv, RuntimeStates
    <3>1. HoldsLock(p)'
      BY <1>0, <3>0, <2>4, <2>5, RuntimeAssumption
      DEF LeavePolling, Workers, At, ProcessInv, HoldsLock, LeftToStop, MayRelease
    <3>2. StartedSoFar(p)'
      BY <1>0, <3>0, <2>4, StartingIs
      DEF LeavePolling, Workers, At, ProcessInv, HoldsLock, StartedSoFar
    <3>3. LeftToStop(p)'
      BY <1>0, <3>0, <2>4, StopOrderIs
      DEF LeavePolling, Workers, Service, At, ProcessInv, StartedSoFar, LeftToStop, MayRelease
    <3>4. ReadyIsServing(p)'
      BY <1>0, <3>0, <2>4
      DEF LeavePolling, Workers, At, ProcessInv, StartedSoFar, ReadyIsServing
    <3> QED BY <3>1, <3>2, <3>3, <3>4 DEF ProcessInv
  <2> HIDE DEF r, u, b
  <2> QED BY <2>1, <2>2, <2>3, <2>5, <2>6, OthersStay
<1> QED BY <1>1

LEMMA CloseServicesInv == \A p \in Process : RuntimeInv /\ CloseServices(p) => RuntimeInv'
<1> SUFFICES ASSUME NEW p \in Process, RuntimeInv, CloseServices(p) PROVE RuntimeInv' OBVIOUS
<1>0. ProcessInv(p) /\ proc[p] \in ProcessRecord /\ up[p] \in SUBSET Service
      /\ ready[p] \in BOOLEAN /\ lock \in Process \cup {Free} /\ RuntimeStates
  BY DEF RuntimeInv, RuntimeStates
<1>1. RuntimeInv'
  <2> DEFINE r == [proc[p] EXCEPT !.pc = IF proc[p].built THEN "stopping" ELSE "clients", !.step = 1,
                             !.cancelled = proc[p].waiter = "waits" /\ "cleanup" \in up[p]]
             u == up[p] \ ({"polling", "api"} \cup
                        (IF proc[p].waiter = "waits" /\ "cleanup" \in up[p]
                         THEN {"cleanup"} ELSE {}))
             b == ready[p]
  <2>1. r \in ProcessRecord
    <3>1. /\ (IF proc[p].built THEN "stopping" ELSE "clients") \in ProcessPc
          /\ (1) \in 0..8
          /\ (proc[p].waiter = "waits" /\ "cleanup" \in up[p]) \in BOOLEAN
      BY <1>0, StopOrderIs DEF CloseServices, At, ProcessPc, ProcessRecord, ProcessInv, StartedSoFar, LeftToStop
    <3> QED BY <1>0, <3>1, ProcessUpdates
  <2>2. u \in SUBSET Service /\ b \in BOOLEAN
    BY <1>0, StopOrderIs DEF CloseServices, Service, Workers, RuntimeStates
  <2>3. proc' = [proc EXCEPT ![p] = r] /\ up' = [up EXCEPT ![p] = u]
        /\ ready' = [ready EXCEPT ![p] = b]
    BY <1>0, StopOrderIs DEF CloseServices, RuntimeStates, ProcessRecord, Goto, NotReady, At
  <2>4. /\ r.pc = (IF proc[p].built THEN "stopping" ELSE "clients")
          /\ r.step = 1
          /\ r.recovered = proc[p].recovered
    BY <1>0, StopOrderIs DEF CloseServices, ProcessRecord, NoProcess, RuntimeStates
  <2>5. lock' \in Process \cup {Free} /\ (lock' = lock \/ lock \in {p, Free})
    BY <1>0, StopOrderIs DEF CloseServices, MayRelease
  <2>6. ProcessInv(p)'
    <3> HIDE DEF r
    <3>0. proc'[p] = r /\ up'[p] = u /\ ready'[p] = b
      BY <2>3 DEF RuntimeInv, RuntimeStates
    <3>1. HoldsLock(p)'
      BY <1>0, <3>0, <2>4, <2>5, RuntimeAssumption, StopOrderIs
      DEF CloseServices, Workers, At, ProcessInv, HoldsLock, LeftToStop, MayRelease
    <3>2. StartedSoFar(p)'
      BY <1>0, <3>0, <2>4, StartingIs, StopOrderIs
      DEF CloseServices, Workers, At, ProcessInv, HoldsLock, StartedSoFar
    <3>3. LeftToStop(p)'
      <4>1. u \subseteq {"queue", "fanout", "album", "cleanup", "provider", "gateway"}
        BY <1>0 DEF Service, Workers
      <4>2. ASSUME NEW x \in {"queue", "fanout", "album", "cleanup", "provider", "gateway"}
            PROVE  \E i \in 1..8 : x = StopOrder[i]
        BY StopOrderIs
      <4>3. u \subseteq {StopOrder[i] : i \in 1..8}
        <5> HIDE DEF u
        <5> QED BY <4>1, <4>2
      <4> QED BY <2>4, <3>0, <4>3 DEF LeftToStop
    <3>4. ReadyIsServing(p)'
      BY <1>0, <3>0, <2>4, StopOrderIs
      DEF CloseServices, Workers, At, ProcessInv, StartedSoFar, ReadyIsServing
    <3> QED BY <3>1, <3>2, <3>3, <3>4 DEF ProcessInv
  <2> HIDE DEF r, u, b
  <2> QED BY <2>1, <2>2, <2>3, <2>5, <2>6, OthersStay
<1> QED BY <1>1

LEMMA StopNextInv == \A p \in Process : RuntimeInv /\ StopNext(p) => RuntimeInv'
<1> SUFFICES ASSUME NEW p \in Process, RuntimeInv, StopNext(p) PROVE RuntimeInv' OBVIOUS
<1>0. ProcessInv(p) /\ proc[p] \in ProcessRecord /\ up[p] \in SUBSET Service
      /\ ready[p] \in BOOLEAN /\ lock \in Process \cup {Free} /\ RuntimeStates
  BY DEF RuntimeInv, RuntimeStates
<1>1. CASE StopOrder[proc[p].step] = "cleanup" /\ proc[p].cancelled
  <2> DEFINE r == [proc[p] EXCEPT !.pc = "abandoned"]
             u == up[p]
             b == ready[p]
  <2>1. r \in ProcessRecord
    <3>1. /\ ("abandoned") \in ProcessPc
      BY <1>1, <1>0, StopOrderIs DEF StopNext, At, ProcessPc, ProcessRecord, ProcessInv, StartedSoFar, LeftToStop
    <3> QED BY <1>0, <3>1, ProcessUpdates
  <2>2. u \in SUBSET Service /\ b \in BOOLEAN
    BY <1>1, <1>0, StopOrderIs DEF StopNext, Service, Workers, RuntimeStates
  <2>3. proc' = [proc EXCEPT ![p] = r] /\ up' = [up EXCEPT ![p] = u]
        /\ ready' = [ready EXCEPT ![p] = b]
    BY <1>1, <1>0, StopOrderIs DEF StopNext, RuntimeStates, ProcessRecord, Goto, NotReady, At
  <2>4. r.pc = "abandoned" /\ r.step = proc[p].step /\ r.recovered = proc[p].recovered
    BY <1>1, <1>0, StopOrderIs DEF StopNext, ProcessRecord, NoProcess, RuntimeStates
  <2>5. lock' \in Process \cup {Free} /\ (lock' = lock \/ lock \in {p, Free})
    BY <1>1, <1>0, StopOrderIs DEF StopNext, MayRelease
  <2>6. ProcessInv(p)'
    <3> HIDE DEF r
    <3>0. proc'[p] = r /\ up'[p] = u /\ ready'[p] = b
      BY <2>3 DEF RuntimeInv, RuntimeStates
    <3>1. HoldsLock(p)'
      BY <1>1, <1>0, <3>0, <2>4, <2>5, RuntimeAssumption, StopOrderIs
      DEF StopNext, Workers, At, ProcessInv, HoldsLock, LeftToStop, MayRelease
    <3>2. StartedSoFar(p)'
      BY <1>1, <1>0, <3>0, <2>4, StartingIs, StopOrderIs
      DEF StopNext, Workers, At, ProcessInv, HoldsLock, StartedSoFar
    <3>3. LeftToStop(p)'
      BY <1>1, <1>0, <3>0, <2>4, StopOrderIs
      DEF StopNext, Workers, Service, At, ProcessInv, StartedSoFar, LeftToStop, MayRelease
    <3>4. ReadyIsServing(p)'
      BY <1>1, <1>0, <3>0, <2>4, StopOrderIs
      DEF StopNext, Workers, At, ProcessInv, StartedSoFar, ReadyIsServing
    <3> QED BY <3>1, <3>2, <3>3, <3>4 DEF ProcessInv
  <2> HIDE DEF r, u, b
  <2> QED BY <2>1, <2>2, <2>3, <2>5, <2>6, OthersStay
<1>2. CASE ~(StopOrder[proc[p].step] = "cleanup" /\ proc[p].cancelled)
  <2> DEFINE r == [proc[p] EXCEPT !.pc = CASE proc[p].step # Len(StopOrder) -> @
                                      [] proc[p].step = Len(StopOrder) /\ @ = "unwinding" -> "closing"
                                      [] OTHER -> "leaving",
                             !.step = IF proc[p].step = Len(StopOrder) THEN 1 ELSE @ + 1]
             u == up[p] \ {StopOrder[proc[p].step]}
             b == ready[p]
  <2>1. r \in ProcessRecord
    <3>1. /\ (CASE proc[p].step # Len(StopOrder) -> proc[p].pc [] proc[p].step = Len(StopOrder) /\ proc[p].pc = "unwinding" -> "closing" [] OTHER -> "leaving") \in ProcessPc
          /\ (IF proc[p].step = Len(StopOrder) THEN 1 ELSE proc[p].step + 1) \in 0..8
      BY <1>2, <1>0, StopOrderIs DEF StopNext, At, ProcessPc, ProcessRecord, ProcessInv, StartedSoFar, LeftToStop
    <3> QED BY <1>0, <3>1, ProcessUpdates
  <2>2. u \in SUBSET Service /\ b \in BOOLEAN
    BY <1>2, <1>0, StopOrderIs DEF StopNext, Service, Workers, RuntimeStates
  <2>3. proc' = [proc EXCEPT ![p] = r] /\ up' = [up EXCEPT ![p] = u]
        /\ ready' = [ready EXCEPT ![p] = b]
    BY <1>2, <1>0, StopOrderIs DEF StopNext, RuntimeStates, ProcessRecord, Goto, NotReady, At
  <2>4. /\ r.pc = (CASE proc[p].step # Len(StopOrder) -> proc[p].pc [] proc[p].step = Len(StopOrder) /\ proc[p].pc = "unwinding" -> "closing" [] OTHER -> "leaving")
          /\ r.step = (IF proc[p].step = Len(StopOrder) THEN 1 ELSE proc[p].step + 1)
          /\ r.recovered = proc[p].recovered
    BY <1>2, <1>0, StopOrderIs DEF StopNext, ProcessRecord, NoProcess, RuntimeStates
  <2>5. lock' \in Process \cup {Free} /\ (lock' = lock \/ lock \in {p, Free})
    BY <1>2, <1>0, StopOrderIs DEF StopNext, MayRelease
  <2>6. ProcessInv(p)'
    <3> HIDE DEF r
    <3>0. proc'[p] = r /\ up'[p] = u /\ ready'[p] = b
      BY <2>3 DEF RuntimeInv, RuntimeStates
    <3>1. HoldsLock(p)'
      BY <1>2, <1>0, <3>0, <2>4, <2>5, RuntimeAssumption, StopOrderIs
      DEF StopNext, Workers, At, ProcessInv, HoldsLock, LeftToStop, MayRelease
    <3>2. StartedSoFar(p)'
      BY <1>2, <1>0, <3>0, <2>4, StartingIs, StopOrderIs
      DEF StopNext, Workers, At, ProcessInv, HoldsLock, StartedSoFar
    <3>3. LeftToStop(p)'
      BY <1>2, <1>0, <3>0, <2>4, StopOrderIs
      DEF StopNext, Workers, Service, At, ProcessInv, StartedSoFar, LeftToStop, MayRelease
    <3>4. ReadyIsServing(p)'
      BY <1>2, <1>0, <3>0, <2>4, StopOrderIs
      DEF StopNext, Workers, At, ProcessInv, StartedSoFar, ReadyIsServing
    <3> QED BY <3>1, <3>2, <3>3, <3>4 DEF ProcessInv
  <2> HIDE DEF r, u, b
  <2> QED BY <2>1, <2>2, <2>3, <2>5, <2>6, OthersStay
<1> QED BY <1>1, <1>2 DEF StopNext, At, MayRelease

LEMMA CloseClientsInv == \A p \in Process : RuntimeInv /\ CloseClients(p) => RuntimeInv'
<1> SUFFICES ASSUME NEW p \in Process, RuntimeInv, CloseClients(p) PROVE RuntimeInv' OBVIOUS
<1>0. ProcessInv(p) /\ proc[p] \in ProcessRecord /\ up[p] \in SUBSET Service
      /\ ready[p] \in BOOLEAN /\ lock \in Process \cup {Free} /\ RuntimeStates
  BY DEF RuntimeInv, RuntimeStates
<1>1. RuntimeInv'
  <2> DEFINE r == [proc[p] EXCEPT !.pc = "leaving", !.step = 1]
             u == {}
             b == ready[p]
  <2>1. r \in ProcessRecord
    <3>1. /\ ("leaving") \in ProcessPc
          /\ (1) \in 0..8
      BY <1>0 DEF CloseClients, At, ProcessPc, ProcessRecord, ProcessInv, StartedSoFar, LeftToStop
    <3> QED BY <1>0, <3>1, ProcessUpdates
  <2>2. u \in SUBSET Service /\ b \in BOOLEAN
    BY <1>0 DEF CloseClients, Service, Workers, RuntimeStates
  <2>3. proc' = [proc EXCEPT ![p] = r] /\ up' = [up EXCEPT ![p] = u]
        /\ ready' = [ready EXCEPT ![p] = b]
    BY <1>0 DEF CloseClients, RuntimeStates, ProcessRecord, Goto, NotReady, At
  <2>4. r.pc = "leaving" /\ r.step = 1 /\ r.recovered = proc[p].recovered
    BY <1>0 DEF CloseClients, ProcessRecord, NoProcess, RuntimeStates
  <2>5. lock' \in Process \cup {Free} /\ (lock' = lock \/ lock \in {p, Free})
    BY <1>0 DEF CloseClients, MayRelease
  <2>6. ProcessInv(p)'
    <3> HIDE DEF r
    <3>0. proc'[p] = r /\ up'[p] = u /\ ready'[p] = b
      BY <2>3 DEF RuntimeInv, RuntimeStates
    <3>1. HoldsLock(p)'
      BY <1>0, <3>0, <2>4, <2>5, RuntimeAssumption
      DEF CloseClients, Workers, At, ProcessInv, HoldsLock, LeftToStop, MayRelease
    <3>2. StartedSoFar(p)'
      BY <1>0, <3>0, <2>4, StartingIs
      DEF CloseClients, Workers, At, ProcessInv, HoldsLock, StartedSoFar
    <3>3. LeftToStop(p)'
      BY <1>0, <3>0, <2>4, StopOrderIs
      DEF CloseClients, Workers, Service, At, ProcessInv, StartedSoFar, LeftToStop, MayRelease
    <3>4. ReadyIsServing(p)'
      BY <1>0, <3>0, <2>4
      DEF CloseClients, Workers, At, ProcessInv, StartedSoFar, ReadyIsServing
    <3> QED BY <3>1, <3>2, <3>3, <3>4 DEF ProcessInv
  <2> HIDE DEF r, u, b
  <2> QED BY <2>1, <2>2, <2>3, <2>5, <2>6, OthersStay
<1> QED BY <1>1

LEMMA ReleaseLockInv == \A p \in Process : RuntimeInv /\ ReleaseLock(p) => RuntimeInv'
<1> SUFFICES ASSUME NEW p \in Process, RuntimeInv, ReleaseLock(p) PROVE RuntimeInv' OBVIOUS
<1>0. ProcessInv(p) /\ proc[p] \in ProcessRecord /\ up[p] \in SUBSET Service
      /\ ready[p] \in BOOLEAN /\ lock \in Process \cup {Free} /\ RuntimeStates
  BY DEF RuntimeInv, RuntimeStates
<1>1. RuntimeInv'
  <2> DEFINE r == proc[p]
             u == up[p]
             b == ready[p]
  <2>1. r \in ProcessRecord BY <1>0
  <2>2. u \in SUBSET Service /\ b \in BOOLEAN
    BY <1>0 DEF ReleaseLock, Service, Workers, RuntimeStates, MayRelease
  <2>3. proc' = [proc EXCEPT ![p] = r] /\ up' = [up EXCEPT ![p] = u]
        /\ ready' = [ready EXCEPT ![p] = b]
    BY <1>0 DEF ReleaseLock, RuntimeStates, ProcessRecord, Goto, NotReady, At, MayRelease
  <2>4. r = proc[p]
    BY <1>0 DEF ReleaseLock, ProcessRecord, NoProcess, RuntimeStates
  <2>5. lock' \in Process \cup {Free} /\ (lock' = lock \/ lock \in {p, Free})
    BY <1>0 DEF ReleaseLock, MayRelease
  <2>6. ProcessInv(p)'
    <3> HIDE DEF r
    <3>0. proc'[p] = r /\ up'[p] = u /\ ready'[p] = b
      BY <2>3 DEF RuntimeInv, RuntimeStates
    <3>1. HoldsLock(p)'
      BY <1>0, <3>0, <2>4, <2>5, RuntimeAssumption
      DEF ReleaseLock, Workers, At, ProcessInv, HoldsLock, LeftToStop, MayRelease, MayRelease
    <3>2. StartedSoFar(p)'
      BY <1>0, <3>0, <2>4, StartingIs
      DEF ReleaseLock, Workers, At, ProcessInv, HoldsLock, StartedSoFar, MayRelease
    <3>3. LeftToStop(p)'
      BY <1>0, <3>0, <2>4, StopOrderIs
      DEF ReleaseLock, Workers, Service, At, ProcessInv, StartedSoFar, LeftToStop, MayRelease, MayRelease
    <3>4. ReadyIsServing(p)'
      BY <1>0, <3>0, <2>4
      DEF ReleaseLock, Workers, At, ProcessInv, StartedSoFar, ReadyIsServing, MayRelease
    <3> QED BY <3>1, <3>2, <3>3, <3>4 DEF ProcessInv
  <2> HIDE DEF r, u, b
  <2> QED BY <2>1, <2>2, <2>3, <2>5, <2>6, OthersStay
<1> QED BY <1>1

LEMMA ExitInv == \A p \in Process : RuntimeInv /\ Exit(p) => RuntimeInv'
<1> SUFFICES ASSUME NEW p \in Process, RuntimeInv, Exit(p) PROVE RuntimeInv' OBVIOUS
<1>0. ProcessInv(p) /\ proc[p] \in ProcessRecord /\ up[p] \in SUBSET Service
      /\ ready[p] \in BOOLEAN /\ lock \in Process \cup {Free} /\ RuntimeStates
  BY DEF RuntimeInv, RuntimeStates
<1>1. RuntimeInv'
  <2> DEFINE r == NoProcess
             u == {}
             b == ready[p]
  <2>1. r \in ProcessRecord BY NoProcessRecord
  <2>2. u \in SUBSET Service /\ b \in BOOLEAN
    BY <1>0 DEF Exit, Service, Workers, RuntimeStates
  <2>3. proc' = [proc EXCEPT ![p] = r] /\ up' = [up EXCEPT ![p] = u]
        /\ ready' = [ready EXCEPT ![p] = b]
    BY <1>0 DEF Exit, RuntimeStates, ProcessRecord, Goto, NotReady, At
  <2>4. r.pc = "out" /\ ~r.recovered
    BY <1>0 DEF Exit, ProcessRecord, NoProcess, RuntimeStates
  <2>5. lock' \in Process \cup {Free} /\ (lock' = lock \/ lock \in {p, Free})
    BY <1>0 DEF Exit, MayRelease
  <2>6. ProcessInv(p)'
    <3> HIDE DEF r
    <3>0. proc'[p] = r /\ up'[p] = u /\ ready'[p] = b
      BY <2>3 DEF RuntimeInv, RuntimeStates
    <3>1. HoldsLock(p)'
      BY <1>0, <3>0, <2>4, <2>5, RuntimeAssumption
      DEF Exit, Workers, At, ProcessInv, HoldsLock, LeftToStop, MayRelease
    <3>2. StartedSoFar(p)'
      BY <1>0, <3>0, <2>4, StartingIs
      DEF Exit, Workers, At, ProcessInv, HoldsLock, StartedSoFar
    <3>3. LeftToStop(p)'
      BY <1>0, <3>0, <2>4, StopOrderIs
      DEF Exit, Workers, Service, At, ProcessInv, StartedSoFar, LeftToStop, MayRelease
    <3>4. ReadyIsServing(p)'
      BY <1>0, <3>0, <2>4
      DEF Exit, Workers, At, ProcessInv, StartedSoFar, ReadyIsServing
    <3> QED BY <3>1, <3>2, <3>3, <3>4 DEF ProcessInv
  <2> HIDE DEF r, u, b
  <2> QED BY <2>1, <2>2, <2>3, <2>5, <2>6, OthersStay
<1> QED BY <1>1

LEMMA KillInv == \A p \in Process : RuntimeInv /\ Kill(p) => RuntimeInv'
<1> SUFFICES ASSUME NEW p \in Process, RuntimeInv, Kill(p) PROVE RuntimeInv' OBVIOUS
<1>0. ProcessInv(p) /\ proc[p] \in ProcessRecord /\ up[p] \in SUBSET Service
      /\ ready[p] \in BOOLEAN /\ lock \in Process \cup {Free} /\ RuntimeStates
  BY DEF RuntimeInv, RuntimeStates
<1>1. RuntimeInv'
  <2> DEFINE r == NoProcess
             u == {}
             b == FALSE
  <2>1. r \in ProcessRecord BY NoProcessRecord
  <2>2. u \in SUBSET Service /\ b \in BOOLEAN
    BY <1>0 DEF Kill, Service, Workers, RuntimeStates
  <2>3. proc' = [proc EXCEPT ![p] = r] /\ up' = [up EXCEPT ![p] = u]
        /\ ready' = [ready EXCEPT ![p] = b]
    BY <1>0 DEF Kill, RuntimeStates, ProcessRecord, Goto, NotReady, At
  <2>4. r.pc = "out" /\ ~r.recovered
    BY <1>0 DEF Kill, ProcessRecord, NoProcess, RuntimeStates
  <2>5. lock' \in Process \cup {Free} /\ (lock' = lock \/ lock \in {p, Free})
    BY <1>0 DEF Kill, MayRelease
  <2>6. ProcessInv(p)'
    <3> HIDE DEF r
    <3>0. proc'[p] = r /\ up'[p] = u /\ ready'[p] = b
      BY <2>3 DEF RuntimeInv, RuntimeStates
    <3>1. HoldsLock(p)'
      BY <1>0, <3>0, <2>4, <2>5, RuntimeAssumption
      DEF Kill, Workers, At, ProcessInv, HoldsLock, LeftToStop, MayRelease
    <3>2. StartedSoFar(p)'
      BY <1>0, <3>0, <2>4, StartingIs
      DEF Kill, Workers, At, ProcessInv, HoldsLock, StartedSoFar
    <3>3. LeftToStop(p)'
      BY <1>0, <3>0, <2>4, StopOrderIs
      DEF Kill, Workers, Service, At, ProcessInv, StartedSoFar, LeftToStop, MayRelease
    <3>4. ReadyIsServing(p)'
      BY <1>0, <3>0, <2>4
      DEF Kill, Workers, At, ProcessInv, StartedSoFar, ReadyIsServing
    <3> QED BY <3>1, <3>2, <3>3, <3>4 DEF ProcessInv
  <2> HIDE DEF r, u, b
  <2> QED BY <2>1, <2>2, <2>3, <2>5, <2>6, OthersStay
<1> QED BY <1>1

LEMMA RuntimeNextInv == RuntimeInv /\ [RuntimeNext]_runtimeVars => RuntimeInv'
<1> SUFFICES ASSUME RuntimeInv, [RuntimeNext]_runtimeVars PROVE RuntimeInv' OBVIOUS
<1>1. CASE UNCHANGED runtimeVars
  BY <1>1 DEF runtimeVars, RuntimeInv, RuntimeStates, ProcessInv, HoldsLock, StartedSoFar,
              LeftToStop, ReadyIsServing
<1>2. CASE RuntimeNext
  BY <1>2, TakeLockInv, ToolEndsInv, ComposeInv, StartNextInv, StartFailsInv, StartApiInv,
     StartPollingInv, DiesInv, LeavePollingInv, CloseServicesInv, StopNextInv, CloseClientsInv,
     ReleaseLockInv, ExitInv, KillInv DEF RuntimeNext
<1> QED BY <1>1, <1>2

-----------------------------------------------------------------------------
(* The dialog: what a running task knows, and what locks a conversation.   *)

(* What a running task knows: its conversation, and of a confirmation the  *)
(* token it was pressed for.                                               *)
TaskKnows(t) ==
  /\ update[t].pc \in {"search", "confirm"} => update[t].conv \in Conversation
  /\ update[t].pc = "confirm" => update[t].token \in Offer

DialogInv ==
  /\ DialogTypeOK
  /\ SearchingHasSearch
  /\ \A t \in Update : TaskKnows(t)

OfferRecord == [state : {"unused", "open", "gone"}, conv : Conversation \cup {NoChat}]
UpdateRecord == [pc : {"idle", "search", "confirm"},
                 conv : Conversation \cup {NoChat}, token : Offer \cup {NoChat}]
Screen == {"nothing", "menu", "help", "prompt", "denied", "error", "no match", "offer",
           "cancelled", "invalid", "quality", "queued"}

LEMMA DialogTypeParts ==
  DialogTypeOK <=> /\ ux \in [Conversation -> UxState]
                   /\ offers \in [Offer -> OfferRecord]
                   /\ update \in [Update -> UpdateRecord]
                   /\ shown \in [Conversation -> Screen]
BY DEF DialogTypeOK, OfferRecord, UpdateRecord, Screen

LEMMA DialogTypeKept ==
  ASSUME ux' \in [Conversation -> UxState], offers' \in [Offer -> OfferRecord],
         update' \in [Update -> UpdateRecord], shown' \in [Conversation -> Screen]
  PROVE  DialogTypeOK'
BY DEF DialogTypeOK, OfferRecord, UpdateRecord, Screen

LEMMA DialogInvImplies == DialogInv => DialogTypeOK /\ SearchingHasSearch
BY DEF DialogInv

LEMMA DialogInitInv == DialogInit => DialogInv
<1> SUFFICES ASSUME DialogInit PROVE DialogInv OBVIOUS
<1>1. NewOffer \in OfferRecord /\ NoUpdate \in UpdateRecord
  BY DEF NewOffer, OfferRecord, NoUpdate, UpdateRecord
<1>2. DialogTypeOK BY <1>1, DialogTypeParts DEF DialogInit, UxState, Screen
<1>3. SearchingHasSearch BY DEF DialogInit, SearchingHasSearch
<1>4. \A t \in Update : TaskKnows(t) BY DEF DialogInit, NoUpdate, TaskKnows
<1> QED BY <1>2, <1>3, <1>4 DEF DialogInv

(* An answer with a transition moves the conversation on, or not at all.   *)
LEMMA EnterType ==
  ASSUME DialogTypeOK, NEW c \in Conversation, NEW target \in UxState, NEW screen \in Screen,
         Enter(c, target, screen)
  PROVE  /\ ux' \in [Conversation -> UxState] /\ shown' \in [Conversation -> Screen]
         /\ \A d \in Conversation : d # c => ux'[d] = ux[d]
         /\ ux'[c] = ux[c] \/ ux'[c] = target
         /\ May(c, target) => ux'[c] = target
<1>1. "error" \in Screen BY DEF Screen
<1> QED BY <1>1, DialogTypeParts DEF Enter

LEMMA AnswerType ==
  ASSUME DialogTypeOK, NEW c \in Conversation, NEW screen \in Screen, Answer(c, screen)
  PROVE  ux' \in [Conversation -> UxState] /\ ux' = ux /\ shown' \in [Conversation -> Screen]
BY DialogTypeParts DEF Answer

(* A search leaves SEARCHING however it ends.                              *)
LEMMA SearchingEnds ==
  ASSUME DialogTypeOK, NEW c \in Conversation,
         NEW target \in {"ERROR", "SEARCH_INPUT", "DOWNLOAD_CONFIRMATION"},
         NEW screen \in Screen, Enter(c, target, screen)
  PROVE  ux'[c] # "SEARCHING" /\ target \in UxState
<1>1. target \in UxState BY DEF UxState
<1>2. CASE ux[c] = "SEARCHING"
  <2>1. May(c, target) BY <1>2 DEF May, UxTransitions
  <2> QED BY <1>1, <2>1, EnterType
<1>3. CASE ux[c] # "SEARCHING" BY <1>1, <1>3, EnterType
<1> QED BY <1>1, <1>2, <1>3

(* Steps of a conversation with no task at work.                           *)
LEMMA MenuInv ==
  ASSUME DialogInv, NEW c \in Conversation, NEW target \in UxState, target # "SEARCHING",
         NEW screen \in Screen, Enter(c, target, screen), UNCHANGED <<offers, update>>
  PROVE  DialogInv'
<1>1. DialogTypeOK BY DEF DialogInv
<1>2. DialogTypeOK' BY <1>1, EnterType, DialogTypeParts, DialogTypeKept
<1>3. SearchingHasSearch' BY <1>1, EnterType DEF DialogInv, SearchingHasSearch
<1>4. (\A t \in Update : TaskKnows(t))' BY DEF DialogInv, TaskKnows
<1> QED BY <1>2, <1>3, <1>4 DEF DialogInv

LEMMA DeniedInv ==
  ASSUME DialogInv, NEW c \in Conversation, NEW screen \in Screen, Answer(c, screen),
         UNCHANGED <<offers, update>>
  PROVE  DialogInv'
<1>1. DialogTypeOK BY DEF DialogInv
<1>2. DialogTypeOK' BY <1>1, AnswerType, DialogTypeParts, DialogTypeKept
<1>3. SearchingHasSearch' BY <1>1, AnswerType DEF DialogInv, SearchingHasSearch
<1>4. (\A t \in Update : TaskKnows(t))' BY DEF DialogInv, TaskKnows
<1> QED BY <1>2, <1>3, <1>4 DEF DialogInv

LEMMA StartSearchInv ==
  ASSUME DialogInv, NEW t \in Update, NEW c \in Conversation, StartSearch(t, c)
  PROVE  DialogInv'
<1>0. DialogTypeOK /\ "error" \in Screen BY DEF DialogInv, Screen
<1>1. CASE May(c, "SEARCHING")
  <2> DEFINE r == [pc |-> "search", conv |-> c, token |-> NoChat]
  <2>1. /\ ux' = [ux EXCEPT ![c] = "SEARCHING"] /\ update' = [update EXCEPT ![t] = r]
        /\ shown' = shown /\ offers' = offers /\ update[t].pc = "idle"
    BY <1>1 DEF StartSearch, Runs
  <2>2. r \in UpdateRecord /\ "SEARCHING" \in UxState /\ r.pc = "search" /\ r.conv = c
    BY DEF UpdateRecord, UxState
  <2> HIDE DEF r
  <2>3. DialogTypeOK' BY <1>0, <2>1, <2>2, DialogTypeParts, DialogTypeKept
  <2>4. update'[t] = r /\ \A u \in Update : u # t => update'[u] = update[u]
    BY <1>0, <2>1, DialogTypeParts
  <2>5. SearchingHasSearch'
    <3> SUFFICES ASSUME NEW d \in Conversation, ux'[d] = "SEARCHING"
                 PROVE  \E u \in Update : update'[u].pc = "search" /\ update'[u].conv = d
      BY DEF SearchingHasSearch
    <3>1. CASE d = c BY <2>2, <2>4, <3>1
    <3>2. CASE d # c
      <4>1. ux[d] = "SEARCHING" BY <1>0, <2>1, <3>2, DialogTypeParts
      <4>2. PICK u \in Update : update[u].pc = "search" /\ update[u].conv = d
        BY <4>1 DEF DialogInv, SearchingHasSearch
      <4> QED BY <2>1, <2>4, <4>2
    <3> QED BY <3>1, <3>2
  <2>6. (\A u \in Update : TaskKnows(u))'
    BY <2>1, <2>2, <2>4 DEF DialogInv, TaskKnows
  <2> QED BY <2>3, <2>5, <2>6 DEF DialogInv
<1>2. CASE ~May(c, "SEARCHING")
  BY <1>0, <1>2, DeniedInv DEF StartSearch
<1> QED BY <1>1, <1>2

(* A task that ends: what it leaves of the others.                         *)
LEMMA EndsKeeps ==
  ASSUME DialogTypeOK, NEW t \in Update, Ends(t)
  PROVE  /\ update' \in [Update -> UpdateRecord]
         /\ update'[t] = NoUpdate
         /\ \A u \in Update : u # t => update'[u] = update[u]
<1>1. NoUpdate \in UpdateRecord BY DEF NoUpdate, UpdateRecord
<1> QED BY <1>1, DialogTypeParts DEF Ends

LEMMA SearchEndsInv ==
  ASSUME DialogInv, NEW t \in Update, update[t].pc = "search",
         NEW target \in {"ERROR", "SEARCH_INPUT", "DOWNLOAD_CONFIRMATION"},
         NEW screen \in Screen, Enter(update[t].conv, target, screen), Ends(t),
         offers' \in [Offer -> OfferRecord],
         \A o \in Offer : offers[o].state # "unused" => offers'[o] = offers[o]
  PROVE  DialogInv'
<1>0. DialogTypeOK /\ update[t].conv \in Conversation BY DEF DialogInv, TaskKnows
<1>1. ux'[update[t].conv] # "SEARCHING" /\ target \in UxState BY <1>0, SearchingEnds
<1>2. DialogTypeOK' BY <1>0, <1>1, EnterType, EndsKeeps, DialogTypeParts, DialogTypeKept
<1>3. SearchingHasSearch'
  <2> SUFFICES ASSUME NEW d \in Conversation, ux'[d] = "SEARCHING"
               PROVE  \E u \in Update : update'[u].pc = "search" /\ update'[u].conv = d
    BY DEF SearchingHasSearch
  <2>1. d # update[t].conv /\ ux[d] = "SEARCHING" BY <1>0, <1>1, EnterType
  <2>2. PICK u \in Update : update[u].pc = "search" /\ update[u].conv = d
    BY <2>1 DEF DialogInv, SearchingHasSearch
  <2>3. update'[u] = update[u] BY <1>0, <2>1, <2>2, EndsKeeps
  <2> QED BY <2>2, <2>3
<1>4. ASSUME NEW u \in Update PROVE TaskKnows(u)'
  <2>1. CASE u = t BY <1>0, <2>1, EndsKeeps DEF TaskKnows, NoUpdate
  <2>2. CASE u # t
    <3>1. update'[u] = update[u] BY <1>0, <2>2, EndsKeeps
    <3> QED BY <3>1 DEF DialogInv, TaskKnows
  <2> QED BY <2>1, <2>2
<1> QED BY <1>2, <1>3, <1>4 DEF DialogInv

LEMMA FoundInv ==
  ASSUME DialogInv, NEW t \in Update, NEW o \in Offer, Found(t, o)
  PROVE  DialogInv'
<1> DEFINE r == [state |-> "open", conv |-> update[t].conv]
<1>1. r \in OfferRecord BY DEF DialogInv, TaskKnows, Found, OfferRecord
<1>2. offers' = [offers EXCEPT ![o] = r] BY DEF Found
<1> HIDE DEF r
<1>3. /\ offers' \in [Offer -> OfferRecord]
      /\ \A x \in Offer : offers[x].state # "unused" => offers'[x] = offers[x]
  BY <1>1, <1>2, DialogTypeParts DEF DialogInv, Found
<1>4. "offer" \in Screen BY DEF Screen
<1> QED BY <1>3, <1>4, SearchEndsInv DEF Found

(* An offer that is dropped keeps its conversation.                        *)
LEMMA DropKeeps ==
  ASSUME DialogTypeOK, NEW o \in Offer, Drop(o)
  PROVE  /\ offers' \in [Offer -> OfferRecord]
         /\ \A x \in Offer : /\ offers'[x].conv = offers[x].conv
                             /\ offers[x].state # "unused" => offers'[x].state # "unused"
<1> DEFINE r == [offers[o] EXCEPT !.state = "gone"]
<1>1. offers \in [Offer -> OfferRecord] BY DialogTypeParts
<1>2. r \in OfferRecord /\ r.conv = offers[o].conv /\ r.state = "gone"
  BY <1>1 DEF OfferRecord
<1>3. offers' = [offers EXCEPT ![o] = r] BY DEF Drop
<1> HIDE DEF r
<1> QED BY <1>1, <1>2, <1>3

LEMMA ButtonInv ==
  ASSUME DialogInv, NEW c \in Conversation, NEW o \in Offer, Drop(o),
         NEW target \in UxState, target # "SEARCHING", NEW screen \in Screen,
         Enter(c, target, screen), UNCHANGED update
  PROVE  DialogInv'
<1>0. DialogTypeOK BY DEF DialogInv
<1>1. DialogTypeOK' BY <1>0, EnterType, DropKeeps, DialogTypeParts, DialogTypeKept
<1>2. SearchingHasSearch' BY <1>0, EnterType DEF DialogInv, SearchingHasSearch
<1>3. (\A t \in Update : TaskKnows(t))' BY <1>0, DropKeeps DEF DialogInv, TaskKnows
<1> QED BY <1>1, <1>2, <1>3 DEF DialogInv

LEMMA OfferLapsesInv ==
  ASSUME DialogInv, NEW o \in Offer, OfferLapses(o)
  PROVE  DialogInv'
<1>0. DialogTypeOK BY DEF DialogInv
<1>1. DialogTypeOK' BY <1>0, DropKeeps, DialogTypeParts, DialogTypeKept DEF OfferLapses
<1>2. SearchingHasSearch' BY DEF DialogInv, SearchingHasSearch, OfferLapses
<1>3. (\A t \in Update : TaskKnows(t))' BY <1>0, DropKeeps DEF DialogInv, TaskKnows, OfferLapses
<1> QED BY <1>1, <1>2, <1>3 DEF DialogInv

LEMMA PressDownloadInv ==
  ASSUME DialogInv, NEW t \in Update, NEW c \in Conversation, NEW o \in Offer,
         PressDownload(t, c, o)
  PROVE  DialogInv'
<1> DEFINE r == [pc |-> "confirm", conv |-> c, token |-> o]
<1>0. DialogTypeOK BY DEF DialogInv
<1>1. r \in UpdateRecord /\ r.pc = "confirm" /\ r.conv = c /\ r.token = o BY DEF UpdateRecord
<1>2. /\ update' = [update EXCEPT ![t] = r] /\ update[t].pc = "idle"
      /\ ux' = ux /\ offers' = offers /\ shown' = shown
      /\ offers[o].state = "open" /\ offers[o].conv = c
  BY DEF PressDownload, Runs, OwnsOffer
<1> HIDE DEF r
<1>3. update'[t] = r /\ \A u \in Update : u # t => update'[u] = update[u]
  BY <1>0, <1>2, DialogTypeParts
<1>4. DialogTypeOK' BY <1>0, <1>1, <1>2, DialogTypeParts, DialogTypeKept
<1>5. SearchingHasSearch'
  <2> SUFFICES ASSUME NEW d \in Conversation, ux'[d] = "SEARCHING"
               PROVE  \E u \in Update : update'[u].pc = "search" /\ update'[u].conv = d
    BY DEF SearchingHasSearch
  <2>1. PICK u \in Update : update[u].pc = "search" /\ update[u].conv = d
    BY <1>2 DEF DialogInv, SearchingHasSearch
  <2> QED BY <1>2, <1>3, <2>1
<1>6. (\A u \in Update : TaskKnows(u))' BY <1>1, <1>2, <1>3 DEF DialogInv, TaskKnows
<1> QED BY <1>4, <1>5, <1>6 DEF DialogInv

LEMMA ConfirmEndsInv ==
  ASSUME DialogInv, NEW t \in Update, update[t].pc = "confirm", Ends(t),
         offers' = offers \/ Drop(update[t].token),
         NEW screen \in Screen,
         Answer(update[t].conv, screen) \/ Enter(update[t].conv, "DOWNLOAD_QUEUED", screen)
  PROVE  DialogInv'
<1>0. DialogTypeOK /\ update[t].conv \in Conversation /\ update[t].token \in Offer
  BY DEF DialogInv, TaskKnows
<1>1. "DOWNLOAD_QUEUED" \in UxState BY DEF UxState
<1>2. /\ ux' \in [Conversation -> UxState] /\ shown' \in [Conversation -> Screen]
      /\ \A d \in Conversation : ux'[d] = "SEARCHING" => ux[d] = "SEARCHING"
  BY <1>0, <1>1, EnterType, AnswerType
<1>3. /\ offers' \in [Offer -> OfferRecord]
      /\ \A x \in Offer : /\ offers'[x].conv = offers[x].conv
                          /\ offers[x].state # "unused" => offers'[x].state # "unused"
  BY <1>0, DropKeeps, DialogTypeParts
<1>4. DialogTypeOK' BY <1>0, <1>2, <1>3, EndsKeeps, DialogTypeParts, DialogTypeKept
<1>5. SearchingHasSearch'
  <2> SUFFICES ASSUME NEW d \in Conversation, ux'[d] = "SEARCHING"
               PROVE  \E u \in Update : update'[u].pc = "search" /\ update'[u].conv = d
    BY DEF SearchingHasSearch
  <2>1. PICK u \in Update : update[u].pc = "search" /\ update[u].conv = d
    BY <1>2 DEF DialogInv, SearchingHasSearch
  <2>2. update'[u] = update[u] BY <1>0, <2>1, EndsKeeps
  <2> QED BY <2>1, <2>2
<1>6. ASSUME NEW u \in Update PROVE TaskKnows(u)'
  <2>1. CASE u = t BY <1>0, <2>1, EndsKeeps DEF TaskKnows, NoUpdate
  <2>2. CASE u # t
    <3>1. update'[u] = update[u] BY <1>0, <2>2, EndsKeeps
    <3> QED BY <1>3, <3>1 DEF DialogInv, TaskKnows
  <2> QED BY <2>1, <2>2
<1> QED BY <1>4, <1>5, <1>6 DEF DialogInv

LEMMA BotRestartsInv == DialogInv /\ BotRestarts => DialogInv'
<1> SUFFICES ASSUME DialogInv, BotRestarts PROVE DialogInv' OBVIOUS
<1>0. DialogTypeOK BY DEF DialogInv
<1>1. NoUpdate \in UpdateRecord /\ "IDLE" \in UxState BY DEF NoUpdate, UpdateRecord, UxState
<1>2. ASSUME NEW o \in Offer PROVE [offers[o] EXCEPT !.state = "gone"] \in OfferRecord
  <2>1. offers[o] \in OfferRecord BY <1>0, DialogTypeParts
  <2> QED BY <2>1 DEF OfferRecord
<1>3. offers' \in [Offer -> OfferRecord] BY <1>0, <1>2, DialogTypeParts DEF BotRestarts
<1>4. DialogTypeOK' BY <1>0, <1>1, <1>3, DialogTypeParts, DialogTypeKept DEF BotRestarts
<1>5. SearchingHasSearch' BY DEF SearchingHasSearch, BotRestarts
<1>6. (\A t \in Update : TaskKnows(t))' BY DEF TaskKnows, BotRestarts, NoUpdate
<1> QED BY <1>4, <1>5, <1>6 DEF DialogInv

LEMMA DialogTaskInv ==
  ASSUME DialogInv, NEW t \in Update, DialogTask(t)
  PROVE  DialogInv'
<1>0. /\ DialogTypeOK
      /\ {"error", "no match", "quality", "queued"} \subseteq Screen
  BY DEF DialogInv, Screen
<1>1. offers \in [Offer -> OfferRecord] BY <1>0, DialogTypeParts
<1>2. CASE SearchFails(t)
  BY <1>0, <1>1, <1>2, SearchEndsInv DEF SearchFails
<1>3. CASE NothingFound(t)
  BY <1>0, <1>1, <1>3, SearchEndsInv DEF NothingFound
<1>4. CASE \E o \in Offer : Found(t, o)
  BY <1>4, FoundInv
<1>5. CASE ConfirmFails(t)
  BY <1>0, <1>5, ConfirmEndsInv DEF ConfirmFails
<1>6. CASE ConfirmAsksQuality(t)
  BY <1>0, <1>6, ConfirmEndsInv DEF ConfirmAsksQuality
<1>7. CASE ConfirmQueues(t)
  BY <1>0, <1>7, ConfirmEndsInv DEF ConfirmQueues
<1> QED BY <1>2, <1>3, <1>4, <1>5, <1>6, <1>7 DEF DialogTask

LEMMA DialogNextInv == DialogInv /\ [DialogNext]_dialogVars => DialogInv'
<1> SUFFICES ASSUME DialogInv, [DialogNext]_dialogVars PROVE DialogInv' OBVIOUS
<1>0. /\ {"menu", "help", "prompt", "denied", "offer", "cancelled", "invalid"} \subseteq Screen
      /\ {"MENU", "SEARCH_INPUT", "IDLE"} \subseteq UxState
  BY DEF Screen, UxState
<1>1. CASE UNCHANGED dialogVars
  BY <1>1 DEF dialogVars, DialogInv, DialogTypeOK, SearchingHasSearch, TaskKnows
<1>2. CASE \E c \in Conversation : OpenMenu(c) \/ Help(c) \/ BeginSearch(c) \/ Denied(c)
  BY <1>0, <1>2, MenuInv, DeniedInv DEF OpenMenu, Help, BeginSearch, Denied
<1>3. CASE \E t \in Update, c \in Conversation : StartSearch(t, c)
  BY <1>3, StartSearchInv
<1>4. CASE \E t \in Update : DialogTask(t)
  BY <1>4, DialogTaskInv
<1>5. ASSUME NEW c \in Conversation, NEW o \in Offer,
             \/ CancelOffer(c, o) \/ RetryOffer(c, o)
             \/ BrowseOffer(c, o) \/ StaleButton(c, o)
      PROVE  DialogInv'
  <2>1. CASE CancelOffer(c, o) BY <1>0, <2>1, ButtonInv DEF CancelOffer
  <2>2. CASE RetryOffer(c, o) BY <1>0, <2>2, ButtonInv DEF RetryOffer
  <2>3. CASE StaleButton(c, o) BY <1>0, <2>3, DeniedInv DEF StaleButton
  <2>4. CASE BrowseOffer(c, o) BY <1>0, <2>4, DeniedInv DEF BrowseOffer
  <2> QED BY <1>5, <2>1, <2>2, <2>3, <2>4
<1>6. CASE \E t \in Update, c \in Conversation, o \in Offer : PressDownload(t, c, o)
  BY <1>6, PressDownloadInv
<1>7. CASE \E o \in Offer : OfferLapses(o)
  BY <1>7, OfferLapsesInv
<1>8. CASE BotRestarts
  BY <1>8, BotRestartsInv
<1> QED BY <1>1, <1>2, <1>3, <1>4, <1>5, <1>6, <1>7, <1>8 DEF DialogNext

-----------------------------------------------------------------------------
(* The catalogue: what a resolver holds between its transactions, and who  *)
(* owns a source.                                                          *)

ResolverPc == {"idle", "read", "create", "write", "discover", "attach", "attaching", "resolved"}
Provider == {ProviderOf[s] : s \in Source}
ResolutionRecord ==
  [pc : ResolverPc, src : Source \cup {NoTrack}, track : Track \cup {NoTrack}, copy : Fields,
   target : Source \cup {NoTrack}, left : SUBSET Provider, tries : 0..(MaxPersists - 1)]

CatalogueStates ==
  /\ said \in [Source -> Fields] /\ \A s \in Source : said[s] # NoFields
  /\ tracks \in [Track -> Fields]
  /\ owner \in [Source -> Track \cup {NoTrack}]
  /\ resolution \in [Resolver -> ResolutionRecord]

(* What a resolution x relies on, with the owners and the rows as they are *)
(* now: the row it writes to is there, and from the discovery on its track *)
(* is its source's.                                                        *)
Relies(x, own, rows) ==
  /\ x.pc # "idle" => x.src \in Source
  /\ x.pc = "write" => x.track \in Track /\ rows[x.track] # NoFields
  /\ x.pc \in {"discover", "attach", "attaching", "resolved"} =>
       x.track \in Track /\ own[x.src] = x.track
  /\ x.pc \in {"attach", "attaching"} => x.target \in Source

OwnersAreStored == \A s \in Source : owner[s] # NoTrack => Stored(owner[s])

CatalogueInv ==
  /\ CatalogueStates
  /\ \A r \in Resolver : Relies(resolution[r], owner, tracks)
  /\ OwnersAreStored
  /\ TrackHasSource

LEMMA CatalogueInvImplies ==
  CatalogueInv => CatalogueTypeOK /\ ResolvedTrackOwnsSource /\ TrackHasSource
<1> SUFFICES ASSUME CatalogueInv
             PROVE  CatalogueTypeOK /\ ResolvedTrackOwnsSource /\ TrackHasSource
  OBVIOUS
<1>1. CatalogueTypeOK
  BY CatalogueAssumption DEF CatalogueInv, CatalogueStates, CatalogueTypeOK, ResolutionRecord
<1>2. ResolvedTrackOwnsSource
  BY DEF CatalogueInv, Relies, OwnersAreStored, ResolvedTrackOwnsSource
<1> QED BY <1>1, <1>2 DEF CatalogueInv

LEMMA NoFieldsType == NoFields \in Fields
BY DEF NoFields, Fields, Unknown

LEMMA NoResolutionType == NoResolution \in ResolutionRecord /\ NoResolution.pc = "idle"
BY NoFieldsType, CatalogueAssumption DEF NoResolution, ResolutionRecord, ResolverPc

LEMMA CatalogueInitInv == CatalogueInit => CatalogueInv
<1> SUFFICES ASSUME CatalogueInit PROVE CatalogueInv OBVIOUS
<1>1. CatalogueStates
  BY NoFieldsType, NoResolutionType, CatalogueAssumption DEF CatalogueInit, CatalogueStates
<1>2. \A r \in Resolver : Relies(resolution[r], owner, tracks)
  BY NoResolutionType DEF CatalogueInit, Relies
<1>3. OwnersAreStored BY DEF CatalogueInit, OwnersAreStored
<1>4. TrackHasSource BY DEF CatalogueInit, TrackHasSource, Stored
<1> QED BY <1>1, <1>2, <1>3, <1>4 DEF CatalogueInv

(* What is written into a row that is there leaves it there.               *)
LEMMA FillKeepsRow ==
  ASSUME NEW row \in Fields, NEW copy \in Fields, NEW m \in Fields
  PROVE  /\ Fill(row, copy, m) \in Fields
         /\ row # NoFields => Fill(row, copy, m) # NoFields
<1> DEFINE f == Fill(row, copy, m)
<1>1. /\ f.title = IF Known(copy.title) \/ ~Known(m.title) THEN row.title ELSE m.title
      /\ f.isrc = IF Known(copy.isrc) \/ ~Known(m.isrc) THEN row.isrc ELSE m.isrc
      /\ f.seconds = IF copy.seconds # 0 \/ m.seconds = 0 THEN row.seconds ELSE m.seconds
      /\ f.explicit = IF Known(copy.explicit) \/ ~Known(m.explicit)
                      THEN row.explicit ELSE m.explicit
  BY DEF Fill
<1>2. f \in Fields BY DEF Fill, Fields
<1>3. ASSUME NEW x \in Fields
      PROVE  x = NoFields <=> ~Known(x.title) /\ ~Known(x.isrc) /\ x.seconds = 0
                              /\ ~Known(x.explicit)
  <2>1. x = [title |-> x.title, isrc |-> x.isrc, seconds |-> x.seconds, explicit |-> x.explicit]
    BY DEF Fields
  <2>2. CASE ~Known(x.title) /\ ~Known(x.isrc) /\ x.seconds = 0 /\ ~Known(x.explicit)
    BY <2>1, <2>2 DEF NoFields, Known
  <2>3. CASE x = NoFields BY <2>3 DEF NoFields, Known
  <2> QED BY <2>2, <2>3
<1> HIDE DEF f
<1>4. row # NoFields => f # NoFields
  BY <1>1, <1>2, <1>3 DEF Known
<1> QED BY <1>2, <1>4 DEF f

(* One step of one resolver: rows stay stored and owned sources owned, so  *)
(* what the other resolvers rely on stays true.                            *)
LEMMA OneResolver ==
  ASSUME CatalogueInv, NEW r \in Resolver, NEW x \in ResolutionRecord,
         resolution' = [resolution EXCEPT ![r] = x], said' = said,
         tracks' \in [Track -> Fields], owner' \in [Source -> Track \cup {NoTrack}],
         \A t \in Track : Stored(t) => tracks'[t] # NoFields,
         \A s \in Source : owner[s] # NoTrack => owner'[s] = owner[s],
         \A s \in Source : owner'[s] # NoTrack => tracks'[owner'[s]] # NoFields,
         \A t \in Track : tracks'[t] # NoFields => \E s \in Source : owner'[s] = t,
         Relies(x, owner', tracks')
  PROVE  CatalogueInv'
<1>1. CatalogueStates' BY DEF CatalogueInv, CatalogueStates
<1>2. ASSUME NEW q \in Resolver PROVE Relies(resolution'[q], owner', tracks')
  <2>1. CASE q = r BY <2>1 DEF CatalogueInv, CatalogueStates
  <2>2. CASE q # r
    <3>1. resolution'[q] = resolution[q] BY <2>2 DEF CatalogueInv, CatalogueStates
    <3>2. Relies(resolution[q], owner, tracks) BY DEF CatalogueInv
    <3>3. resolution[q].pc = "write" => tracks'[resolution[q].track] # NoFields
      BY <3>2 DEF Relies, Stored
    <3>4. resolution[q].pc \in {"discover", "attach", "attaching", "resolved"} =>
            owner'[resolution[q].src] = resolution[q].track
      BY <3>2, CatalogueAssumption DEF Relies
    <3> QED BY <3>1, <3>2, <3>3, <3>4 DEF Relies
  <2> QED BY <2>1, <2>2
<1>3. OwnersAreStored' BY DEF OwnersAreStored, Stored
<1>4. TrackHasSource' BY DEF TrackHasSource, Stored
<1> QED BY <1>1, <1>2, <1>3, <1>4 DEF CatalogueInv

(* A step that only changes what its resolver knows.                       *)
LEMMA Looks ==
  ASSUME CatalogueInv, NEW r \in Resolver, NEW x \in ResolutionRecord,
         resolution' = [resolution EXCEPT ![r] = x], UNCHANGED <<said, tracks, owner>>,
         Relies(x, owner, tracks)
  PROVE  CatalogueInv'
<1>1. /\ tracks' \in [Track -> Fields] /\ owner' \in [Source -> Track \cup {NoTrack}]
      /\ \A t \in Track : Stored(t) => tracks'[t] # NoFields
      /\ \A s \in Source : owner'[s] # NoTrack => tracks'[owner'[s]] # NoFields
      /\ \A t \in Track : tracks'[t] # NoFields => \E s \in Source : owner'[s] = t
  BY DEF CatalogueInv, CatalogueStates, OwnersAreStored, TrackHasSource, Stored
<1> QED BY <1>1, OneResolver

(* A write that gives source s to track t and fills its row.               *)
LEMMA ResolverWrites ==
  ASSUME CatalogueInv, NEW r \in Resolver, NEW x \in ResolutionRecord,
         resolution' = [resolution EXCEPT ![r] = x], said' = said,
         NEW s \in Source, NEW t \in Track, MayOwn(t, s),
         NEW f \in Fields, f # NoFields,
         tracks' = [tracks EXCEPT ![t] = f], owner' = [owner EXCEPT ![s] = t],
         Relies(x, owner', tracks')
  PROVE  CatalogueInv'
<1>1. tracks \in [Track -> Fields] /\ owner \in [Source -> Track \cup {NoTrack}]
  BY DEF CatalogueInv, CatalogueStates
<1>2. tracks' \in [Track -> Fields] /\ owner' \in [Source -> Track \cup {NoTrack}]
  BY <1>1
<1>3. /\ tracks'[t] = f /\ \A u \in Track : u # t => tracks'[u] = tracks[u]
      /\ owner'[s] = t /\ \A z \in Source : z # s => owner'[z] = owner[z]
  BY <1>1
<1>4. \A u \in Track : Stored(u) => tracks'[u] # NoFields
  BY <1>3 DEF Stored
<1>5. \A z \in Source : owner[z] # NoTrack => owner'[z] = owner[z]
  BY <1>3 DEF MayOwn
<1>6. ASSUME NEW z \in Source, owner'[z] # NoTrack PROVE tracks'[owner'[z]] # NoFields
  <2>1. CASE z = s BY <1>3, <2>1
  <2>2. CASE z # s
    <3>1. owner[z] \in Track /\ Stored(owner[z])
      BY <1>1, <1>3, <1>6, <2>2 DEF CatalogueInv, OwnersAreStored
    <3> QED BY <1>3, <1>4, <2>2, <3>1
  <2> QED BY <2>1, <2>2
<1>7. ASSUME NEW u \in Track, tracks'[u] # NoFields PROVE \E z \in Source : owner'[z] = u
  <2>1. CASE u = t BY <1>3, <2>1
  <2>2. CASE u # t
    <3>1. Stored(u) BY <1>3, <1>7, <2>2 DEF Stored
    <3>2. PICK z \in Source : owner[z] = u BY <3>1 DEF CatalogueInv, TrackHasSource
    <3>3. owner'[z] = u BY <1>5, <3>2, CatalogueAssumption
    <3> QED BY <3>3
  <2> QED BY <2>1, <2>2
<1> QED BY <1>2, <1>4, <1>5, <1>6, <1>7, OneResolver

LEMMA ResolutionUpdates ==
  ASSUME NEW x \in ResolutionRecord, NEW pc \in ResolverPc
  PROVE  /\ [x EXCEPT !.pc = pc] \in ResolutionRecord
         /\ \A s \in Source : [x EXCEPT !.pc = pc, !.target = s] \in ResolutionRecord
         /\ \A f \in Fields :
              /\ [x EXCEPT !.pc = pc, !.copy = f] \in ResolutionRecord
              /\ \A t \in Track : [x EXCEPT !.pc = pc, !.track = t, !.copy = f] \in ResolutionRecord
              /\ \A n \in 0..(MaxPersists - 1) :
                   [x EXCEPT !.pc = pc, !.tries = n, !.copy = f] \in ResolutionRecord
BY DEF ResolutionRecord

LEMMA ReadInputInv ==
  ASSUME CatalogueInv, NEW r \in Resolver, ReadInput(r)
  PROVE  CatalogueInv'
<1> DEFINE s == resolution[r].src
           known == IF owner[s] # NoTrack THEN {owner[s]} ELSE MatchedTracks(said[s])
<1>1. /\ resolution[r] \in ResolutionRecord /\ resolution[r].pc = "read" /\ s \in Source
      /\ owner[s] \in Track \cup {NoTrack} /\ tracks \in [Track -> Fields]
      /\ UNCHANGED <<said, tracks, owner>>
  BY DEF CatalogueInv, CatalogueStates, Relies, ReadInput
<1>2. ASSUME NEW t \in known PROVE t \in Track /\ Stored(t)
  <2>1. CASE owner[s] # NoTrack BY <1>1, <2>1 DEF CatalogueInv, OwnersAreStored
  <2>2. CASE owner[s] = NoTrack
    <3>1. t \in MatchedTracks(said[s]) BY <2>2
    <3>2. MatchedTracks(said[s]) \subseteq ByIsrc(said[s]) \cup ByTitle(said[s])
      BY DEF MatchedTracks
    <3> QED BY <3>1, <3>2 DEF ByIsrc, ByTitle
  <2> QED BY <2>1, <2>2
<1>3. CASE known = {}
  <2> DEFINE x == [resolution[r] EXCEPT !.pc = "create"]
  <2>1. x \in ResolutionRecord BY <1>1, ResolutionUpdates DEF ResolverPc
  <2>2. Relies(x, owner, tracks) BY <1>1 DEF Relies, ResolutionRecord
  <2>3. resolution' = [resolution EXCEPT ![r] = x] BY <1>3 DEF ReadInput
  <2> HIDE DEF x
  <2> QED BY <1>1, <2>1, <2>2, <2>3, Looks
<1>4. CASE known # {}
  <2>1. PICK t \in known :
          resolution' = [resolution EXCEPT ![r].pc = "write", ![r].track = t, ![r].copy = tracks[t]]
    BY <1>4 DEF ReadInput
  <2> DEFINE x == [resolution[r] EXCEPT !.pc = "write", !.track = t, !.copy = tracks[t]]
  <2>2. t \in Track /\ Stored(t) /\ tracks[t] \in Fields BY <1>1, <1>2
  <2>3. x \in ResolutionRecord BY <1>1, <2>2, ResolutionUpdates DEF ResolverPc
  <2>4. Relies(x, owner, tracks) BY <1>1, <2>2 DEF Relies, ResolutionRecord, Stored
  <2>5. resolution' = [resolution EXCEPT ![r] = x]
    BY <2>1 DEF CatalogueInv, CatalogueStates
  <2> HIDE DEF x
  <2> QED BY <1>1, <2>3, <2>4, <2>5, Looks
<1> QED BY <1>3, <1>4

LEMMA BeginsInv ==
  ASSUME CatalogueInv, NEW r \in Resolver, NEW s \in Source, Begins(r, s)
  PROVE  CatalogueInv'
<1> DEFINE x == [NoResolution EXCEPT !.pc = "read", !.src = s]
<1>1. x \in ResolutionRecord /\ x.pc = "read" /\ x.src = s
  BY NoResolutionType DEF NoResolution, ResolutionRecord, ResolverPc
<1>2. resolution' = [resolution EXCEPT ![r] = x] /\ UNCHANGED <<said, tracks, owner>>
  BY DEF Begins
<1> HIDE DEF x
<1>3. Relies(x, owner, tracks) BY <1>1 DEF Relies
<1> QED BY <1>1, <1>2, <1>3, Looks

LEMMA EndsInv ==
  ASSUME CatalogueInv, NEW r \in Resolver, resolution' = [resolution EXCEPT ![r] = NoResolution],
         UNCHANGED <<said, tracks, owner>>
  PROVE  CatalogueInv'
<1>1. Relies(NoResolution, owner, tracks) BY NoResolutionType DEF Relies
<1> QED BY <1>1, NoResolutionType, Looks

LEMMA TriesAgainInv ==
  ASSUME CatalogueInv, NEW r \in Resolver, resolution[r].pc # "idle", TriesAgain(r),
         UNCHANGED <<said, tracks, owner>>
  PROVE  CatalogueInv'
<1>1. resolution[r] \in ResolutionRecord /\ resolution[r].src \in Source
  BY DEF CatalogueInv, CatalogueStates, Relies
<1>2. resolution[r].tries \in 0..(MaxPersists - 1)
  BY <1>1 DEF ResolutionRecord
<1>3. CASE resolution[r].tries + 1 < MaxPersists
  <2> DEFINE n == resolution[r].tries + 1
             z == resolution[r].src
             x == [NoResolution EXCEPT !.pc = "read", !.src = z, !.tries = n]
  <2>1. n \in 0..(MaxPersists - 1) BY <1>2, <1>3, CatalogueAssumption
  <2>2. resolution' = [resolution EXCEPT ![r] = x]
    BY <1>3 DEF TriesAgain, CatalogueInv, CatalogueStates
  <2> HIDE DEF n
  <2>3. x \in ResolutionRecord /\ x.pc = "read" /\ x.src = z
    BY <1>1, <2>1, NoResolutionType DEF NoResolution, ResolutionRecord, ResolverPc
  <2> HIDE DEF x
  <2>4. Relies(x, owner, tracks) BY <1>1, <2>3 DEF Relies
  <2> QED BY <2>2, <2>3, <2>4, Looks
<1>4. CASE ~(resolution[r].tries + 1 < MaxPersists)
  <2>1. resolution' = [resolution EXCEPT ![r] = NoResolution]
    BY <1>4 DEF TriesAgain, CatalogueInv, CatalogueStates
  <2> QED BY <2>1, EndsInv
<1> QED BY <1>3, <1>4

(* Both ways to store the input go on to the search at other providers.    *)
LEMMA SearchesInv ==
  ASSUME CatalogueInv, NEW r \in Resolver, resolution[r].pc # "idle", NEW t \in Track,
         Searches(r, t), said' = said, MayOwn(t, resolution[r].src),
         NEW f \in Fields, f # NoFields, tracks' = [tracks EXCEPT ![t] = f],
         owner' = [owner EXCEPT ![resolution[r].src] = t]
  PROVE  CatalogueInv'
<1> DEFINE z == resolution[r].src
           l == Provider \ {ProviderOf[z]}
           x == [NoResolution EXCEPT !.pc = "discover", !.src = z, !.track = t, !.left = l]
<1>1. z \in Source BY DEF CatalogueInv, CatalogueStates, Relies
<1>2. resolution' = [resolution EXCEPT ![r] = x]
  BY DEF Searches, Provider
<1>3. l \in SUBSET Provider OBVIOUS
<1> HIDE DEF l
<1>4. x \in ResolutionRecord /\ x.pc = "discover" /\ x.src = z /\ x.track = t
  BY <1>1, <1>3, NoResolutionType DEF NoResolution, ResolutionRecord, ResolverPc
<1>5. owner'[z] = t BY <1>1 DEF CatalogueInv, CatalogueStates
<1> HIDE DEF x
<1>6. Relies(x, owner', tracks') BY <1>1, <1>4, <1>5 DEF Relies
<1> QED BY <1>1, <1>2, <1>4, <1>6, ResolverWrites

LEMMA WriteInputInv ==
  ASSUME CatalogueInv, NEW r \in Resolver, WriteInput(r)
  PROVE  CatalogueInv'
<1> DEFINE s == resolution[r].src
           t == resolution[r].track
           f == Fill(tracks[t], resolution[r].copy, said[s])
<1>1. /\ resolution[r].pc = "write" /\ s \in Source /\ t \in Track
      /\ tracks[t] \in Fields /\ tracks[t] # NoFields /\ said[s] \in Fields
      /\ resolution[r].copy \in Fields
  BY DEF CatalogueInv, CatalogueStates, Relies, WriteInput, ResolutionRecord
<1>2. f \in Fields /\ f # NoFields BY <1>1, FillKeepsRow
<1>3. tracks' = [tracks EXCEPT ![t] = f] /\ owner' = [owner EXCEPT ![s] = t]
      /\ Searches(r, t) /\ said' = said /\ MayOwn(t, s)
  BY <1>1 DEF WriteInput, CatalogueInv, CatalogueStates
<1> HIDE DEF f
<1> QED BY <1>1, <1>2, <1>3, SearchesInv

LEMMA CreateTrackInv ==
  ASSUME CatalogueInv, NEW r \in Resolver, CreateTrack(r)
  PROVE  CatalogueInv'
<1>1. /\ resolution[r].pc = "create" /\ resolution[r].src \in Source
      /\ said[resolution[r].src] \in Fields /\ said[resolution[r].src] # NoFields
  BY DEF CatalogueInv, CatalogueStates, Relies, CreateTrack
<1> QED BY <1>1, SearchesInv DEF CreateTrack

LEMMA SkipsRecord ==
  ASSUME CatalogueInv, NEW r \in Resolver, NEW p, Skips(r, p),
         resolution[r].pc \in {"discover", "attach", "attaching"}
  PROVE  \E x \in ResolutionRecord :
           /\ resolution' = [resolution EXCEPT ![r] = x]
           /\ x.pc = "discover" /\ x.src = resolution[r].src /\ x.track = resolution[r].track
<1> DEFINE l == resolution[r].left \ {p}
           x == [resolution[r] EXCEPT !.pc = "discover", !.left = l, !.target = NoTrack,
                                      !.tries = 0, !.copy = NoFields]
<1>1. resolution[r] \in ResolutionRecord BY DEF CatalogueInv, CatalogueStates
<1>2. l \in SUBSET Provider BY <1>1 DEF ResolutionRecord
<1>3. resolution' = [resolution EXCEPT ![r] = x]
  BY DEF Skips, CatalogueInv, CatalogueStates
<1>4. 0 \in 0..(MaxPersists - 1) BY CatalogueAssumption
<1> HIDE DEF l
<1>5. x \in ResolutionRecord
  BY <1>1, <1>2, <1>4, NoFieldsType DEF ResolutionRecord, ResolverPc
<1>6. x.pc = "discover" /\ x.src = resolution[r].src /\ x.track = resolution[r].track
  BY <1>1 DEF ResolutionRecord
<1> QED BY <1>3, <1>5, <1>6

LEMMA SkipsInv ==
  ASSUME CatalogueInv, NEW r \in Resolver, NEW p, Skips(r, p),
         resolution[r].pc \in {"discover", "attach", "attaching"}, UNCHANGED <<said, tracks, owner>>
  PROVE  CatalogueInv'
<1>1. PICK x \in ResolutionRecord :
           /\ resolution' = [resolution EXCEPT ![r] = x]
           /\ x.pc = "discover" /\ x.src = resolution[r].src /\ x.track = resolution[r].track
  BY SkipsRecord
<1>2. Relies(x, owner, tracks) BY <1>1 DEF CatalogueInv, Relies
<1> QED BY <1>1, <1>2, Looks

LEMMA DiscoverInv ==
  ASSUME CatalogueInv, NEW r \in Resolver, NEW p, Discover(r, p)
  PROVE  CatalogueInv'
<1>1. PICK s \in Source : resolution' = [resolution EXCEPT ![r].pc = "attach", ![r].target = s]
  BY DEF Discover, Verified
<1> DEFINE x == [resolution[r] EXCEPT !.pc = "attach", !.target = s]
<1>2. resolution[r] \in ResolutionRecord /\ resolution[r].pc = "discover"
      /\ UNCHANGED <<said, tracks, owner>>
  BY DEF CatalogueInv, CatalogueStates, Discover
<1>3. x \in ResolutionRecord BY <1>2, ResolutionUpdates DEF ResolverPc
<1>4. Relies(x, owner, tracks) BY <1>2 DEF CatalogueInv, Relies, ResolutionRecord
<1>5. resolution' = [resolution EXCEPT ![r] = x] BY <1>1 DEF CatalogueInv, CatalogueStates
<1> HIDE DEF x
<1> QED BY <1>2, <1>3, <1>4, <1>5, Looks

LEMMA ReadAttachInv ==
  ASSUME CatalogueInv, NEW r \in Resolver, ReadAttach(r)
  PROVE  CatalogueInv'
<1> DEFINE t == resolution[r].track
           x == [resolution[r] EXCEPT !.pc = "attaching", !.copy = tracks[t]]
<1>1. /\ resolution[r] \in ResolutionRecord /\ resolution[r].pc = "attach" /\ t \in Track
      /\ tracks[t] \in Fields /\ UNCHANGED <<said, tracks, owner>>
  BY DEF CatalogueInv, CatalogueStates, Relies, ReadAttach
<1>2. CASE owner[resolution[r].target] \notin {NoTrack, t}
  BY <1>1, <1>2, SkipsInv DEF ReadAttach
<1>3. CASE owner[resolution[r].target] \in {NoTrack, t}
  <2>1. x \in ResolutionRecord BY <1>1, ResolutionUpdates DEF ResolverPc
  <2>2. Relies(x, owner, tracks) BY <1>1 DEF CatalogueInv, Relies, ResolutionRecord
  <2>3. resolution' = [resolution EXCEPT ![r] = x]
    BY <1>3 DEF ReadAttach, CatalogueInv, CatalogueStates
  <2> HIDE DEF x
  <2> QED BY <1>1, <2>1, <2>2, <2>3, Looks
<1> QED BY <1>2, <1>3

LEMMA WriteAttachInv ==
  ASSUME CatalogueInv, NEW r \in Resolver, WriteAttach(r)
  PROVE  CatalogueInv'
<1> DEFINE s == resolution[r].target
           t == resolution[r].track
           f == Fill(tracks[t], resolution[r].copy, said[s])
<1>1. /\ resolution[r].pc = "attaching" /\ s \in Source /\ t \in Track
      /\ resolution[r].src \in Source /\ owner[resolution[r].src] = t
      /\ tracks[t] \in Fields /\ said[s] \in Fields /\ resolution[r].copy \in Fields
  BY DEF CatalogueInv, CatalogueStates, Relies, WriteAttach, ResolutionRecord
<1>2. tracks[t] # NoFields
  BY <1>1, CatalogueAssumption DEF CatalogueInv, OwnersAreStored, Stored
<1>3. f \in Fields /\ f # NoFields BY <1>1, <1>2, FillKeepsRow
<1>4. tracks' = [tracks EXCEPT ![t] = f] /\ owner' = [owner EXCEPT ![s] = t]
      /\ Skips(r, ProviderOf[s]) /\ said' = said /\ MayOwn(t, s)
  BY <1>1 DEF WriteAttach, CatalogueInv, CatalogueStates
<1> HIDE DEF f
<1>5. PICK x \in ResolutionRecord :
           /\ resolution' = [resolution EXCEPT ![r] = x]
           /\ x.pc = "discover" /\ x.src = resolution[r].src /\ x.track = resolution[r].track
  BY <1>1, <1>4, SkipsRecord
<1>6. owner'[resolution[r].src] = t BY <1>1, <1>4 DEF CatalogueInv, CatalogueStates
<1>7. Relies(x, owner', tracks') BY <1>1, <1>5, <1>6 DEF Relies
<1> QED BY <1>1, <1>3, <1>4, <1>5, <1>7, ResolverWrites

LEMMA AttachConflictInv ==
  ASSUME CatalogueInv, NEW r \in Resolver, AttachConflict(r)
  PROVE  CatalogueInv'
<1> DEFINE n == resolution[r].tries + 1
           x == [resolution[r] EXCEPT !.pc = "attach", !.tries = n, !.copy = NoFields]
<1>1. /\ resolution[r] \in ResolutionRecord /\ resolution[r].pc = "attaching"
      /\ UNCHANGED <<said, tracks, owner>> /\ Relies(resolution[r], owner, tracks)
  BY DEF CatalogueInv, CatalogueStates, AttachConflict
<1>2. CASE n < MaxPersists
  <2>1. n \in 0..(MaxPersists - 1) BY <1>1, <1>2, CatalogueAssumption DEF ResolutionRecord
  <2>2. resolution' = [resolution EXCEPT ![r] = x]
    <3>1. ~(n >= MaxPersists) BY <1>2, <2>1, CatalogueAssumption
    <3> QED BY <3>1 DEF AttachConflict, CatalogueInv, CatalogueStates
  <2>3. Relies(x, owner, tracks) BY <1>1 DEF Relies, ResolutionRecord
  <2> HIDE DEF n
  <2>4. x \in ResolutionRecord BY <1>1, <2>1, ResolutionUpdates, NoFieldsType DEF ResolverPc
  <2> HIDE DEF x
  <2> QED BY <1>1, <2>2, <2>3, <2>4, Looks
<1>3. CASE Skips(r, ProviderOf[resolution[r].target])
  BY <1>1, <1>3, SkipsInv
<1> QED BY <1>2, <1>3 DEF AttachConflict

LEMMA ReturnsInv ==
  ASSUME CatalogueInv, NEW r \in Resolver, Returns(r)
  PROVE  CatalogueInv'
<1> DEFINE x == [resolution[r] EXCEPT !.pc = "resolved"]
<1>1. /\ resolution[r] \in ResolutionRecord /\ resolution[r].pc = "discover"
      /\ UNCHANGED <<said, tracks, owner>> /\ Relies(resolution[r], owner, tracks)
  BY DEF CatalogueInv, CatalogueStates, Returns
<1>2. x \in ResolutionRecord BY <1>1, ResolutionUpdates DEF ResolverPc
<1>3. Relies(x, owner, tracks) BY <1>1 DEF Relies, ResolutionRecord
<1>4. resolution' = [resolution EXCEPT ![r] = x]
  BY DEF Returns, CatalogueInv, CatalogueStates
<1> HIDE DEF x
<1> QED BY <1>1, <1>2, <1>3, <1>4, Looks

LEMMA CatalogueNextInv == CatalogueInv /\ [CatalogueNext]_catalogueVars => CatalogueInv'
<1> SUFFICES ASSUME CatalogueInv, [CatalogueNext]_catalogueVars PROVE CatalogueInv' OBVIOUS
<1>1. CASE UNCHANGED catalogueVars
  BY <1>1 DEF catalogueVars, CatalogueInv, CatalogueStates, OwnersAreStored, TrackHasSource, Stored
<1>2. CASE CatalogueNext
  <2>1. PICK r \in Resolver :
    \/ \E s \in Source : Begins(r, s)
    \/ Rejects(r) \/ ReadInput(r) \/ WriteInput(r) \/ CreateTrack(r) \/ InputConflict(r)
    \/ \E s \in Source : DiscoverNothing(r, ProviderOf[s]) \/ Discover(r, ProviderOf[s])
    \/ ReadAttach(r) \/ WriteAttach(r) \/ AttachConflict(r)
    \/ Returns(r) \/ ForgetsResult(r)
    BY <1>2 DEF CatalogueNext
  <2>2. CASE \E s \in Source : Begins(r, s) BY <2>2, BeginsInv
  <2>3. CASE Rejects(r) BY <2>3, EndsInv DEF Rejects
  <2>4. CASE ReadInput(r) BY <2>4, ReadInputInv
  <2>5. CASE WriteInput(r) BY <2>5, WriteInputInv
  <2>6. CASE CreateTrack(r) BY <2>6, CreateTrackInv
  <2>7. CASE InputConflict(r) BY <2>7, TriesAgainInv DEF InputConflict
  <2>8. CASE \E s \in Source : DiscoverNothing(r, ProviderOf[s])
    BY <2>8, SkipsInv DEF DiscoverNothing
  <2>9. CASE \E s \in Source : Discover(r, ProviderOf[s]) BY <2>9, DiscoverInv
  <2>10. CASE ReadAttach(r) BY <2>10, ReadAttachInv
  <2>11. CASE WriteAttach(r) BY <2>11, WriteAttachInv
  <2>12. CASE AttachConflict(r) BY <2>12, AttachConflictInv
  <2>13. CASE Returns(r) BY <2>13, ReturnsInv
  <2>14. CASE ForgetsResult(r) BY <2>14, EndsInv DEF ForgetsResult
  <2> QED BY <2>1, <2>2, <2>3, <2>4, <2>5, <2>6, <2>7, <2>8, <2>9, <2>10, <2>11, <2>12,
             <2>13, <2>14
<1> QED BY <1>1, <1>2

-----------------------------------------------------------------------------
(* The parts of MCServices.                                                *)

serviceVars == <<authVars, accessVars, poolVars, runtimeVars, dialogVars, catalogueVars, part>>

AuthPart == {"links", "closing"}
AccessPart == {"roles", "operated", "registry"}

LEMMA PartSteps ==
  ASSUME [ServicesNext]_serviceVars
  PROVE  /\ part' = part
         /\ part \in AuthPart => [AuthNext]_authVars
         /\ part \in AccessPart => [AccessNext]_accessVars
         /\ part \in {"roles", "registry"} =>
              accessVars' = accessVars \/ \A t \in Operator : call'[t] = IdleCall
         /\ part = "pool" => [PoolNext]_poolVars
         /\ part = "runtime" => [RuntimeNext]_runtimeVars
         /\ part = "dialog" => [DialogNext]_dialogVars
         /\ part = "catalogue" => [CatalogueNext]_catalogueVars
BY DEF ServicesNext, serviceVars, AuthPart, AccessPart, LinkNext, ClosingNext, RoleNext,
       OperatedNext, RegistryNext, NobodyOperates

(* LinksAreTrue: of a provider one authorization at a time, none the child *)
(* still polls that no task follows, and after a reported disconnect no    *)
(* account of an older authorization in the configuration file, with any   *)
(* number of providers, flows, messages, broken calls and disconnects.     *)
THEOREM LinksTrue == ServicesSpec => []LinksAreTrue
<1> DEFINE Inv == part \in AuthPart => AuthInv
<1>1. ServicesInit => Inv BY AuthInitInv DEF ServicesInit, AuthPart
<1>2. Inv /\ [ServicesNext]_serviceVars => Inv'
  BY PartSteps, AuthNextInv DEF FinalStep
<1>3. Inv => LinksAreTrue BY AuthInvImplies DEF LinksAreTrue, AuthPart
<1> QED BY <1>1, <1>2, <1>3, PTL DEF ServicesSpec, serviceVars

(* FlowIsFinal: the result of an authorization that has ended never        *)
(* changes, and one whose cancellation was reported writes no account.     *)
THEOREM FlowsFinal == ServicesSpec => FlowIsFinal
<1> DEFINE Inv == part \in AuthPart => AuthInv
<1>1. ServicesInit => Inv BY AuthInitInv DEF ServicesInit, AuthPart
<1>2. Inv /\ [ServicesNext]_serviceVars => Inv'
  BY PartSteps, AuthNextInv DEF FinalStep
<1>3. Inv /\ [ServicesNext]_serviceVars =>
        [(part \in {"links", "closing"}) => StaysEnded /\ StaysCancelled]_authVars
  BY PartSteps, AuthNextInv DEF FinalStep, AuthPart
<1> QED BY <1>1, <1>2, <1>3, PTL DEF ServicesSpec, serviceVars, FlowIsFinal

(* ChangesAreAudited: every change of a role and of a link has its audit   *)
(* row and the rows of a subject are its history; of the desired workers   *)
(* the same as long as nobody runs the operator's tool.                    *)
THEOREM ChangesAudited == ServicesSpec => []ChangesAreAudited
<1> DEFINE Inv == /\ part \in AccessPart => AccessInv
                  /\ part \in {"roles", "registry"} => WorkersInv /\ NoOperator
<1>1. ServicesInit => Inv BY AccessInitInv DEF ServicesInit, AccessPart
<1>2. Inv /\ [ServicesNext]_serviceVars => Inv'
  <2> SUFFICES ASSUME Inv, [ServicesNext]_serviceVars PROVE Inv' OBVIOUS
  <2>1. part \in AccessPart => AccessInv' BY PartSteps, AccessNextInv
  <2>2. ASSUME part \in {"roles", "registry"} PROVE WorkersInv' /\ NoOperator'
    <3>1. AccessInv /\ WorkersInv /\ NoOperator /\ [AccessNext]_accessVars
      BY <2>2, PartSteps DEF AccessPart
    <3>2. NoOperator'
      <4>1. CASE accessVars' = accessVars BY <3>1, <4>1 DEF NoOperator, accessVars
      <4>2. CASE \A t \in Operator : call'[t] = IdleCall BY <4>2 DEF NoOperator, IdleCall
      <4> QED BY <2>2, <4>1, <4>2, PartSteps
    <3> QED BY <3>1, <3>2, WorkersNextInv
  <2> QED BY <2>1, <2>2, PartSteps
<1>3. Inv => ChangesAreAudited
  BY AccessInvImplies DEF ChangesAreAudited, AccessPart, WorkersInv
<1> QED BY <1>1, <1>2, <1>3, PTL DEF ServicesSpec, serviceVars

(* RegistrationIsTrue: registrations that race under one key, in any number, *)
(* answer with one link, and with a link for the item they asked for.      *)
THEOREM RegistrationTrue == ServicesSpec => []RegistrationIsTrue
<1> DEFINE Inv == part \in AccessPart => AccessInv
<1>1. ServicesInit => Inv BY AccessInitInv DEF ServicesInit, AccessPart
<1>2. Inv /\ [ServicesNext]_serviceVars => Inv'
  BY PartSteps, AccessNextInv
<1>3. Inv => RegistrationIsTrue BY AccessInvImplies DEF RegistrationIsTrue, AccessPart
<1> QED BY <1>1, <1>2, <1>3, PTL DEF ServicesSpec, serviceVars

(* PoolIsBounded: however resizes, stops, lost leases and failing heartbeats *)
(* interleave, the tasks that serve stay within the maximum and nothing    *)
(* runs once the manager has stopped.                                      *)
THEOREM PoolBounded == ServicesSpec => []PoolIsBounded
<1> DEFINE Inv == part = "pool" => PoolInv
<1>1. ServicesInit => Inv BY PoolInitInv DEF ServicesInit
<1>2. Inv /\ [ServicesNext]_serviceVars => Inv'
  BY PartSteps, PoolNextInv
<1>3. Inv => PoolIsBounded BY PoolInvImplies DEF PoolIsBounded
<1> QED BY <1>1, <1>2, <1>3, PTL DEF ServicesSpec, serviceVars

(* RuntimeIsSafe: of any number of processes on the host one works over the *)
(* database, and no service works before recovery.                         *)
THEOREM RuntimeSafe == ServicesSpec => []RuntimeIsSafe
<1> DEFINE Inv == part = "runtime" => RuntimeInv
<1>1. ServicesInit => Inv BY RuntimeInitInv DEF ServicesInit
<1>2. Inv /\ [ServicesNext]_serviceVars => Inv'
  BY PartSteps, RuntimeNextInv
<1>3. Inv => RuntimeIsSafe BY RuntimeInvImplies DEF RuntimeIsSafe
<1> QED BY <1>1, <1>2, <1>3, PTL DEF ServicesSpec, serviceVars

(* DialogIsSound: no conversation stays locked in a search that nobody     *)
(* runs, whatever the user's other updates do while one is awaited.        *)
THEOREM DialogSound == ServicesSpec => []DialogIsSound
<1> DEFINE Inv == part = "dialog" => DialogInv
<1>1. ServicesInit => Inv BY DialogInitInv DEF ServicesInit
<1>2. Inv /\ [ServicesNext]_serviceVars => Inv'
  BY PartSteps, DialogNextInv
<1>3. Inv => DialogIsSound BY DialogInvImplies DEF DialogIsSound
<1> QED BY <1>1, <1>2, <1>3, PTL DEF ServicesSpec, serviceVars

(* CatalogueIsSound: a resolution goes on with the track that owns its     *)
(* source, and no track is left without one, whatever resolvers race.      *)
THEOREM CatalogueSound == ServicesSpec => []CatalogueIsSound
<1> DEFINE Inv == part = "catalogue" => CatalogueInv
<1>1. ServicesInit => Inv BY CatalogueInitInv DEF ServicesInit
<1>2. Inv /\ [ServicesNext]_serviceVars => Inv'
  BY PartSteps, CatalogueNextInv
<1>3. Inv => CatalogueIsSound BY CatalogueInvImplies DEF CatalogueIsSound
<1> QED BY <1>1, <1>2, <1>3, PTL DEF ServicesSpec, serviceVars

==============================================================================
