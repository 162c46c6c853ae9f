------------------------------ MODULE PathProofs ------------------------------
(***************************************************************************)
(* Theorems about the components a download passes through.  MCDownloads   *)
(* runs each of them in parts of its own; every part takes steps of its    *)
(* component's next-state relation, so one inductive invariant per         *)
(* component, proved here or in DownloadProofs, carries every part of it.  *)
(***************************************************************************)
EXTENDS MCDownloads, DownloadProofs

-----------------------------------------------------------------------------
(* Preferences and one recording on its way.                               *)

PrefsRow == [quality : Qualities, format : Formats]
Containers == {"mp3", "m4a", "flac", "ogg", "any"}
PlanRow == [direct : BOOLEAN, lossless : BOOLEAN, codec : Codecs \cup {"any"}, rate : Nat]
SourceRow == [codec : Codecs, container : Containers, rate : Nat, native : BOOLEAN]
MadeRow == [codec : Codecs \cup {"any"}, container : Containers, rate : Nat, lossless : BOOLEAN]
MediaSteps == {"idle", "admitted", "planned", "fetched", "made", "valid", "rejected",
               "failed"}
Frozen == {NoProfile} \cup PrefsRow
Admitted0 == {"admitted", "planned", "fetched", "made", "valid", "rejected"}
Planned == Admitted0 \ {"admitted"}
Fetched == Planned \ {"planned"}
Made == Fetched \ {"fetched"}

MediaRow ==
  [pc : MediaSteps, q : Profiles \cup {"none"}, profile : Frozen,
   plan : PlanRow \cup {"none"}, source : SourceRow \cup {"none"},
   made : MadeRow \cup {"none"}]

PrefsTyped == prefs \in PrefsRow

(* A press carries settings that were valid when it read them.             *)
PressesTyped ==
  /\ edit = [e \in Editor |-> edit[e]]
  /\ \A e \in Editor :
       \/ edit[e] = NoEdit
       \/ /\ edit[e].pc = "write" /\ edit[e].to \in Qualities \cup Formats
          /\ edit[e].seen \in PrefsRow /\ Valid(edit[e].seen)

(* What is known of the download once it has come this far.                *)
MediaKnown ==
  /\ media.pc \in Admitted0 => media.q \in Profiles
  /\ media.pc \in Planned => media.plan \in PlanRow
  /\ media.pc \in Fetched => media.source \in SourceRow
  /\ media.pc \in Made => media.made \in MadeRow

(* A lossless request has a lossless plan, a lossless plan a lossless      *)
(* source, any other plan the rate asked for and a source near it; what a  *)
(* lossy source was made into is the source itself or lossless in name     *)
(* only.                                                                   *)
PlanIsKept(m) ==
  IF m.plan.lossless THEN TRUE
  ELSE m.q # "LOSSLESS" /\ m.plan.rate = Output[m.q].rate /\ m.plan.rate # NoRate

Untouched(made, source) ==
  made.codec = source.codec /\ made.container = source.container /\ made.rate = source.rate

SourceIsKept ==
  /\ media.pc \in Planned => PlanIsKept(media)
  /\ media.pc \in Fetched =>
       IF media.plan.lossless THEN Lossless(media.source)
       ELSE Near(media.source.rate, media.plan.rate, 8, 5)
  /\ media.pc \in Made =>
       /\ \/ Lossless(media.source) \/ Untouched(media.made, media.source)
          \/ media.made.codec = "flac"
       /\ media.made.lossless => media.made.codec = "flac"
  /\ media.pc = "valid" => MeetsPlan

MediaInv ==
  PrefsTyped /\ PrefsAreValid /\ PressesTyped /\ media \in MediaRow /\ MediaKnown /\ SourceIsKept

(* The initial states.                                                     *)
LEMMA MediaStart == ASSUME MediaInit PROVE MediaInv
  <1>1. PrefsTyped /\ PrefsAreValid
    BY DEF MediaInit, DefaultPrefs, Qualities, Formats, PrefsTyped, PrefsAreValid, PrefsRow, Valid
  <1>2. PressesTyped
    BY DEF MediaInit, PressesTyped
  <1>3. media \in MediaRow
    <2>1. NoProfile \in Frozen /\ "idle" \in MediaSteps
      BY DEF Frozen, MediaSteps
    <2> QED BY <2>1, Zenon DEF MediaRow, MediaInit, NoMedia
  <1>4. MediaKnown /\ SourceIsKept
    BY DEF MediaInit, NoMedia, Admitted0, Planned, Fetched, Made, MediaKnown, SourceIsKept
  <1> QED BY <1>1, <1>2, <1>3, <1>4 DEF MediaInv

(* The invariant is at least what the runs check.                          *)
LEMMA MediaPromises ==
  ASSUME MediaInv
  PROVE  MediaTypeOK /\ PrefsAreValid /\ NoUpscale
  <1>1. prefs \in [quality : Qualities, format : Formats] /\ PrefsAreValid
    BY DEF MediaInv, PrefsTyped, PrefsRow
  <1>2. \A e \in Editor : edit[e].to \in Qualities \cup Formats \cup {"none"}
    BY DEF MediaInv, PressesTyped, NoEdit
  <1>3. media.pc \in MediaSteps /\ media.q \in Profiles \cup {"none"}
    BY DEF MediaInv, MediaRow
  <1>4. NoUpscale
    <2> SUFFICES ASSUME media.pc = "valid"
                 PROVE  /\ \/ Lossless(media.source)
                           \/ /\ Untouched(media.made, media.source)
                              /\ Near(media.source.rate, Output[media.q].rate, 8, 5)
                        /\ media.q = "LOSSLESS" =>
                             Lossless(media.source) /\ media.made.codec = "flac"
      BY DEF NoUpscale, Untouched
    <2>1. media.q \in Profiles
      BY DEF MediaInv, MediaKnown, Admitted0
    <2>2. /\ PlanIsKept(media)
          /\ IF media.plan.lossless THEN Lossless(media.source)
             ELSE Near(media.source.rate, media.plan.rate, 8, 5)
          /\ \/ Lossless(media.source) \/ Untouched(media.made, media.source)
             \/ media.made.codec = "flac"
          /\ media.made.lossless => media.made.codec = "flac"
          /\ MeetsPlan
      BY DEF MediaInv, SourceIsKept, Admitted0, Planned, Fetched, Made
    <2>3. CASE media.q = "LOSSLESS"
      <3>1. media.made.lossless
        BY <2>2, <2>3 DEF MeetsPlan, Meets, Output
      <3> QED BY <2>2, <2>3, <3>1 DEF PlanIsKept
    <2>4. CASE media.q # "LOSSLESS"
      <3>1. ~Output[media.q].lossless /\ Output[media.q].codec \in {"mp3", "aac"}
        BY <2>1, <2>4 DEF Profiles, Output
      <3>2. media.made.codec # "flac"
        BY <2>2, <3>1 DEF MeetsPlan, Meets
      <3>3. CASE media.plan.lossless
        BY <2>2, <2>4, <3>3
      <3>4. CASE ~media.plan.lossless
        <4>1. Near(media.source.rate, Output[media.q].rate, 8, 5)
          BY <2>2, <3>4, Zenon DEF PlanIsKept
        <4> QED BY <2>2, <2>4, <3>2, <4>1
      <3> QED BY <3>3, <3>4
    <2> QED BY <2>3, <2>4
  <1> QED BY <1>1, <1>2, <1>3, <1>4 DEF MediaTypeOK, MediaSteps

-----------------------------------------------------------------------------
LEMMA SettingsKeep ==
  ASSUME MediaInv, NEW e \in Editor, ReadPrefs(e) \/ WritePrefs(e)
  PROVE  PrefsTyped' /\ PrefsAreValid' /\ PressesTyped'
  <1> USE DEF MediaInv, PrefsTyped, PrefsAreValid
  <1>1. CASE ReadPrefs(e)
    <2>1. PICK to \in Choices :
            edit' = [edit EXCEPT ![e] = [pc |-> "write", seen |-> prefs, to |-> to]]
      BY <1>1 DEF ReadPrefs
    <2>2. to \in Qualities \cup Formats
      BY MediaAssumption
    <2> QED BY <1>1, <2>1, <2>2 DEF ReadPrefs, PressesTyped
  <1>2. CASE WritePrefs(e)
    <2>1. /\ edit[e].pc = "write" /\ edit' = [edit EXCEPT ![e] = NoEdit]
          /\ prefs' = IF Checked(e) THEN Merged(e) ELSE prefs
      BY <1>2 DEF WritePrefs
    <2>2. edit[e].to \in Qualities \cup Formats /\ edit[e].seen \in PrefsRow
      BY <2>1 DEF PressesTyped, NoEdit
    <2>3. Merged(e) \in PrefsRow /\ (Checked(e) => Valid(Merged(e)))
      BY <2>2 DEF Merged, Checked, PrefsRow
    <2>4. PressesTyped'
      BY <2>1 DEF PressesTyped
    <2> QED BY <2>1, <2>3, <2>4
  <1> QED BY <1>1, <1>2

(* A frozen profile names a quality and a format.                          *)
LEMMA ProfilesAreFrozen ==
  ASSUME NEW wanted, wanted.format \in Formats
  PROVE  {NoProfile} \cup ProfilesFor(wanted) \subseteq Frozen
  <1>1. ASSUME NEW quality, NEW available PROVE Effective(quality, available) \in Qualities
    <2>1. \A i \in 1..3 : Ranking(quality)[i] \in Qualities
      BY DEF Ranking, Qualities
    <2> DEFINE there == {i \in 1..3 : Ranking(quality)[i] \in available}
    <2>2. CASE there = {}
      BY <2>2 DEF Effective, Qualities
    <2>3. CASE there # {}
      <3>1. \E i \in there : \A j \in there : i <= j
        BY <2>3
      <3>2. (CHOOSE i \in there : \A j \in there : i <= j) \in 1..3
        BY <3>1
      <3> QED BY <2>1, <2>3, <3>2 DEF Effective
    <2> QED BY <2>2, <2>3
  <1>2. \A p : ProfileFor(p, wanted) \in Frozen
    BY <1>1 DEF ProfileFor, Frozen, PrefsRow
  <1> QED BY <1>2 DEF ProfilesFor, Frozen

LEMMA AdmitKeeps ==
  ASSUME MediaInv, Admit \/ RequestedAgain
  PROVE  media' \in MediaRow /\ MediaKnown' /\ SourceIsKept'
  <1>1. "admitted" \in MediaSteps
    BY DEF MediaSteps
  <1>2. CASE Admit
    <2>1. PICK q \in Profiles, exact \in BOOLEAN :
            LET wanted == IF exact /\ q # "AAC_128" THEN [prefs EXCEPT !.quality = Asked[q]]
                          ELSE prefs
            IN \E profile \in {NoProfile} \cup ProfilesFor(wanted) :
                 media' = [NoMedia EXCEPT !.pc = "admitted", !.q = q, !.profile = profile]
      BY <1>2, Zenon DEF Admit
    <2> DEFINE wanted == IF exact /\ q # "AAC_128" THEN [prefs EXCEPT !.quality = Asked[q]]
                         ELSE prefs
    <2>2. wanted.format \in Formats
      BY DEF MediaInv, PrefsTyped, PrefsRow
    <2> HIDE DEF wanted
    <2>3. PICK profile \in Frozen :
            media' = [NoMedia EXCEPT !.pc = "admitted", !.q = q, !.profile = profile]
      BY <2>1, <2>2, ProfilesAreFrozen DEF wanted
    <2>4. media' = [pc |-> "admitted", q |-> q, profile |-> profile,
                    plan |-> "none", source |-> "none", made |-> "none"]
      BY <2>3 DEF NoMedia
    <2>5. media' \in MediaRow
      BY <1>1, <2>4, Zenon DEF MediaRow
    <2> QED BY <2>4, <2>5 DEF MediaKnown, SourceIsKept, Admitted0, Planned, Fetched, Made
  <1>3. CASE RequestedAgain
    <2>1. PICK theirs \in PrefsRow : \E profile \in {NoProfile} \cup ProfilesFor(theirs) :
            media' = [media EXCEPT !.profile = profile]
      BY <1>3, Zenon DEF RequestedAgain, PrefsRow
    <2>2. theirs.format \in Formats
      BY DEF PrefsRow
    <2>3. PICK profile \in Frozen : media' = [media EXCEPT !.profile = profile]
      BY <2>1, <2>2, ProfilesAreFrozen
    <2>4. media \in MediaRow /\ media.pc = "admitted" /\ media.q \in Profiles
      BY <1>3 DEF RequestedAgain, MediaInv, MediaKnown, Admitted0
    <2>5. media' \in MediaRow /\ media'.pc = "admitted" /\ media'.q = media.q
      BY <2>3, <2>4 DEF MediaRow
    <2> QED BY <2>4, <2>5 DEF MediaKnown, SourceIsKept, Admitted0, Planned, Fetched, Made
  <1> QED BY <1>2, <1>3

(* NoMedia with another step.                                              *)
Without(pc) == [NoMedia EXCEPT !.pc = pc]

LEMMA NothingIsHeld ==
  ASSUME NEW pc \in {"idle", "failed"}, media' = Without(pc)
  PROVE  media' \in MediaRow /\ MediaKnown' /\ SourceIsKept'
  <1>1. media' = [pc |-> pc, q |-> "none", profile |-> NoProfile,
                  plan |-> "none", source |-> "none", made |-> "none"]
    BY DEF NoMedia, Without
  <1>2. pc \in MediaSteps /\ NoProfile \in Frozen
    BY DEF MediaSteps, Frozen
  <1>3. media' \in MediaRow
    BY <1>1, <1>2 DEF MediaRow
  <1> QED BY <1>1, <1>3 DEF MediaKnown, SourceIsKept, Admitted0, Planned, Fetched, Made

(* A plan that fits the quality asked for is written into the record.      *)
LEMMA PlannedKeeps ==
  ASSUME NEW plan \in PlanRow, media \in MediaRow, media.q \in Profiles,
         media' = [media EXCEPT !.pc = "planned", !.plan = plan],
         \/ plan.lossless
         \/ /\ media.q # "LOSSLESS"
            /\ plan.rate = Output[media.q].rate /\ plan.rate # NoRate
  PROVE  media' \in MediaRow /\ MediaKnown' /\ SourceIsKept'
  <1>1. media'.pc = "planned" /\ media'.plan = plan /\ media'.q = media.q
    BY DEF MediaRow
  <1>2. "planned" \in MediaSteps /\ plan \in PlanRow \cup {"none"}
    BY DEF MediaSteps
  <1>3. media' \in MediaRow
    BY <1>2 DEF MediaRow
  <1> QED BY <1>1, <1>3
          DEF MediaKnown, SourceIsKept, PlanIsKept, Admitted0, Planned, Fetched, Made

LEMMA PlanKeeps ==
  ASSUME MediaInv, Plan
  PROVE  media' \in MediaRow /\ MediaKnown' /\ SourceIsKept'
  <1>1. CASE media' = Without("failed")
    BY <1>1, NothingIsHeld
  <1>2. ASSUME NEW plan \in Resolved(media.q, media.profile),
               media' = [media EXCEPT !.pc = "planned", !.plan = plan]
        PROVE  media' \in MediaRow /\ MediaKnown' /\ SourceIsKept'
    <2>1. media \in MediaRow /\ media.q \in Profiles
      BY DEF Plan, MediaInv, MediaKnown, Admitted0
    <2>2. /\ media.q = "LOSSLESS" => Output[media.q].lossless = TRUE
          /\ media.q # "LOSSLESS" => /\ Output[media.q].lossless = FALSE
                                    /\ Output[media.q].rate # NoRate
      BY <2>1 DEF Output, Profiles, NoRate
    <2>3. PICK m \in UNION {Offers[p] \cup Actual : p \in DOMAIN Offers} :
            plan \in PlanFor(m, media.q)
      <3>1. PICK p \in DOMAIN Offers : plan \in PlansFor(p, media.q)
        BY DEF Resolved, Ranked
      <3> QED BY <3>1 DEF PlansFor
    <2>4. m.codec \in Codecs /\ m.rate \in Nat
      BY MediaAssumption DEF IsMedium
    <2>5. CASE Lossless(m)
      <3>1. plan = [direct |-> Output[media.q].lossless, lossless |-> TRUE, codec |-> "any",
                    rate |-> NoRate]
        BY <2>3, <2>5 DEF PlanFor
      <3>2. Output[media.q].lossless \in BOOLEAN
        BY <2>2
      <3>3. plan \in PlanRow /\ plan.lossless
        BY <3>1, <3>2 DEF PlanRow, NoRate
      <3> QED BY <3>3, <1>2, <2>1, PlannedKeeps
    <2>6. CASE ~Lossless(m)
      <3>1. /\ plan = [direct |-> TRUE, lossless |-> FALSE, codec |-> m.codec, rate |-> m.rate]
            /\ ~Output[media.q].lossless /\ m.rate = Output[media.q].rate
        BY <2>3, <2>6 DEF PlanFor
      <3>2. /\ plan \in PlanRow
            /\ media.q # "LOSSLESS" /\ plan.rate = Output[media.q].rate /\ plan.rate # NoRate
        BY <2>2, <2>4, <3>1 DEF PlanRow
      <3> QED BY <3>2, <1>2, <2>1, PlannedKeeps
    <2> QED BY <2>5, <2>6
  <1> QED BY <1>1, <1>2 DEF Plan, Without

LEMMA FetchKeeps ==
  ASSUME MediaInv, Fetch
  PROVE  media' \in MediaRow /\ MediaKnown' /\ SourceIsKept'
  <1>1. CASE media' = Without("failed")
    BY <1>1, NothingIsHeld
  <1>2. ASSUME NEW m \in Actual, NEW native \in BOOLEAN, NEW sent,
               sent = [codec |-> m.codec, container |-> m.container, rate |-> m.rate,
                       native |-> native],
               Satisfies(sent, media.plan),
               media' = [media EXCEPT !.pc = "fetched", !.source = sent]
        PROVE  media' \in MediaRow /\ MediaKnown' /\ SourceIsKept'
    <2>1. /\ media \in MediaRow /\ media.q \in Profiles
          /\ media.plan \in PlanRow /\ PlanIsKept(media)
      BY DEF Fetch, MediaInv, MediaKnown, SourceIsKept, Admitted0, Planned
    <2>2. m.codec \in Codecs /\ m.rate \in Nat /\ m.container \in Containers
      BY MediaAssumption DEF IsMedium, Medium, ContainerOf, Codecs, Containers
    <2>3. /\ sent \in SourceRow
          /\ IF media.plan.lossless THEN Lossless(sent)
             ELSE Near(sent.rate, media.plan.rate, 8, 5)
      <3>1. sent \in SourceRow
        BY <1>2, <2>2 DEF SourceRow
      <3>2. CASE media.plan.lossless
        BY <1>2, <3>1, <3>2 DEF Satisfies
      <3>3. CASE ~media.plan.lossless
        <4>1. media.plan.rate # NoRate
          BY <2>1, <3>3 DEF PlanIsKept
        <4> QED BY <1>2, <3>1, <3>3, <4>1 DEF Satisfies
      <3> QED BY <3>2, <3>3
    <2>4. /\ media'.pc = "fetched" /\ media'.source = sent /\ media'.plan = media.plan
          /\ media'.q = media.q
      BY <1>2, <2>1 DEF MediaRow
    <2>5. media' \in MediaRow
      <3>1. "fetched" \in MediaSteps /\ sent \in SourceRow \cup {"none"}
        BY <2>3 DEF MediaSteps
      <3> QED BY <1>2, <2>1, <3>1 DEF MediaRow
    <2>6. PlanIsKept(media)'
      BY <2>1, <2>4 DEF PlanIsKept
    <2> QED BY <2>1, <2>3, <2>4, <2>5, <2>6
            DEF MediaKnown, SourceIsKept, Admitted0, Planned, Fetched, Made
  <1> QED BY <1>1, <1>2 DEF Fetch, Without

LEMMA ExecuteKeeps ==
  ASSUME MediaInv, Execute
  PROVE  media' \in MediaRow /\ MediaKnown' /\ SourceIsKept'
  <1>1. /\ media \in MediaRow /\ media.q \in Profiles
        /\ media.plan \in PlanRow /\ PlanIsKept(media)
        /\ media.source \in SourceRow
        /\ IF media.plan.lossless THEN Lossless(media.source)
           ELSE Near(media.source.rate, media.plan.rate, 8, 5)
        /\ media.profile \in Frozen
    BY DEF Execute, MediaInv, MediaRow, MediaKnown, SourceIsKept, Admitted0, Planned, Fetched
  <1>2. CASE media' = Without("failed")
    BY <1>2, NothingIsHeld
  <1>3. ASSUME NEW made \in MadeRow,
               media' = [media EXCEPT !.pc = "made", !.made = made],
               Lossless(media.source) \/ Untouched(made, media.source) \/ made.codec = "flac",
               made.lossless => made.codec = "flac"
        PROVE  media' \in MediaRow /\ MediaKnown' /\ SourceIsKept'
    <2>1. /\ media'.pc = "made" /\ media'.source = media.source /\ media'.plan = media.plan
          /\ media'.q = media.q /\ media'.made = made
      BY <1>1, <1>3 DEF MediaRow
    <2>2. media' \in MediaRow
      <3>1. "made" \in MediaSteps /\ made \in MadeRow \cup {"none"}
        BY DEF MediaSteps
      <3> QED BY <1>1, <1>3, <3>1 DEF MediaRow
    <2>3. PlanIsKept(media)'
      BY <1>1, <2>1 DEF PlanIsKept
    <2> QED BY <1>1, <1>3, <2>1, <2>2, <2>3
            DEF MediaKnown, SourceIsKept, Admitted0, Planned, Fetched, Made
  <1>4. CASE ~Converts
    <2> DEFINE made == [codec |-> media.source.codec, container |-> media.source.container,
                        rate |-> media.source.rate, lossless |-> Lossless(media.source)]
    <2>1. media' = [media EXCEPT !.pc = "made", !.made = made]
      BY <1>4 DEF Execute
    <2>2. /\ made \in MadeRow /\ Untouched(made, media.source)
          /\ made.lossless => made.codec = "flac"
      BY <1>1 DEF SourceRow, MadeRow, Lossless, Untouched
    <2> HIDE DEF made
    <2> QED BY <1>3, <2>1, <2>2
  <1>5. CASE Converts /\ MayConvert
    <2> DEFINE made == [codec |-> Wanted.codec, container |-> Wanted.container,
                        rate |-> Wanted.rate,
                        lossless |-> Wanted.codec = "flac" /\ media.plan.direct]
    <2>1. media' = [media EXCEPT !.pc = "made", !.made = made]
      BY <1>5 DEF Execute
    <2>2. /\ Wanted.codec \in Codecs \cup {"any"} /\ Wanted.container \in Containers
          /\ Wanted.rate \in Nat
      <3>1. /\ Output[media.q].codec \in Codecs \cup {"any"}
            /\ Output[media.q].container \in Containers /\ Output[media.q].rate \in Nat
        BY <1>1 DEF Output, Profiles, Codecs, NoRate, Containers
      <3> QED BY <3>1 DEF Wanted, Codecs, NoRate, Containers
    <2>3. made \in MadeRow /\ (made.lossless => made.codec = "flac")
      BY <2>2 DEF MadeRow
    <2>4. Lossless(media.source) \/ made.codec = "flac"
      BY <1>5 DEF MayConvert, Wanted
    <2> HIDE DEF made
    <2> QED BY <1>3, <2>1, <2>3, <2>4
  <1>6. CASE Converts /\ ~MayConvert
    BY <1>2, <1>6 DEF Execute, Without
  <1> QED BY <1>4, <1>5, <1>6

LEMMA EndKeeps ==
  ASSUME MediaInv, Validate \/ NextDownload
  PROVE  media' \in MediaRow /\ MediaKnown' /\ SourceIsKept'
  <1>1. CASE NextDownload
    BY <1>1, NothingIsHeld DEF NextDownload, NoMedia, Without
  <1>2. CASE Validate
    <2> DEFINE pc == IF MeetsPlan THEN "valid" ELSE "rejected"
    <2>1. media \in MediaRow /\ media.pc = "made" /\ media' = [media EXCEPT !.pc = pc]
      BY <1>2 DEF Validate, MediaInv
    <2>2. /\ media'.pc = pc /\ media'.source = media.source /\ media'.plan = media.plan
          /\ media'.q = media.q /\ media'.made = media.made
      BY <2>1 DEF MediaRow
    <2>3. media' \in MediaRow
      <3>1. pc \in MediaSteps
        BY DEF MediaSteps
      <3> QED BY <2>1, <3>1 DEF MediaRow
    <2>4. MeetsPlan' <=> MeetsPlan
      BY <2>2 DEF MeetsPlan, Meets
    <2>5. MediaKnown'
      BY <2>1, <2>2 DEF MediaInv, MediaKnown, Admitted0, Planned, Fetched, Made
    <2>6. PlanIsKept(media)' <=> PlanIsKept(media)
      BY <2>2 DEF PlanIsKept
    <2>7. SourceIsKept'
      BY <2>1, <2>2, <2>4, <2>6 DEF MediaInv, SourceIsKept, Admitted0, Planned, Fetched, Made
    <2> QED BY <2>3, <2>5, <2>7
  <1> QED BY <1>1, <1>2

(* Every step keeps the invariant.                                         *)
LEMMA MediaStep ==
  ASSUME MediaInv, [MediaNext]_mediaVars
  PROVE  MediaInv'
  <1>1. CASE UNCHANGED mediaVars
    BY <1>1 DEF mediaVars, MediaInv, PrefsTyped, PrefsAreValid, PressesTyped, MediaKnown,
                SourceIsKept, MeetsPlan
  <1>2. ASSUME NEW e \in Editor, ReadPrefs(e) \/ WritePrefs(e)
        PROVE  MediaInv'
    <2>1. PrefsTyped' /\ PrefsAreValid' /\ PressesTyped' /\ media' = media
      BY <1>2, SettingsKeep DEF ReadPrefs, WritePrefs
    <2> QED BY <2>1 DEF MediaInv, MediaKnown, SourceIsKept, MeetsPlan
  <1>3. CASE ResetPrefs
    <2>1. PrefsTyped' /\ PrefsAreValid' /\ PressesTyped' /\ media' = media
      BY <1>3 DEF ResetPrefs, DefaultPrefs, PrefsTyped, PrefsAreValid, PrefsRow, Valid,
                  PressesTyped, Qualities, Formats, MediaInv
    <2> QED BY <2>1 DEF MediaInv, MediaKnown, SourceIsKept, MeetsPlan
  <1>4. CASE Admit \/ RequestedAgain \/ Plan \/ Fetch \/ Execute \/ Validate \/ NextDownload
    <2>1. media' \in MediaRow /\ MediaKnown' /\ SourceIsKept'
      BY <1>4, AdmitKeeps, PlanKeeps, FetchKeeps, ExecuteKeeps, EndKeeps
    <2>2. UNCHANGED <<prefs, edit>>
      BY <1>4 DEF Admit, RequestedAgain, Plan, Fetch, Execute, Validate, NextDownload
    <2> QED BY <2>1, <2>2 DEF MediaInv, PrefsTyped, PrefsAreValid, PressesTyped
  <1> QED BY <1>1, <1>2, <1>3, <1>4 DEF MediaNext

-----------------------------------------------------------------------------
(* One job over its candidates and accounts.                               *)

RunSteps == {"idle", "candidate", "choose", "start", "download", "finish", "health",
             "returned", "raised"}
Answers == FailureCodes \cup {"OK", "NONE", "NO_AVAILABLE_PROVIDER", "PROVIDER_TEMPORARY",
                              "INTERNAL"}
RunRow ==
  [pc : RunSteps, ranked : Seq(MediaSource), at : Nat, held : SUBSET Account,
   tried : SUBSET (Account \cup {NoAccount}), account : Account \cup {NoAccount},
   code : Answers, temporary : BOOLEAN]
AttemptRow ==
  [candidate : Nat, account : Account \cup {NoAccount},
   status : {"STARTED", "SUCCEEDED", "FAILED"}]
HealthRow ==
  [state : {"HEALTHY", "DEGRADED", "COOLDOWN", "AUTH_FAILED"}, cooling : BOOLEAN]

Busy == {"candidate", "choose", "start", "download", "finish", "health"}
InAttempt == {"download", "finish", "health", "returned"}

(* The status of the last row of a job in an attempt, or just out of it.   *)
LastStatus(r) ==
  IF r.pc \in {"download", "finish"} THEN "STARTED"
  ELSE IF r.pc = "returned" \/ r.code = "OK" THEN "SUCCEEDED" ELSE "FAILED"

(* Every row before it is closed as failed.                                *)
RowsTold(r, rows) ==
  /\ r.pc \in InAttempt => Len(rows) > 0 /\ rows[Len(rows)].status = LastStatus(r)
  /\ \A i \in 1..Len(rows) :
       i < Len(rows) \/ r.pc \notin InAttempt => rows[i].status = "FAILED"

(* The accounts of the present candidate's rows are among those tried, and *)
(* the one that was just chosen has no row for it.                         *)
RowsApart(r, rows) ==
  /\ \A i \in 1..Len(rows) :
       /\ rows[i].candidate <= r.at
       /\ rows[i].candidate = r.at => rows[i].account \in r.tried
       /\ rows[i].candidate = r.at /\ r.pc = "start" => rows[i].account # r.account
  /\ \A i, j \in 1..Len(rows) :
       i # j => ~(rows[i].candidate = rows[j].candidate /\ rows[i].account = rows[j].account)

RunKnown(r, rows) ==
  /\ r.at <= Len(r.ranked)
  /\ r.pc = "idle" => rows = <<>>
  /\ r.pc = "candidate" => r.tried = {}
  /\ r.pc = "start" => r.account \in r.tried
  /\ r.pc \in Busy => r.at > 0

JobSound(r, rows) ==
  r \in RunRow /\ rows \in Seq(AttemptRow) /\ RowsTold(r, rows) /\ RowsApart(r, rows)
  /\ RunKnown(r, rows)

ExecInv ==
  /\ run = [d \in Download |-> run[d]] /\ audit = [d \in Download |-> audit[d]]
  /\ \A d \in Download : JobSound(run[d], audit[d])
  /\ health \in [Account -> HealthRow] /\ latest \in 0..MaxRecords

LEMMA NoRunTyped == NoRun \in RunRow
  <1>1. <<>> \in Seq(MediaSource) /\ {} \in SUBSET Account
        /\ {} \in SUBSET (Account \cup {NoAccount})
    OBVIOUS
  <1>2. "idle" \in RunSteps /\ "NONE" \in Answers
    BY DEF RunSteps, Answers
  <1> QED BY <1>1, <1>2 DEF NoRun, RunRow

LEMMA NoRunSound == JobSound(NoRun, <<>>)
  <1>1. NoRun \in RunRow /\ <<>> \in Seq(AttemptRow) /\ Len(<<>>) = 0
    BY NoRunTyped
  <1>2. NoRun.pc = "idle" /\ NoRun.at = 0 /\ Len(NoRun.ranked) = 0
    BY DEF NoRun
  <1> QED BY <1>1, <1>2 DEF JobSound, RowsTold, RowsApart, RunKnown, InAttempt, Busy

(* The initial states.                                                     *)
LEMMA ExecStart == ASSUME ExecInit PROVE ExecInv
  <1>1. NewHealth \in HealthRow
    BY DEF NewHealth, HealthRow
  <1> QED BY <1>1, NoRunSound, ExecutionAssumption DEF ExecInit, ExecInv

(* The invariant is at least what the runs check.                          *)
LEMMA ExecPromises ==
  ASSUME ExecInv
  PROVE  ExecTypeOK /\ AuditIsComplete /\ AccountTriedOnce
  <1>1. ASSUME NEW d \in Download
        PROVE  /\ run[d] \in RunRow /\ audit[d] \in Seq(AttemptRow)
               /\ RowsTold(run[d], audit[d]) /\ RowsApart(run[d], audit[d])
               /\ run[d].at <= Len(run[d].ranked)
    BY <1>1 DEF ExecInv, JobSound, RunKnown
  <1>2. ExecTypeOK
    <2>1. ASSUME NEW d \in Download
          PROVE  /\ run[d].ranked \in Seq(MediaSource) /\ run[d].at \in 0..Len(run[d].ranked)
                 /\ run[d].held \subseteq Account
                 /\ run[d].tried \subseteq Account \cup {NoAccount}
                 /\ \A i \in 1..Len(audit[d]) :
                      audit[d][i].status \in {"STARTED", "SUCCEEDED", "FAILED"}
      <3>1. run[d].ranked \in Seq(MediaSource) /\ run[d].at \in Nat
            /\ run[d].held \subseteq Account /\ run[d].tried \subseteq Account \cup {NoAccount}
        BY <1>1 DEF RunRow
      <3>2. run[d].at \in 0..Len(run[d].ranked)
        BY <1>1, <3>1
      <3>3. \A i \in 1..Len(audit[d]) : audit[d][i] \in AttemptRow
        BY <1>1
      <3> QED BY <3>1, <3>2, <3>3 DEF AttemptRow
    <2>2. \A a \in Account : /\ health[a].state \in {"HEALTHY", "DEGRADED", "COOLDOWN",
                                                      "AUTH_FAILED"}
                             /\ health[a].cooling \in BOOLEAN
      BY DEF ExecInv, HealthRow
    <2> QED BY <2>1, <2>2 DEF ExecTypeOK, ExecInv
  <1>3. AuditIsComplete
    <2> SUFFICES ASSUME NEW d \in Download, NEW rows, rows = audit[d]
                 PROVE  LET Rows(status) == {i \in 1..Len(rows) : rows[i].status = status}
                        IN /\ run[d].pc = "returned" =>
                                Rows("SUCCEEDED") = {Len(rows)} /\ Rows("STARTED") = {}
                           /\ run[d].pc = "raised" => Rows("FAILED") = 1..Len(rows)
                           /\ run[d].pc \in {"download", "finish"} =>
                                Rows("STARTED") = {Len(rows)}
                           /\ run[d].pc \in {"candidate", "choose", "start"} =>
                                Rows("STARTED") = {}
      BY DEF AuditIsComplete
    <2>1. /\ Len(rows) \in Nat /\ rows \in Seq(AttemptRow)
          /\ run[d].pc \in InAttempt => Len(rows) > 0 /\ rows[Len(rows)].status = LastStatus(run[d])
          /\ \A i \in 1..Len(rows) :
               i < Len(rows) \/ run[d].pc \notin InAttempt => rows[i].status = "FAILED"
      BY <1>1 DEF RowsTold
    <2> QED BY <2>1 DEF InAttempt, LastStatus
  <1>4. AccountTriedOnce
    BY <1>1 DEF AccountTriedOnce, RowsApart
  <1> QED BY <1>2, <1>3, <1>4

-----------------------------------------------------------------------------
(* One job moves.                                                          *)

LEMMA JobMoves ==
  ASSUME ExecInv, NEW d \in Download, NEW r, NEW rows, JobSound(r, rows),
         run' = [run EXCEPT ![d] = r], audit' = [audit EXCEPT ![d] = rows],
         health' \in [Account -> HealthRow], latest' = latest
  PROVE  ExecInv'
  BY DEF ExecInv

(* A job that moves on without a change of its rows.                       *)
LEMMA QuietMove ==
  ASSUME NEW old, NEW rows, JobSound(old, rows), NEW r \in RunRow,
         r.ranked = old.ranked, r.at = old.at, old.tried \subseteq r.tried,
         r.pc \notin {"idle", "candidate", "start"}, r.pc \in Busy => old.pc \in Busy,
         \/ r.pc \notin InAttempt /\ old.pc \notin InAttempt
         \/ r.pc \notin InAttempt /\ old.pc = "health" /\ old.code # "OK"
         \/ r.pc \in InAttempt /\ old.pc \in InAttempt /\ LastStatus(r) = LastStatus(old)
  PROVE  JobSound(r, rows)
  <1>1. rows \in Seq(AttemptRow) /\ Len(rows) \in Nat /\ old \in RunRow
    BY DEF JobSound
  <1>2. RowsTold(r, rows)
    <2>1. RowsTold(old, rows)
      BY DEF JobSound
    <2>2. CASE r.pc \notin InAttempt /\ old.pc = "health" /\ old.code # "OK"
      <3>1. rows[Len(rows)].status = "FAILED"
        BY <2>1, <2>2 DEF RowsTold, InAttempt, LastStatus
      <3>2. \A i \in 1..Len(rows) : i < Len(rows) \/ i = Len(rows)
        BY <1>1
      <3> QED BY <2>1, <2>2, <3>1, <3>2 DEF RowsTold
    <2> QED BY <2>1, <2>2 DEF RowsTold
  <1>3. RowsApart(r, rows)
    BY DEF JobSound, RowsApart
  <1>4. RunKnown(r, rows)
    BY DEF JobSound, RunKnown
  <1> QED BY <1>1, <1>2, <1>3, <1>4 DEF JobSound

(* The next candidate, or the error when there is none.                    *)
LEMMA NextIsSound ==
  ASSUME NEW r, NEW rows, JobSound(r, rows), r.at > 0,
         r.pc = "choose" \/ (r.pc = "health" /\ r.code # "OK")
  PROVE  JobSound(NextCandidate(r), rows)
  <1>1. r \in RunRow /\ rows \in Seq(AttemptRow) /\ Len(rows) \in Nat /\ r.at \in Nat
        /\ r.at <= Len(r.ranked) /\ Len(r.ranked) \in Nat
    BY DEF JobSound, RunKnown, RunRow
  <1>2. CASE r.at = Len(r.ranked)
    <2> DEFINE code == IF r.temporary THEN "PROVIDER_TEMPORARY"
                       ELSE IF r.code = "NONE" THEN "NO_AVAILABLE_PROVIDER" ELSE r.code
               new == [r EXCEPT !.pc = "raised", !.code = code]
    <2>1. code \in Answers /\ "raised" \in RunSteps
      BY <1>1 DEF Answers, RunSteps, RunRow
    <2> HIDE DEF code
    <2>2. new \in RunRow /\ new.pc = "raised" /\ new.ranked = r.ranked /\ new.at = r.at
          /\ new.tried = r.tried
      BY <1>1, <2>1 DEF RunRow
    <2>3. NextCandidate(r) = new
      BY <1>2 DEF NextCandidate, Exhausted, code
    <2> HIDE DEF new
    <2> QED BY <2>2, <2>3, QuietMove DEF InAttempt, Busy
  <1>3. CASE r.at # Len(r.ranked)
    <2> DEFINE new == [r EXCEPT !.pc = "candidate", !.at = @ + 1, !.held = {}, !.tried = {},
                                !.account = NoAccount]
    <2>1. NextCandidate(r) = new
      BY <1>3 DEF NextCandidate
    <2>2. "candidate" \in RunSteps /\ r.at + 1 \in Nat
      BY <1>1 DEF RunSteps
    <2>3. new \in RunRow
      BY <1>1, <2>2 DEF RunRow
    <2>4. new.pc = "candidate" /\ new.at = r.at + 1 /\ new.tried = {} /\ new.ranked = r.ranked
      BY <1>1 DEF RunRow
    <2> HIDE DEF new
    <2>5. RowsTold(new, rows)
      <3>1. RowsTold(r, rows)
        BY DEF JobSound
      <3>2. \A i \in 1..Len(rows) : i < Len(rows) \/ i = Len(rows)
        BY <1>1
      <3>3. r.pc = "health" => rows[Len(rows)].status = "FAILED"
        BY <3>1 DEF RowsTold, InAttempt, LastStatus
      <3> QED BY <2>4, <3>1, <3>2, <3>3 DEF RowsTold, InAttempt
    <2>6. RowsApart(new, rows)
      <3>0. \A i \in 1..Len(rows) : rows[i] \in AttemptRow
        BY <1>1
      <3>1. \A i \in 1..Len(rows) : rows[i].candidate <= r.at /\ rows[i].candidate \in Nat
        BY <3>0 DEF JobSound, RowsApart, AttemptRow
      <3>2. \A i \in 1..Len(rows) : rows[i].candidate <= new.at /\ rows[i].candidate # new.at
        BY <1>1, <2>4, <3>1
      <3> QED BY <2>4, <3>2 DEF JobSound, RowsApart
    <2>7. RunKnown(new, rows)
      BY <1>1, <1>3, <2>4 DEF RunKnown
    <2> QED BY <1>1, <2>1, <2>3, <2>5, <2>6, <2>7 DEF JobSound
  <1> QED BY <1>2, <1>3

(* The step that leaves the attempt, by what the fallback decides.         *)
LEMMA AfterIsSound ==
  ASSUME NEW d \in Download, JobSound(run[d], audit[d]), run[d].pc = "health"
  PROVE  JobSound(After(d), audit[d])
  <1> DEFINE r == run[d]
  <1>1. r \in RunRow /\ r.at > 0
    BY DEF JobSound, RunKnown, Busy
  <1>2. ASSUME NEW pc \in {"returned", "choose", "raised"}, NEW account \in Account \cup {NoAccount},
               NEW new, new = [r EXCEPT !.pc = pc, !.account = account],
               pc = "returned" <=> r.code = "OK"
        PROVE  JobSound(new, audit[d])
    <2>1. /\ new \in RunRow /\ new.pc = pc /\ new.ranked = r.ranked /\ new.at = r.at
          /\ new.tried = r.tried /\ new.code = r.code
      <3>1. pc \in RunSteps
        BY DEF RunSteps
      <3> QED BY <1>1, <1>2, <3>1 DEF RunRow
    <2> HIDE DEF r
    <2>2. r.pc = "health" /\ JobSound(r, audit[d])
      BY DEF r
    <2>3. pc = "returned" => LastStatus(new) = LastStatus(r)
      BY <1>2, <2>1, <2>2 DEF LastStatus
    <2> QED BY <1>2, <2>1, <2>2, <2>3, QuietMove DEF InAttempt, Busy
  <1>3. r.account \in Account \cup {NoAccount}
    BY <1>1 DEF RunRow
  <1>4. CASE r.code = "OK"
    <2>1. After(d) = [r EXCEPT !.pc = "returned", !.account = r.account]
      BY <1>1, <1>4 DEF After, RunRow
    <2> QED BY <1>2, <1>3, <1>4, <2>1
  <1>5. CASE r.code # "OK" /\ Decision(d) = "NEXT_ACCOUNT"
    <2>1. After(d) = [r EXCEPT !.pc = "choose", !.account = NoAccount]
      BY <1>5 DEF After
    <2> QED BY <1>2, <1>5, <2>1
  <1>6. CASE r.code # "OK" /\ Decision(d) = "NEXT_PROVIDER"
    <2>1. After(d) = NextCandidate(r)
      BY <1>6 DEF After
    <2> QED BY <1>1, <1>6, <2>1, NextIsSound
  <1>7. CASE r.code # "OK" /\ Decision(d) \notin {"NEXT_ACCOUNT", "NEXT_PROVIDER"}
    <2>1. After(d) = [r EXCEPT !.pc = "raised", !.account = r.account]
      BY <1>1, <1>7 DEF After, RunRow
    <2> QED BY <1>2, <1>3, <1>7, <2>1
  <1> QED BY <1>4, <1>5, <1>6, <1>7

LEMMA IdentifyKeeps ==
  ASSUME ExecInv, NEW d \in Download, Identify(d)
  PROVE  ExecInv'
  <1>1. PICK ranked \in Rankings :
          run' = [run EXCEPT ![d] =
                    IF ranked = <<>> \/ latest = 0
                    THEN [[NoRun EXCEPT !.ranked = ranked] EXCEPT
                            !.pc = "raised", !.code = "NO_AVAILABLE_PROVIDER"]
                    ELSE [[NoRun EXCEPT !.ranked = ranked] EXCEPT !.pc = "candidate", !.at = 1]]
    BY DEF Identify, Set
  <1>2. audit[d] = <<>> /\ audit' = audit /\ health' = health /\ latest' = latest
    BY DEF Identify, ExecInv, JobSound, RunKnown
  <1>3. ranked \in Seq(MediaSource) /\ Len(ranked) \in Nat /\ (ranked # <<>> => 1 <= Len(ranked))
    BY ExecutionAssumption
  <1> DEFINE fresh == [NoRun EXCEPT !.ranked = ranked]
             raised == [fresh EXCEPT !.pc = "raised", !.code = "NO_AVAILABLE_PROVIDER"]
             begun == [fresh EXCEPT !.pc = "candidate", !.at = 1]
             r == IF ranked = <<>> \/ latest = 0 THEN raised ELSE begun
  <1>4. fresh \in RunRow /\ fresh.ranked = ranked /\ fresh.at = 0 /\ fresh.tried = {}
    <2>1. NoRun.at = 0 /\ NoRun.tried = {}
      BY DEF NoRun
    <2> QED BY <1>3, <2>1, NoRunTyped DEF RunRow
  <1> HIDE DEF fresh
  <1>5. raised \in RunRow /\ raised.pc = "raised" /\ raised.ranked = ranked /\ raised.at = 0
    <2>1. "raised" \in RunSteps /\ "NO_AVAILABLE_PROVIDER" \in Answers
      BY DEF RunSteps, Answers
    <2> QED BY <1>4, <2>1 DEF RunRow
  <1>6. /\ begun \in RunRow /\ begun.pc = "candidate" /\ begun.ranked = ranked /\ begun.at = 1
        /\ begun.tried = {}
    <2>1. "candidate" \in RunSteps
      BY DEF RunSteps
    <2> QED BY <1>4, <2>1 DEF RunRow
  <1>7. <<>> \in Seq(AttemptRow) /\ Len(<<>>) = 0
    OBVIOUS
  <1> HIDE DEF raised, begun
  <1>8. JobSound(raised, <<>>)
    BY <1>3, <1>5, <1>7 DEF JobSound, RowsTold, RowsApart, RunKnown, InAttempt, Busy
  <1>9. ranked # <<>> => JobSound(begun, <<>>)
    BY <1>3, <1>6, <1>7 DEF JobSound, RowsTold, RowsApart, RunKnown, InAttempt, Busy
  <1>10. run' = [run EXCEPT ![d] = r] /\ JobSound(r, <<>>)
    BY <1>1, <1>8, <1>9 DEF raised, begun, fresh
  <1> HIDE DEF r
  <1>11. audit' = [audit EXCEPT ![d] = <<>>]
    BY <1>2 DEF ExecInv
  <1>12. health' \in [Account -> HealthRow] /\ latest' = latest
    BY <1>2 DEF ExecInv
  <1> QED BY <1>10, <1>11, <1>12, JobMoves

LEMMA ListKeeps ==
  ASSUME ExecInv, NEW d \in Download, ListAccounts(d)
  PROVE  ExecInv'
  <1> DEFINE r == run[d]
  <1>1. /\ JobSound(r, audit[d]) /\ r \in RunRow /\ r.pc = "candidate" /\ r.tried = {}
        /\ audit' = [audit EXCEPT ![d] = audit[d]] /\ health' \in [Account -> HealthRow]
        /\ latest' = latest
    BY DEF ExecInv, JobSound, RunKnown, ListAccounts
  <1>2. CASE Set(d, [r EXCEPT !.pc = "choose", !.held = Held(Current(d)), !.tried = {}])
    <2> DEFINE new == [r EXCEPT !.pc = "choose", !.held = Held(Current(d)), !.tried = {}]
    <2>1. Held(Current(d)) \in SUBSET Account /\ "choose" \in RunSteps
          /\ {} \in SUBSET (Account \cup {NoAccount})
      BY DEF Held, RunSteps
    <2>2. /\ new \in RunRow /\ new.pc = "choose" /\ new.ranked = r.ranked /\ new.at = r.at
          /\ new.tried = {}
      BY <1>1, <2>1 DEF RunRow
    <2>3. run' = [run EXCEPT ![d] = new]
      BY <1>2 DEF Set
    <2> HIDE DEF new, r
    <2>4. JobSound(new, audit[d])
      BY <1>1, <2>2, QuietMove DEF InAttempt, Busy
    <2> QED BY <1>1, <2>3, <2>4, JobMoves
  <1>3. CASE Set(d, [r EXCEPT !.pc = "raised", !.code = "INTERNAL"])
    <2> DEFINE new == [r EXCEPT !.pc = "raised", !.code = "INTERNAL"]
    <2>1. "raised" \in RunSteps /\ "INTERNAL" \in Answers
      BY DEF RunSteps, Answers
    <2>2. /\ new \in RunRow /\ new.pc = "raised" /\ new.ranked = r.ranked /\ new.at = r.at
          /\ new.tried = r.tried
      BY <1>1, <2>1 DEF RunRow
    <2>3. run' = [run EXCEPT ![d] = new]
      BY <1>3 DEF Set
    <2> HIDE DEF new, r
    <2>4. JobSound(new, audit[d])
      BY <1>1, <2>2, QuietMove DEF InAttempt, Busy
    <2> QED BY <1>1, <2>3, <2>4, JobMoves
  <1> QED BY <1>2, <1>3 DEF ListAccounts

LEMMA ChooseKeeps ==
  ASSUME ExecInv, NEW d \in Download, ChooseAccount(d)
  PROVE  ExecInv'
  <1> DEFINE r == run[d]
  <1>1. /\ JobSound(r, audit[d]) /\ r \in RunRow /\ r.pc = "choose" /\ r.at > 0
        /\ audit' = [audit EXCEPT ![d] = audit[d]] /\ health' \in [Account -> HealthRow]
        /\ latest' = latest
    BY DEF ExecInv, JobSound, RunKnown, ChooseAccount, Busy
  <1>2. ASSUME NEW a \in Eligible(d),
               Set(d, [r EXCEPT !.pc = "start", !.account = a, !.tried = @ \cup {a}])
        PROVE  ExecInv'
    <2> DEFINE new == [r EXCEPT !.pc = "start", !.account = a, !.tried = @ \cup {a}]
    <2>1. a \notin r.tried /\ a \in Account \cup {NoAccount}
      BY <1>1, <1>2 DEF Eligible, Untried, RunRow
    <2>2. "start" \in RunSteps /\ r.tried \cup {a} \in SUBSET (Account \cup {NoAccount})
      BY <1>1, <2>1 DEF RunSteps, RunRow
    <2>3. /\ new \in RunRow /\ new.pc = "start" /\ new.ranked = r.ranked /\ new.at = r.at
          /\ new.tried = r.tried \cup {a} /\ new.account = a
      BY <1>1, <2>1, <2>2 DEF RunRow
    <2>4. run' = [run EXCEPT ![d] = new]
      BY <1>2 DEF Set
    <2> HIDE DEF new, r
    <2>5. JobSound(new, audit[d])
      <3>1. RowsTold(new, audit[d])
        BY <1>1, <2>3 DEF JobSound, RowsTold, InAttempt
      <3>2. RowsApart(new, audit[d])
        BY <1>1, <2>1, <2>3 DEF JobSound, RowsApart
      <3>3. RunKnown(new, audit[d])
        BY <1>1, <2>3 DEF JobSound, RunKnown
      <3> QED BY <1>1, <2>3, <3>1, <3>2, <3>3 DEF JobSound
    <2> QED BY <1>1, <2>4, <2>5, JobMoves
  <1>3. CASE Set(d, NextCandidate(r))
    <2>1. run' = [run EXCEPT ![d] = NextCandidate(r)]
      BY <1>3 DEF Set
    <2> HIDE DEF r
    <2>2. JobSound(NextCandidate(r), audit[d])
      BY <1>1, NextIsSound
    <2> QED BY <1>1, <2>1, <2>2, JobMoves
  <1> QED BY <1>2, <1>3 DEF ChooseAccount

LEMMA AttemptStarts ==
  ASSUME ExecInv, NEW d \in Download, StartAttempt(d)
  PROVE  ExecInv'
  <1> DEFINE r == run[d]
             old == audit[d]
             rec == [candidate |-> r.at, account |-> r.account, status |-> "STARTED"]
             rows == Append(old, rec)
             new == [r EXCEPT !.pc = "download"]
  <1>1. /\ JobSound(r, old) /\ r \in RunRow /\ r.pc = "start" /\ r.at > 0 /\ r.at \in Nat
        /\ r.account \in r.tried /\ r.account \in Account \cup {NoAccount}
        /\ old \in Seq(AttemptRow) /\ health' \in [Account -> HealthRow] /\ latest' = latest
    BY DEF ExecInv, JobSound, RunKnown, StartAttempt, Busy, RunRow
  <1>2. run' = [run EXCEPT ![d] = new] /\ audit' = [audit EXCEPT ![d] = rows]
    BY DEF StartAttempt, Set, ExecInv
  <1>3. /\ new \in RunRow /\ new.pc = "download" /\ new.ranked = r.ranked /\ new.at = r.at
        /\ new.tried = r.tried
    <2>1. "download" \in RunSteps
      BY DEF RunSteps
    <2> QED BY <1>1, <2>1 DEF RunRow
  <1>4. rec \in AttemptRow /\ rec.status = "STARTED" /\ rec.candidate = r.at
        /\ rec.account = r.account
    BY <1>1 DEF AttemptRow
  <1> HIDE DEF rec, new, r, old
  <1>5. /\ rows \in Seq(AttemptRow) /\ Len(rows) = Len(old) + 1 /\ Len(old) \in Nat
        /\ rows[Len(rows)] = rec /\ \A i \in 1..Len(old) : rows[i] = old[i]
    BY <1>1, <1>4
  <1> HIDE DEF rows
  <1>6. \A i \in 1..Len(rows) : i \in 1..Len(old) \/ i = Len(rows)
    BY <1>5
  <1>7. RowsTold(new, rows)
    <2>1. Len(rows) > 0 /\ rows[Len(rows)].status = LastStatus(new)
      BY <1>3, <1>4, <1>5 DEF LastStatus
    <2>2. \A i \in 1..Len(old) : old[i].status = "FAILED"
      BY <1>1 DEF JobSound, RowsTold, InAttempt
    <2>3. new.pc \in InAttempt
      BY <1>3 DEF InAttempt
    <2> QED BY <1>5, <1>6, <2>1, <2>2, <2>3 DEF RowsTold
  <1>8. RowsApart(new, rows)
    <2>1. RowsApart(r, old)
      BY <1>1 DEF JobSound
    <2>2. \A i \in 1..Len(old) :
            ~(rows[i].candidate = rec.candidate /\ rows[i].account = rec.account)
      BY <1>1, <1>4, <1>5, <2>1 DEF RowsApart
    <2>3. \A i, j \in 1..Len(rows) :
            i # j => ~(rows[i].candidate = rows[j].candidate
                       /\ rows[i].account = rows[j].account)
      BY <1>5, <1>6, <2>1, <2>2 DEF RowsApart
    <2>4. \A i \in 1..Len(rows) :
            /\ rows[i].candidate <= new.at
            /\ rows[i].candidate = new.at => rows[i].account \in new.tried
      BY <1>1, <1>3, <1>4, <1>5, <1>6, <2>1 DEF RowsApart
    <2> QED BY <1>3, <2>3, <2>4 DEF RowsApart
  <1>9. RunKnown(new, rows)
    BY <1>1, <1>3 DEF JobSound, RunKnown
  <1> QED BY <1>1, <1>2, <1>3, <1>5, <1>7, <1>8, <1>9, JobMoves DEF JobSound

LEMMA PipelineKeeps ==
  ASSUME ExecInv, NEW d \in Download, Pipeline(d)
  PROVE  ExecInv'
  <1> DEFINE r == run[d]
  <1>1. /\ JobSound(r, audit[d]) /\ r \in RunRow /\ r.pc = "download"
        /\ audit' = [audit EXCEPT ![d] = audit[d]] /\ health' \in [Account -> HealthRow]
        /\ latest' = latest
    BY DEF ExecInv, JobSound, Pipeline
  <1>2. PICK code \in FailureCodes \cup {"OK"} :
          Set(d, [r EXCEPT !.pc = "finish", !.code = code,
                           !.temporary = @ \/ code \in Temporary])
    BY DEF Pipeline
  <1> DEFINE temporary == r.temporary \/ code \in Temporary
             new == [r EXCEPT !.pc = "finish", !.code = code, !.temporary = temporary]
  <1>3. run' = [run EXCEPT ![d] = new]
    BY <1>2 DEF Set
  <1>4. temporary \in BOOLEAN /\ code \in Answers /\ "finish" \in RunSteps
    BY DEF Answers, RunSteps
  <1> HIDE DEF temporary
  <1>5. /\ new \in RunRow /\ new.pc = "finish" /\ new.ranked = r.ranked /\ new.at = r.at
        /\ new.tried = r.tried
    BY <1>1, <1>4 DEF RunRow
  <1> HIDE DEF new, r
  <1>6. LastStatus(new) = LastStatus(r)
    BY <1>1, <1>5 DEF LastStatus
  <1>7. JobSound(new, audit[d])
    BY <1>1, <1>5, <1>6, QuietMove DEF InAttempt, Busy
  <1> QED BY <1>1, <1>3, <1>7, JobMoves

LEMMA FinishKeeps ==
  ASSUME ExecInv, NEW d \in Download, FinishAttempt(d)
  PROVE  ExecInv'
  <1> DEFINE r == run[d]
             old == audit[d]
             rows == [old EXCEPT ![Len(old)].status = FinishStatus(d)]
             new == [r EXCEPT !.pc = "health"]
  <1>1. /\ JobSound(r, old) /\ r \in RunRow /\ r.pc = "finish"
        /\ old \in Seq(AttemptRow) /\ Len(old) \in Nat /\ Len(old) > 0
        /\ health' \in [Account -> HealthRow] /\ latest' = latest
    BY DEF ExecInv, JobSound, RowsTold, FinishAttempt, InAttempt
  <1>2. run' = [run EXCEPT ![d] = new] /\ audit' = [audit EXCEPT ![d] = rows]
    BY DEF FinishAttempt, Set, ExecInv
  <1>3. /\ new \in RunRow /\ new.pc = "health" /\ new.ranked = r.ranked /\ new.at = r.at
        /\ new.tried = r.tried /\ new.code = r.code
    <2>1. "health" \in RunSteps
      BY DEF RunSteps
    <2> QED BY <1>1, <2>1 DEF RunRow
  <1>4. FinishStatus(d) = IF r.code = "OK" THEN "SUCCEEDED" ELSE "FAILED"
    BY DEF FinishStatus
  <1> HIDE DEF new, r, old
  <1>5. /\ rows \in Seq(AttemptRow) /\ Len(rows) = Len(old)
        /\ rows[Len(old)].status = FinishStatus(d)
        /\ rows[Len(old)].candidate = old[Len(old)].candidate
        /\ rows[Len(old)].account = old[Len(old)].account
        /\ \A i \in 1..Len(old) : i # Len(old) => rows[i] = old[i]
    <2> DEFINE rec == [old[Len(old)] EXCEPT !.status = FinishStatus(d)]
    <2>1. old[Len(old)] \in AttemptRow
      BY <1>1
    <2>2. FinishStatus(d) \in {"STARTED", "SUCCEEDED", "FAILED"}
      BY <1>4
    <2>3. /\ rec \in AttemptRow /\ rec.status = FinishStatus(d)
          /\ rec.candidate = old[Len(old)].candidate /\ rec.account = old[Len(old)].account
      BY <2>1, <2>2 DEF AttemptRow
    <2>4. rows = [old EXCEPT ![Len(old)] = rec]
      OBVIOUS
    <2> HIDE DEF rows, rec
    <2> QED BY <1>1, <2>3, <2>4
  <1> HIDE DEF rows
  <1>6. \A i \in 1..Len(rows) : i < Len(rows) \/ i = Len(rows)
    BY <1>1, <1>5
  <1>7. RowsTold(new, rows)
    <2>1. Len(rows) > 0 /\ rows[Len(rows)].status = LastStatus(new)
      BY <1>1, <1>3, <1>4, <1>5 DEF LastStatus
    <2>2. \A i \in 1..Len(old) : i < Len(old) => old[i].status = "FAILED"
      BY <1>1 DEF JobSound, RowsTold
    <2>3. \A i \in 1..Len(rows) : i < Len(rows) => rows[i].status = "FAILED"
      BY <1>1, <1>5, <2>2
    <2>4. new.pc \in InAttempt
      BY <1>3 DEF InAttempt
    <2> QED BY <2>1, <2>3, <2>4 DEF RowsTold
  <1>8. RowsApart(new, rows)
    <2>1. RowsApart(r, old)
      BY <1>1 DEF JobSound
    <2>2. \A i \in 1..Len(rows) : /\ rows[i].candidate = old[i].candidate
                                  /\ rows[i].account = old[i].account
      BY <1>5
    <2> QED BY <1>3, <1>5, <2>1, <2>2 DEF RowsApart
  <1>9. RunKnown(new, rows)
    BY <1>1, <1>3 DEF JobSound, RunKnown, Busy
  <1> QED BY <1>1, <1>2, <1>3, <1>5, <1>7, <1>8, <1>9, JobMoves DEF JobSound

LEMMA RecordedKeeps ==
  ASSUME NEW h \in HealthRow, NEW code
  PROVE  /\ Recorded(h, code) \in HealthRow
         /\ h.cooling => Recorded(h, code).cooling \/ Recorded(h, code).state = "HEALTHY"
  BY DEF Recorded, HealthRow, NewHealth

LEMMA HealthKeeps ==
  ASSUME ExecInv, NEW d \in Download, UpdateHealth(d)
  PROVE  ExecInv' /\ KeepsCooldown
  <1>1. /\ JobSound(run[d], audit[d]) /\ run[d].pc = "health" /\ run[d].account \in Account \cup {NoAccount}
        /\ audit' = [audit EXCEPT ![d] = audit[d]] /\ run' = [run EXCEPT ![d] = After(d)]
        /\ latest' = latest /\ health \in [Account -> HealthRow]
    BY DEF ExecInv, JobSound, RunRow, UpdateHealth, Set
  <1>2. JobSound(After(d), audit[d])
    BY <1>1, AfterIsSound
  <1>3. CASE run[d].account = NoAccount
    <2>1. health' = health
      BY <1>3 DEF UpdateHealth
    <2> QED BY <1>1, <1>2, <2>1, JobMoves DEF KeepsCooldown
  <1>4. CASE run[d].account # NoAccount
    <2> DEFINE a == run[d].account
               h == Recorded(health[a], run[d].code)
    <2>1. a \in Account /\ health' = [health EXCEPT ![a] = h]
      BY <1>1, <1>4 DEF UpdateHealth
    <2>2. h \in HealthRow /\ (health[a].cooling => h.cooling \/ h.state = "HEALTHY")
      BY <1>1, <2>1, RecordedKeeps
    <2> HIDE DEF a, h
    <2>3. health' \in [Account -> HealthRow]
      BY <1>1, <2>1, <2>2
    <2>4. KeepsCooldown
      BY <1>1, <2>1, <2>2 DEF KeepsCooldown
    <2> QED BY <1>1, <1>2, <2>3, <2>4, JobMoves
  <1> QED BY <1>3, <1>4

(* Every step keeps the invariant, and a cooldown that is not over.        *)
LEMMA ExecStep ==
  ASSUME ExecInv, [ExecNext]_execVars
  PROVE  ExecInv' /\ KeepsCooldown
  <1>1. CASE UNCHANGED execVars
    BY <1>1 DEF execVars, ExecInv, KeepsCooldown
  <1>2. CASE NewRecord
    BY <1>2, ExecutionAssumption DEF NewRecord, ExecInv, KeepsCooldown
  <1>3. ASSUME NEW d \in Download,
               \/ Identify(d) \/ ListAccounts(d) \/ ChooseAccount(d) \/ StartAttempt(d)
               \/ Pipeline(d) \/ FinishAttempt(d)
        PROVE  ExecInv' /\ KeepsCooldown
    <2>1. health' = health
      BY <1>3 DEF Identify, ListAccounts, ChooseAccount, StartAttempt, Pipeline, FinishAttempt
    <2>2. ExecInv'
      BY <1>3, IdentifyKeeps, ListKeeps, ChooseKeeps, AttemptStarts, PipelineKeeps, FinishKeeps
    <2> QED BY <2>1, <2>2 DEF KeepsCooldown
  <1>4. ASSUME NEW d \in Download, UpdateHealth(d)
        PROVE  ExecInv' /\ KeepsCooldown
    BY <1>4, HealthKeeps
  <1>5. ASSUME NEW d \in Download, Abort(d) \/ Settle(d)
        PROVE  ExecInv' /\ KeepsCooldown
    <2>1. /\ run' = [run EXCEPT ![d] = NoRun] /\ audit' = [audit EXCEPT ![d] = <<>>]
          /\ health' = health /\ latest' = latest
      BY <1>5 DEF Abort, Settle, Set
    <2>2. health' \in [Account -> HealthRow]
      BY <2>1 DEF ExecInv
    <2>3. ExecInv'
      BY <2>1, <2>2, NoRunSound, JobMoves
    <2> QED BY <2>1, <2>3 DEF KeepsCooldown
  <1>6. ASSUME NEW a \in Account, CooledDown(a)
        PROVE  ExecInv' /\ KeepsCooldown
    <2>1. /\ health' = [health EXCEPT ![a] = [@ EXCEPT !.cooling = FALSE]]
          /\ health \in [Account -> HealthRow] /\ UNCHANGED <<run, latest, audit>>
      BY <1>6 DEF CooledDown, ExecInv
    <2>2. [health[a] EXCEPT !.cooling = FALSE] \in HealthRow
      BY <2>1 DEF HealthRow
    <2>3. health' \in [Account -> HealthRow] /\ \A b \in Account \ {a} : health'[b] = health[b]
      BY <2>1, <2>2
    <2>4. ExecInv'
      BY <2>1, <2>3 DEF ExecInv
    <2> QED BY <1>6, <2>3, <2>4 DEF KeepsCooldown
  <1> QED BY <1>1, <1>2, <1>3, <1>4, <1>5, <1>6 DEF ExecNext

-----------------------------------------------------------------------------
(* The pipeline.                                                           *)

Writing == {"plan", "wait", "paced", "call", "media"}
Owning == Writing \cup {"returned"}
WorkRow ==
  [pc : {"idle", "resolve"} \cup Owning, dir : Dir \cup {NoDir}, plans : 0..Len(Plans),
   rank : 0..Len(Plans), op : {"none", "check", "prepare", "download"}]
DirRow == [made : BOOLEAN, attempts : SUBSET (1..Len(Plans)), final : BOOLEAN, old : BOOLEAN]
SweepRow ==
  [pc : {"idle", "scan", "remove"}, protected : SUBSET Dir, stale : SUBSET Dir,
   at : Dir \cup {NoDir}]
Counts == [permits : Int, waiting : Int, active : Int]
Sweeper == Worker \cup {Watchdog}

(* A worker has a directory and a plan from create_job() until it hands    *)
(* the file over or gives up.                                              *)
RowKnown(r) ==
  /\ r.rank <= r.plans
  /\ r.pc \in Owning => r.dir \in Dir /\ r.rank >= 1
  /\ r.pc \notin Owning => r.dir = NoDir

WorkSound ==
  /\ work = [w \in Worker |-> work[w]]
  /\ \A w \in Worker : work[w] \in WorkRow /\ RowKnown(work[w])

(* Its directory is its own, there, registered while it writes, and young  *)
(* and complete once it has stopped to.                                    *)
DirsSound ==
  /\ dirs \in [Dir -> DirRow] /\ registry \subseteq Dir /\ uploads \subseteq Dir
  /\ \A w \in Worker : work[w].dir \in Dir =>
       /\ dirs[work[w].dir].made /\ work[w].dir \notin uploads
       /\ \A v \in Worker : work[v].dir = work[w].dir => v = w
  /\ \A w \in Worker : work[w].pc \in Writing => work[w].dir \in registry
  /\ \A w \in Worker : work[w].pc = "returned" =>
       dirs[work[w].dir].final /\ ~dirs[work[w].dir].old
  /\ \A x \in uploads : dirs[x].made /\ dirs[x].final

(* What a sweep is about to remove belongs to nobody, and an entry that    *)
(* was handed over since it began is younger than its clock.               *)
SweepsSound ==
  /\ sweep \in [Sweeper -> SweepRow]
  /\ \A s \in Sweeper : sweep[s].pc = "remove" =>
       /\ sweep[s].at \in sweep[s].stale /\ sweep[s].at \notin uploads
       /\ \A w \in Worker : work[w].dir # sweep[s].at
  /\ \A s \in Sweeper : \A x \in sweep[s].stale :
       x \in uploads => x \in sweep[s].protected \/ ~dirs[x].old

LimiterSound == limiter \in [Site -> Counts] /\ LimiterIsTrue

PipeInv == WorkSound /\ DirsSound /\ SweepsSound /\ LimiterSound

(* The invariant is at least what the runs check.                          *)
LEMMA PipePromises ==
  ASSUME PipeInv
  PROVE  PipeTypeOK /\ LimiterIsTrue /\ LiveDirectoryStays
  <1>1. \A w \in Worker : work[w] \in WorkRow /\ RowKnown(work[w])
    BY DEF PipeInv, WorkSound
  <1>2. dirs \in [Dir -> DirRow] /\ registry \subseteq Dir /\ uploads \subseteq Dir
    BY DEF PipeInv, DirsSound
  <1>3. PipeTypeOK
    <2>1. \A w \in Worker :
            /\ work[w].dir \in Dir \cup {NoDir}
            /\ work[w].plans \in 0..Len(Plans) /\ work[w].rank \in 0..work[w].plans
      BY <1>1 DEF WorkRow, RowKnown
    <2>2. \A x \in Dir : dirs[x].attempts \subseteq 1..Len(Plans) /\ dirs[x].old \in BOOLEAN
      BY <1>2 DEF DirRow
    <2> QED BY <1>2, <2>1, <2>2 DEF PipeTypeOK
  <1>4. LiveDirectoryStays
    <2>1. \A w \in Worker : work[w].dir # NoDir => dirs[work[w].dir].made
      BY <1>1 DEF PipeInv, DirsSound, WorkRow
    <2> QED BY <2>1 DEF PipeInv, DirsSound, LiveDirectoryStays
  <1> QED BY <1>3, <1>4 DEF PipeInv, LimiterSound

-----------------------------------------------------------------------------
(* Counting callers.                                                       *)

Takes(r, p, pcs) == IF r.pc \in pcs /\ Plans[r.rank] = p THEN 1 ELSE 0
CallersOf(rows, p, pcs) == {w \in Worker : rows[w].pc \in pcs /\ Plans[rows[w].rank] = p}

(* One worker is counted or not, whatever the others do.                   *)
LEMMA OneCaller ==
  ASSUME NEW w \in Worker, NEW p, NEW pcs, \A v \in Worker \ {w} : work'[v] = work[v]
  PROVE  /\ Cardinality(CallersOf(work, p, pcs)) \in Nat
         /\ Cardinality(CallersOf(work', p, pcs)) \in Nat
         /\ Cardinality(CallersOf(work', p, pcs)) =
              Cardinality(CallersOf(work, p, pcs)) + Takes(work'[w], p, pcs)
                - Takes(work[w], p, pcs)
  <1> DEFINE others == {v \in Worker \ {w} : work[v].pc \in pcs /\ Plans[work[v].rank] = p}
             taken == Takes(work[w], p, pcs)
             takes == Takes(work'[w], p, pcs)
             before == Cardinality(CallersOf(work, p, pcs))
             after == Cardinality(CallersOf(work', p, pcs))
  <1>1. IsFiniteSet(others) /\ Cardinality(others) \in Nat /\ w \notin others
    BY PipelineAssumption, FS_Subset, FS_CardinalityType
  <1>2. before = Cardinality(others) + taken
    <2>1. CASE work[w].pc \in pcs /\ Plans[work[w].rank] = p
      <3>1. CallersOf(work, p, pcs) = others \cup {w}
        BY <2>1 DEF CallersOf
      <3> HIDE DEF others
      <3> QED BY <1>1, <2>1, <3>1, FS_AddElement DEF Takes
    <2>2. CASE ~(work[w].pc \in pcs /\ Plans[work[w].rank] = p)
      <3>1. CallersOf(work, p, pcs) = others
        BY <2>2 DEF CallersOf
      <3> HIDE DEF others
      <3> QED BY <1>1, <2>2, <3>1 DEF Takes
    <2> QED BY <2>1, <2>2
  <1>3. after = Cardinality(others) + takes
    <2>1. CASE work'[w].pc \in pcs /\ Plans[work'[w].rank] = p
      <3>1. CallersOf(work', p, pcs) = others \cup {w}
        BY <2>1 DEF CallersOf
      <3> HIDE DEF others
      <3> QED BY <1>1, <2>1, <3>1, FS_AddElement DEF Takes
    <2>2. CASE ~(work'[w].pc \in pcs /\ Plans[work'[w].rank] = p)
      <3>1. CallersOf(work', p, pcs) = others
        BY <2>2 DEF CallersOf
      <3> HIDE DEF others
      <3> QED BY <1>1, <2>2, <3>1 DEF Takes
    <2> QED BY <2>1, <2>2
  <1>4. taken \in {0, 1} /\ takes \in {0, 1}
    BY DEF Takes
  <1> HIDE DEF others, taken, takes, before, after
  <1>5. before \in Nat /\ after \in Nat /\ after = before + takes - taken
    BY <1>1, <1>2, <1>3, <1>4
  <1> QED BY <1>5 DEF taken, takes, before, after

Counted3(p, rows) ==
  /\ limiter[p].waiting = Cardinality(CallersOf(rows, p, {"wait", "paced"}))
  /\ limiter[p].active = Cardinality(CallersOf(rows, p, {"call"}))
  /\ limiter[p].permits + Cardinality(CallersOf(rows, p, {"paced", "call"})) = MaxConcurrent

LEMMA LimiterCounts == LimiterIsTrue <=> \A p \in Site : Counted3(p, work)
  BY DEF LimiterIsTrue, Counted3, Calling, CallersOf, SiteOf

LEMMA LimiterCountsNext ==
  LimiterIsTrue' <=> \A p \in Site :
    /\ limiter'[p].waiting = Cardinality(CallersOf(work', p, {"wait", "paced"}))
    /\ limiter'[p].active = Cardinality(CallersOf(work', p, {"call"}))
    /\ limiter'[p].permits + Cardinality(CallersOf(work', p, {"paced", "call"})) = MaxConcurrent
  BY DEF LimiterIsTrue, Calling, CallersOf, SiteOf

(* The limiter stays true when its counts change as its caller moves.      *)
LEMMA LimiterMoves ==
  ASSUME PipeInv, NEW w \in Worker, NEW r, work' = [work EXCEPT ![w] = r],
         limiter' \in [Site -> Counts],
         \A p \in Site :
           /\ limiter'[p].waiting = limiter[p].waiting + Takes(r, p, {"wait", "paced"})
                                      - Takes(work[w], p, {"wait", "paced"})
           /\ limiter'[p].active = limiter[p].active + Takes(r, p, {"call"})
                                      - Takes(work[w], p, {"call"})
           /\ limiter'[p].permits = limiter[p].permits - Takes(r, p, {"paced", "call"})
                                      + Takes(work[w], p, {"paced", "call"})
  PROVE  LimiterSound'
  <1>1. work = [v \in Worker |-> work[v]] /\ limiter \in [Site -> Counts]
    BY DEF PipeInv, WorkSound, LimiterSound
  <1>2. ASSUME NEW p \in Site
        PROVE  /\ limiter'[p].waiting = Cardinality(CallersOf(work', p, {"wait", "paced"}))
               /\ limiter'[p].active = Cardinality(CallersOf(work', p, {"call"}))
               /\ limiter'[p].permits + Cardinality(CallersOf(work', p, {"paced", "call"}))
                    = MaxConcurrent
    <2>1. Counted3(p, work)
      BY LimiterCounts DEF PipeInv, LimiterSound
    <2>2. /\ limiter[p].waiting \in Int /\ limiter[p].active \in Int
          /\ limiter[p].permits \in Int
      BY <1>1 DEF Counts
    <2>3. ASSUME NEW pcs
          PROVE  /\ Cardinality(CallersOf(work, p, pcs)) \in Nat
                 /\ Cardinality(CallersOf(work', p, pcs)) \in Nat
                 /\ Cardinality(CallersOf(work', p, pcs)) =
                      Cardinality(CallersOf(work, p, pcs)) + Takes(r, p, pcs)
                        - Takes(work[w], p, pcs)
      <3>1. work'[w] = r /\ \A v \in Worker \ {w} : work'[v] = work[v]
        BY <1>1
      <3>2. /\ Cardinality(CallersOf(work, p, pcs)) \in Nat
            /\ Cardinality(CallersOf(work', p, pcs)) \in Nat
            /\ Cardinality(CallersOf(work', p, pcs)) =
                 Cardinality(CallersOf(work, p, pcs)) + Takes(work'[w], p, pcs)
                   - Takes(work[w], p, pcs)
        <4>1. \A v \in Worker \ {w} : work'[v] = work[v]
          BY <3>1
        <4> QED BY ONLY w \in Worker, <4>1, OneCaller
      <3>3. Takes(work'[w], p, pcs) = Takes(r, p, pcs)
        BY <3>1 DEF Takes
      <3> QED BY <3>2, <3>3
    <2>4. ASSUME NEW pcs PROVE Takes(r, p, pcs) \in Int /\ Takes(work[w], p, pcs) \in Int
      BY DEF Takes
    <2>5. limiter'[p].waiting = Cardinality(CallersOf(work', p, {"wait", "paced"}))
      BY <2>1, <2>2, <2>3, <2>4 DEF Counted3
    <2>6. limiter'[p].active = Cardinality(CallersOf(work', p, {"call"}))
      BY <2>1, <2>2, <2>3, <2>4 DEF Counted3
    <2>7. limiter'[p].permits + Cardinality(CallersOf(work', p, {"paced", "call"}))
            = MaxConcurrent
      <3> DEFINE before == Cardinality(CallersOf(work, p, {"paced", "call"}))
                 after == Cardinality(CallersOf(work', p, {"paced", "call"}))
                 plus == Takes(r, p, {"paced", "call"})
                 minus == Takes(work[w], p, {"paced", "call"})
      <3>1. after = before + plus - minus /\ before \in Nat /\ plus \in Int /\ minus \in Int
        BY <2>3, <2>4
      <3>2. limiter[p].permits + before = MaxConcurrent
        BY <2>1 DEF Counted3
      <3>3. limiter'[p].permits = limiter[p].permits - plus + minus
        OBVIOUS
      <3> HIDE DEF before, after, plus, minus
      <3>4. limiter'[p].permits + after = MaxConcurrent
        BY <2>2, <3>1, <3>2, <3>3
      <3> QED BY <3>4 DEF after
    <2> QED BY <2>5, <2>6, <2>7
  <1> QED BY <1>2, LimiterCountsNext DEF LimiterSound

Queueing == {"wait", "paced", "call"}

(* What leaving the limiter takes back is what its caller held.            *)
LEMMA GivesUpAll ==
  ASSUME PipeInv, NEW w \in Worker
  PROVE  /\ GivesUp(w) \in [Site -> Counts]
         /\ \A p \in Site :
              /\ GivesUp(w)[p].waiting = limiter[p].waiting
                                           - Takes(work[w], p, {"wait", "paced"})
              /\ GivesUp(w)[p].active = limiter[p].active - Takes(work[w], p, {"call"})
              /\ GivesUp(w)[p].permits = limiter[p].permits
                                           + Takes(work[w], p, {"paced", "call"})
  <1> DEFINE q == SiteOf(w)
             c == limiter[q]
  <1>1. limiter \in [Site -> Counts] /\ work[w] \in WorkRow /\ RowKnown(work[w])
    BY DEF PipeInv, WorkSound, LimiterSound
  <1>2. \A p \in Site : /\ limiter[p].waiting \in Int /\ limiter[p].active \in Int
                        /\ limiter[p].permits \in Int
    BY <1>1 DEF Counts
  <1>3. CASE work[w].pc \notin Queueing
    BY <1>1, <1>2, <1>3 DEF GivesUp, Takes, Queueing
  <1>4. ASSUME work[w].pc \in Queueing PROVE q \in Site
    <2>1. work[w].rank \in 1..Len(Plans)
      BY <1>1, <1>4 DEF WorkRow, RowKnown, Owning, Writing, Queueing
    <2> QED BY <2>1, PipelineAssumption DEF SiteOf
  <1>5. ASSUME work[w].pc \in Queueing, NEW rec \in Counts, GivesUp(w) = [limiter EXCEPT ![q] = rec],
               rec.waiting = c.waiting - Takes(work[w], q, {"wait", "paced"}),
               rec.active = c.active - Takes(work[w], q, {"call"}),
               rec.permits = c.permits + Takes(work[w], q, {"paced", "call"})
        PROVE  /\ GivesUp(w) \in [Site -> Counts]
               /\ \A p \in Site :
                    /\ GivesUp(w)[p].waiting = limiter[p].waiting
                                                 - Takes(work[w], p, {"wait", "paced"})
                    /\ GivesUp(w)[p].active = limiter[p].active - Takes(work[w], p, {"call"})
                    /\ GivesUp(w)[p].permits = limiter[p].permits
                                                 + Takes(work[w], p, {"paced", "call"})
    <2>1. q \in Site
      BY <1>4, <1>5
    <2>2. ASSUME NEW p \in Site, p # q, NEW pcs PROVE Takes(work[w], p, pcs) = 0
      BY <2>2 DEF Takes, SiteOf
    <2> HIDE DEF q
    <2>3. ASSUME NEW p \in Site, p # q
          PROVE  /\ GivesUp(w)[p].waiting = limiter[p].waiting
                                              - Takes(work[w], p, {"wait", "paced"})
                 /\ GivesUp(w)[p].active = limiter[p].active - Takes(work[w], p, {"call"})
                 /\ GivesUp(w)[p].permits = limiter[p].permits
                                              + Takes(work[w], p, {"paced", "call"})
      <3>1. GivesUp(w)[p] = limiter[p]
        BY <1>1, <1>5, <2>3
      <3> QED BY <1>2, <2>2, <2>3, <3>1
    <2>4. GivesUp(w)[q] = rec
      BY <1>1, <1>5, <2>1
    <2> QED BY <1>1, <1>5, <2>3, <2>4
  <1>6. CASE work[w].pc = "wait"
    <2> DEFINE waiting1 == c.waiting - 1
               rec == [c EXCEPT !.waiting = waiting1]
    <2>1. /\ q \in Site /\ c \in Counts
          /\ c.waiting \in Int /\ c.active \in Int /\ c.permits \in Int
      BY <1>1, <1>2, <1>4, <1>6 DEF Queueing
    <2>2. GivesUp(w) = [limiter EXCEPT ![q] = rec]
      BY <1>1, <1>6 DEF GivesUp
    <2>3. /\ Takes(work[w], q, {"wait", "paced"}) = 1 /\ Takes(work[w], q, {"call"}) = 0
          /\ Takes(work[w], q, {"paced", "call"}) = 0
      BY <1>6 DEF Takes, SiteOf
    <2> HIDE DEF c, q
    <2>4. waiting1 \in Int
      BY <2>1
    <2> HIDE DEF waiting1
    <2>5. /\ rec \in Counts
          /\ rec.waiting = waiting1 /\ rec.active = c.active
          /\ rec.permits = c.permits
      BY <2>1, <2>4 DEF Counts
    <2> HIDE DEF rec
    <2>6. /\ rec.waiting = c.waiting - Takes(work[w], q, {"wait", "paced"})
          /\ rec.active = c.active - Takes(work[w], q, {"call"})
          /\ rec.permits = c.permits + Takes(work[w], q, {"paced", "call"})
      BY <2>1, <2>3, <2>5 DEF waiting1
    <2> QED BY <1>5, <1>6, <2>2, <2>5, <2>6 DEF Queueing
  <1>7. CASE work[w].pc = "paced"
    <2> DEFINE waiting1 == c.waiting - 1
               permits1 == c.permits + 1
               rec == [c EXCEPT !.waiting = waiting1, !.permits = permits1]
    <2>1. /\ q \in Site /\ c \in Counts
          /\ c.waiting \in Int /\ c.active \in Int /\ c.permits \in Int
      BY <1>1, <1>2, <1>4, <1>7 DEF Queueing
    <2>2. GivesUp(w) = [limiter EXCEPT ![q] = rec]
      BY <1>1, <1>7 DEF GivesUp
    <2>3. /\ Takes(work[w], q, {"wait", "paced"}) = 1 /\ Takes(work[w], q, {"call"}) = 0
          /\ Takes(work[w], q, {"paced", "call"}) = 1
      BY <1>7 DEF Takes, SiteOf
    <2> HIDE DEF c, q
    <2>4. waiting1 \in Int /\ permits1 \in Int
      BY <2>1
    <2> HIDE DEF waiting1, permits1
    <2>5. /\ rec \in Counts
          /\ rec.waiting = waiting1 /\ rec.active = c.active
          /\ rec.permits = permits1
      BY <2>1, <2>4 DEF Counts
    <2> HIDE DEF rec
    <2>6. /\ rec.waiting = c.waiting - Takes(work[w], q, {"wait", "paced"})
          /\ rec.active = c.active - Takes(work[w], q, {"call"})
          /\ rec.permits = c.permits + Takes(work[w], q, {"paced", "call"})
      BY <2>1, <2>3, <2>5 DEF waiting1, permits1
    <2> QED BY <1>5, <1>7, <2>2, <2>5, <2>6 DEF Queueing
  <1>8. CASE work[w].pc = "call"
    <2> DEFINE active1 == c.active - 1
               permits1 == c.permits + 1
               rec == [c EXCEPT !.active = active1, !.permits = permits1]
    <2>1. /\ q \in Site /\ c \in Counts
          /\ c.waiting \in Int /\ c.active \in Int /\ c.permits \in Int
      BY <1>1, <1>2, <1>4, <1>8 DEF Queueing
    <2>2. GivesUp(w) = [limiter EXCEPT ![q] = rec]
      BY <1>1, <1>8 DEF GivesUp
    <2>3. /\ Takes(work[w], q, {"wait", "paced"}) = 0 /\ Takes(work[w], q, {"call"}) = 1
          /\ Takes(work[w], q, {"paced", "call"}) = 1
      BY <1>8 DEF Takes, SiteOf
    <2> HIDE DEF c, q
    <2>4. active1 \in Int /\ permits1 \in Int
      BY <2>1
    <2> HIDE DEF active1, permits1
    <2>5. /\ rec \in Counts
          /\ rec.waiting = c.waiting /\ rec.active = active1
          /\ rec.permits = permits1
      BY <2>1, <2>4 DEF Counts
    <2> HIDE DEF rec
    <2>6. /\ rec.waiting = c.waiting - Takes(work[w], q, {"wait", "paced"})
          /\ rec.active = c.active - Takes(work[w], q, {"call"})
          /\ rec.permits = c.permits + Takes(work[w], q, {"paced", "call"})
      BY <2>1, <2>3, <2>5 DEF active1, permits1
    <2> QED BY <1>5, <1>8, <2>2, <2>5, <2>6 DEF Queueing
  <1> QED BY <1>3, <1>6, <1>7, <1>8 DEF Queueing

(* A caller leaves the limiter, or was not there.                          *)
LEMMA LimiterLeft ==
  ASSUME PipeInv, NEW w \in Worker, NEW r, r.pc \notin Queueing,
         work' = [work EXCEPT ![w] = r],
         \/ limiter' = GivesUp(w)
         \/ limiter' = limiter /\ work[w].pc \notin Queueing
  PROVE  LimiterSound'
  <1>1. limiter' = GivesUp(w)
    BY DEF GivesUp, Queueing
  <1>2. \A p : /\ Takes(r, p, {"wait", "paced"}) = 0 /\ Takes(r, p, {"call"}) = 0
               /\ Takes(r, p, {"paced", "call"}) = 0
    BY DEF Takes, Queueing
  <1>3. \A p \in Site : /\ limiter[p].waiting \in Int /\ limiter[p].active \in Int
                        /\ limiter[p].permits \in Int
    BY DEF PipeInv, LimiterSound, Counts
  <1>4. ASSUME NEW p \in Site
        PROVE  /\ limiter'[p].waiting = limiter[p].waiting + Takes(r, p, {"wait", "paced"})
                                          - Takes(work[w], p, {"wait", "paced"})
               /\ limiter'[p].active = limiter[p].active + Takes(r, p, {"call"})
                                          - Takes(work[w], p, {"call"})
               /\ limiter'[p].permits = limiter[p].permits - Takes(r, p, {"paced", "call"})
                                          + Takes(work[w], p, {"paced", "call"})
    <2>1. /\ limiter'[p].waiting = limiter[p].waiting - Takes(work[w], p, {"wait", "paced"})
          /\ limiter'[p].active = limiter[p].active - Takes(work[w], p, {"call"})
          /\ limiter'[p].permits = limiter[p].permits + Takes(work[w], p, {"paced", "call"})
      BY <1>1, GivesUpAll
    <2>2. ASSUME NEW pcs PROVE Takes(work[w], p, pcs) \in Int
      BY DEF Takes
    <2>3. /\ Takes(r, p, {"wait", "paced"}) = 0 /\ Takes(r, p, {"call"}) = 0
          /\ Takes(r, p, {"paced", "call"}) = 0
      BY <1>2
    <2> QED BY <1>3, <2>1, <2>2, <2>3
  <1>5. limiter' \in [Site -> Counts]
    BY <1>1, GivesUpAll
  <1> QED BY <1>4, <1>5, LimiterMoves

-----------------------------------------------------------------------------
(* Rows and directories.                                                   *)

LEMMA WorkMoves ==
  ASSUME PipeInv, NEW w \in Worker, NEW r \in WorkRow, RowKnown(r),
         work' = [work EXCEPT ![w] = r]
  PROVE  /\ WorkSound'
         /\ work'[w] = r
         /\ \A v \in Worker : v # w => work'[v] = work[v]
  <1>1. work = [v \in Worker |-> work[v]]
        /\ \A v \in Worker : work[v] \in WorkRow /\ RowKnown(work[v])
    BY DEF PipeInv, WorkSound
  <1>2. work'[w] = r /\ \A v \in Worker : v # w => work'[v] = work[v]
    BY <1>1
  <1>3. work' = [v \in Worker |-> work'[v]]
    BY <1>1
  <1>4. \A v \in Worker : work'[v] \in WorkRow /\ RowKnown(work'[v])
    BY <1>1, <1>2
  <1> QED BY <1>2, <1>3, <1>4 DEF WorkSound

(* A worker's row moves with the directory d, its own or a new one, that   *)
(* it keeps or lets go.                                                    *)
MovesDir(w, r, d, rec) ==
  /\ RowKnown(r)
  /\ work' = [work EXCEPT ![w] = r]
  /\ UNCHANGED <<uploads, sweep>>
  /\ d = work[w].dir \/ d \in Unused
  /\ r.dir \in {d, NoDir}
  /\ dirs' = [dirs EXCEPT ![d] = rec]
  /\ r.dir = d => rec.made
  /\ registry' \subseteq Dir
  /\ \A x \in registry : x # d => x \in registry'
  /\ r.pc \in Writing => d \in registry'
  /\ r.pc = "returned" => rec.final /\ ~rec.old

LEMMA DirMoves ==
  ASSUME PipeInv, NEW w \in Worker, NEW r \in WorkRow, NEW d \in Dir, NEW rec \in DirRow,
         MovesDir(w, r, d, rec)
  PROVE  WorkSound' /\ DirsSound' /\ SweepsSound'
  <1> USE DEF MovesDir
  <1>1. /\ WorkSound' /\ work'[w] = r
        /\ \A v \in Worker : v # w => work'[v] = work[v]
    BY WorkMoves
  <1>2. \A v \in Worker : work[v] \in WorkRow /\ RowKnown(work[v])
    BY DEF PipeInv, WorkSound
  <1>3. DirsSound /\ SweepsSound
    BY DEF PipeInv
  <1>4. NoDir \notin Dir
    BY PipelineAssumption
  <1>5. /\ dirs'[d] = rec
        /\ \A x \in Dir : x # d => dirs'[x] = dirs[x]
        /\ dirs' \in [Dir -> DirRow]
    BY <1>3 DEF DirsSound
  <1>6. d \notin uploads
    BY <1>3 DEF DirsSound, Unused
  <1>7. \A v \in Worker : v # w => work[v].dir # d
    BY <1>3 DEF DirsSound, Unused
  <1>8. \A s \in Sweeper : sweep[s].pc = "remove" => sweep[s].at # d
    <2>1. DOMAIN sweep = Sweeper
      BY <1>3 DEF SweepsSound
    <2> QED BY <1>3, <2>1 DEF SweepsSound, Unused
  <1>9. ASSUME NEW v \in Worker, work'[v].dir \in Dir
        PROVE  /\ dirs'[work'[v].dir].made /\ work'[v].dir \notin uploads'
               /\ \A u \in Worker : work'[u].dir = work'[v].dir => u = v
    <2>1. CASE v = w
      <3>1. work'[v].dir = d
        BY <1>1, <1>4, <1>9, <2>1
      <3>2. ASSUME NEW u \in Worker, work'[u].dir = d PROVE u = v
        BY <1>1, <1>7, <2>1, <3>2
      <3> QED BY <1>1, <1>5, <1>6, <2>1, <3>1, <3>2
    <2>2. CASE v # w
      <3>1. work'[v] = work[v] /\ work[v].dir # d
        BY <1>1, <1>7, <2>2
      <3>2. dirs[work[v].dir].made /\ work[v].dir \notin uploads
        BY <1>3, <1>9, <3>1 DEF DirsSound
      <3>3. ASSUME NEW u \in Worker, work'[u].dir = work[v].dir PROVE u = v
        <4>1. u # w
          BY <1>1, <1>4, <1>9, <3>1, <3>3
        <4> QED BY <1>1, <1>3, <1>9, <3>1, <3>3, <4>1 DEF DirsSound
      <3> QED BY <1>5, <1>9, <3>1, <3>2, <3>3
    <2> QED BY <2>1, <2>2
  <1>10. ASSUME NEW v \in Worker, work'[v].pc \in Writing PROVE work'[v].dir \in registry'
    <2>1. CASE v = w
      BY <1>1, <1>4, <1>10, <2>1 DEF RowKnown, Owning
    <2>2. CASE v # w
      <3>1. work'[v] = work[v] /\ work[v].dir # d /\ work[v].dir \in registry
        BY <1>1, <1>3, <1>7, <1>10, <2>2 DEF DirsSound
      <3> QED BY <3>1
    <2> QED BY <2>1, <2>2
  <1>11. ASSUME NEW v \in Worker, work'[v].pc = "returned"
         PROVE  dirs'[work'[v].dir].final /\ ~dirs'[work'[v].dir].old
    <2>1. CASE v = w
      <3>1. r.dir = d
        BY <1>1, <1>4, <1>11, <2>1 DEF RowKnown, Owning
      <3> QED BY <1>1, <1>5, <1>11, <2>1, <3>1
    <2>2. CASE v # w
      <3>1. work'[v] = work[v] /\ work[v].dir # d /\ work[v].dir \in Dir
        BY <1>1, <1>2, <1>7, <1>11, <2>2 DEF RowKnown, Owning
      <3>2. dirs[work[v].dir].final /\ ~dirs[work[v].dir].old
        BY <1>3, <1>11, <3>1 DEF DirsSound
      <3> QED BY <1>5, <3>1, <3>2
    <2> QED BY <2>1, <2>2
  <1>12. \A x \in uploads' : dirs'[x].made /\ dirs'[x].final
    BY <1>3, <1>5, <1>6 DEF DirsSound
  <1>13. DirsSound'
    <2>1. uploads' \subseteq Dir
      BY <1>3 DEF DirsSound
    <2> QED BY <1>5, <1>9, <1>10, <1>11, <1>12, <2>1 DEF DirsSound
  <1>14. SweepsSound'
    <2>1. sweep' \in [Sweeper -> SweepRow]
      BY <1>3 DEF SweepsSound
    <2>2. ASSUME NEW s \in Sweeper, sweep'[s].pc = "remove"
          PROVE  /\ sweep'[s].at \in sweep'[s].stale /\ sweep'[s].at \notin uploads'
                 /\ \A v \in Worker : work'[v].dir # sweep'[s].at
      <3>1. /\ sweep[s].at \in sweep[s].stale /\ sweep[s].at \notin uploads
            /\ \A v \in Worker : work[v].dir # sweep[s].at
        BY <1>3, <2>2 DEF SweepsSound
      <3>2. sweep[s].at \in Dir
        BY <1>3, <3>1 DEF SweepsSound, SweepRow
      <3>3. ASSUME NEW v \in Worker PROVE work'[v].dir # sweep[s].at
        BY <1>1, <1>4, <1>8, <2>2, <3>1, <3>2
      <3> QED BY <3>1, <3>3
    <2>3. ASSUME NEW s \in Sweeper, NEW x \in sweep'[s].stale, x \in uploads'
          PROVE  x \in sweep'[s].protected \/ ~dirs'[x].old
      <3>1. x \in uploads /\ x \in Dir /\ x # d
        BY <1>3, <1>6, <2>3 DEF DirsSound
      <3> QED BY <1>3, <1>5, <2>3, <3>1 DEF SweepsSound
    <2> QED BY <2>1, <2>2, <2>3 DEF SweepsSound
  <1> QED BY <1>1, <1>13, <1>14

(* A worker that has no directory moves and takes none.                    *)
LEMMA BareMoves ==
  ASSUME PipeInv, NEW w \in Worker, NEW r \in WorkRow, r.pc \in {"idle", "resolve"},
         r.dir = NoDir, r.rank <= r.plans, work[w].pc \in {"idle", "resolve"},
         work' = [work EXCEPT ![w] = r], UNCHANGED <<limiter, dirs, registry, uploads, sweep>>
  PROVE  PipeInv'
  <1>1. RowKnown(r)
    BY DEF RowKnown, Owning, Writing
  <1>2. /\ WorkSound' /\ work'[w] = r
        /\ \A v \in Worker : v # w => work'[v] = work[v]
    BY <1>1, WorkMoves
  <1>3. DirsSound /\ SweepsSound /\ NoDir \notin Dir
    BY PipelineAssumption DEF PipeInv
  <1>4. DirsSound'
    <2>1. \A v \in Worker : work'[v].dir \in Dir => v # w
      BY <1>2, <1>3
    <2>2. \A v \in Worker : work'[v].pc \in Writing \cup {"returned"} => v # w
      BY <1>2 DEF Writing
    <2> QED BY <1>2, <1>3, <2>1, <2>2 DEF DirsSound
  <1>5. SweepsSound'
    <2>1. \A s \in Sweeper : sweep[s].pc = "remove" => sweep[s].at \in Dir
      BY <1>3 DEF SweepsSound, SweepRow
    <2> QED BY <1>2, <1>3, <2>1 DEF SweepsSound
  <1>6. LimiterSound'
    BY LimiterLeft DEF Queueing
  <1> QED BY <1>2, <1>4, <1>5, <1>6 DEF PipeInv

(* A caller goes on with the same provider.                                *)
LEMMA LimiterCalls ==
  ASSUME PipeInv, NEW w \in Worker, NEW r, work' = [work EXCEPT ![w] = r],
         r.rank = work[w].rank, work[w].pc \in Writing,
         NEW rec \in Counts, limiter' = [limiter EXCEPT ![SiteOf(w)] = rec],
         rec.waiting = limiter[SiteOf(w)].waiting + Takes(r, SiteOf(w), {"wait", "paced"})
                         - Takes(work[w], SiteOf(w), {"wait", "paced"}),
         rec.active = limiter[SiteOf(w)].active + Takes(r, SiteOf(w), {"call"})
                        - Takes(work[w], SiteOf(w), {"call"}),
         rec.permits = limiter[SiteOf(w)].permits - Takes(r, SiteOf(w), {"paced", "call"})
                         + Takes(work[w], SiteOf(w), {"paced", "call"})
  PROVE  LimiterSound'
  <1>1. limiter \in [Site -> Counts]
    BY DEF PipeInv, LimiterSound
  <1>2. \A p \in Site : /\ limiter[p].waiting \in Int /\ limiter[p].active \in Int
                        /\ limiter[p].permits \in Int
    BY <1>1 DEF Counts
  <1>3. SiteOf(w) \in Site
    <2>1. work[w].rank \in 1..Len(Plans)
      BY DEF PipeInv, WorkSound, WorkRow, RowKnown, Owning
    <2> QED BY <2>1, PipelineAssumption DEF SiteOf
  <1>4. ASSUME NEW p \in Site
        PROVE  /\ limiter'[p].waiting = limiter[p].waiting + Takes(r, p, {"wait", "paced"})
                                          - Takes(work[w], p, {"wait", "paced"})
               /\ limiter'[p].active = limiter[p].active + Takes(r, p, {"call"})
                                          - Takes(work[w], p, {"call"})
               /\ limiter'[p].permits = limiter[p].permits - Takes(r, p, {"paced", "call"})
                                          + Takes(work[w], p, {"paced", "call"})
    <2>1. CASE p = SiteOf(w)
      <3>1. limiter'[p] = rec
        BY <1>1, <2>1
      <3> QED BY <2>1, <3>1
    <2>2. CASE p # SiteOf(w)
      <3>1. limiter'[p] = limiter[p]
        BY <1>1, <2>2
      <3>2. ASSUME NEW pcs PROVE Takes(r, p, pcs) = 0 /\ Takes(work[w], p, pcs) = 0
        BY <2>2 DEF Takes, SiteOf
      <3> QED BY <1>2, <3>1, <3>2
    <2> QED BY <2>1, <2>2
  <1>5. limiter' \in [Site -> Counts]
    BY <1>1
  <1> QED BY <1>4, <1>5, LimiterMoves

LEMMA RowTyped ==
  ASSUME PipeInv, NEW w \in Worker
  PROVE  /\ work[w] \in WorkRow /\ RowKnown(work[w]) /\ NoDir \notin Dir
         /\ work[w].pc \in Owning =>
              work[w].dir \in Dir /\ work[w].rank \in 1..Len(Plans)
         /\ dirs \in [Dir -> DirRow] /\ registry \subseteq Dir
  <1>1. work[w] \in WorkRow /\ RowKnown(work[w])
    BY DEF PipeInv, WorkSound
  <1>2. Len(Plans) \in Nat
    BY PipelineAssumption
  <1>3. work[w].pc \in Owning => work[w].dir \in Dir /\ work[w].rank \in 1..Len(Plans)
    BY <1>1, <1>2 DEF WorkRow, RowKnown
  <1> QED BY <1>1, <1>3, PipelineAssumption DEF PipeInv, DirsSound

LEMMA NoWorkKnown == NoWork \in WorkRow /\ RowKnown(NoWork)
  <1>1. Len(Plans) \in Nat
    BY PipelineAssumption
  <1> QED BY <1>1 DEF NoWork, WorkRow, RowKnown, Owning, Writing

LEMMA StartKeeps ==
  ASSUME PipeInv, NEW w \in Worker, StartWork(w)
  PROVE  PipeInv'
  <1> DEFINE r == [work[w] EXCEPT !.pc = "resolve"]
  <1>1. work[w] \in WorkRow /\ RowKnown(work[w]) /\ work[w].pc = "idle"
    BY RowTyped DEF StartWork
  <1>2. work[w].dir = NoDir
    BY <1>1 DEF RowKnown, Owning, Writing
  <1>3. r \in WorkRow /\ r.pc = "resolve" /\ r.dir = NoDir /\ r.rank <= r.plans
    BY <1>1, <1>2 DEF WorkRow, RowKnown
  <1>4. work' = [work EXCEPT ![w] = r] /\ UNCHANGED <<limiter, dirs, registry, uploads, sweep>>
    BY DEF StartWork, Move
  <1> HIDE DEF r
  <1> QED BY <1>1, <1>3, <1>4, BareMoves

LEMMA NothingKeeps ==
  ASSUME PipeInv, NEW w \in Worker, NothingToDo(w)
  PROVE  PipeInv'
  <1>1. /\ NoWork \in WorkRow /\ NoWork.pc = "idle" /\ NoWork.dir = NoDir
        /\ NoWork.rank <= NoWork.plans
    BY NoWorkKnown DEF NoWork
  <1>2. /\ work' = [work EXCEPT ![w] = NoWork] /\ work[w].pc = "resolve"
        /\ UNCHANGED <<limiter, dirs, registry, uploads, sweep>>
    BY DEF NothingToDo, Move
  <1> QED BY <1>1, <1>2, BareMoves

LEMMA DirCreated ==
  ASSUME PipeInv, NEW w \in Worker, CreateJob(w)
  PROVE  PipeInv'
  <1>1. work[w].pc = "resolve" /\ UNCHANGED <<limiter, uploads, sweep>>
    BY DEF CreateJob
  <1>2. ASSUME NEW x \in Unused, NEW r \in WorkRow, RowKnown(r), r.dir \in {x, NoDir},
               r.pc \in {"plan", "idle"}, work' = [work EXCEPT ![w] = r],
               dirs' = [dirs EXCEPT ![x].made = TRUE],
               registry' = registry \/ registry' = registry \cup {x},
               r.pc = "plan" => x \in registry'
        PROVE  PipeInv'
    <2> DEFINE rec == [dirs[x] EXCEPT !.made = TRUE]
    <2>1. x \in Dir /\ dirs \in [Dir -> DirRow] /\ registry \subseteq Dir
      BY <1>2, RowTyped DEF Unused
    <2>2. rec \in DirRow /\ rec.made
      BY <2>1 DEF DirRow
    <2>3. dirs' = [dirs EXCEPT ![x] = rec]
      BY <1>2
    <2>4. registry' \subseteq Dir /\ \A y \in registry : y \in registry'
      BY <1>2, <2>1
    <2> HIDE DEF rec
    <2>5. /\ r.pc \in Writing => x \in registry'
          /\ r.pc = "returned" => rec.final /\ ~rec.old
          /\ \A y \in registry : y # x => y \in registry'
      BY <1>2, <2>4 DEF Writing
    <2>6. WorkSound' /\ DirsSound' /\ SweepsSound'
      <3>1. MovesDir(w, r, x, rec)
        BY <1>1, <1>2, <2>1, <2>2, <2>3, <2>4, <2>5 DEF MovesDir
      <3> QED BY <2>1, <2>2, <3>1, DirMoves
    <2>7. LimiterSound'
      BY <1>1, <1>2, LimiterLeft DEF Queueing
    <2> QED BY <2>6, <2>7 DEF PipeInv
  <1>3. PICK x \in Unused, n \in 1..Len(Plans) :
          \/ /\ dirs' = [dirs EXCEPT ![x].made = TRUE]
             /\ registry' = registry \cup {x}
             /\ Move(w, [pc |-> "plan", dir |-> x, plans |-> n, rank |-> 1, op |-> "none"])
          \/ /\ dirs' = [dirs EXCEPT ![x].made = TRUE]
             /\ Move(w, NoWork)
             /\ UNCHANGED registry
    BY DEF CreateJob
  <1>4. CASE Move(w, NoWork) /\ dirs' = [dirs EXCEPT ![x].made = TRUE] /\ UNCHANGED registry
    <2>1. NoWork.pc = "idle" /\ NoWork.dir = NoDir
      BY DEF NoWork
    <2> QED BY <1>2, <1>4, <2>1, NoWorkKnown DEF Move
  <1>5. CASE /\ dirs' = [dirs EXCEPT ![x].made = TRUE]
             /\ registry' = registry \cup {x}
             /\ Move(w, [pc |-> "plan", dir |-> x, plans |-> n, rank |-> 1, op |-> "none"])
    <2> DEFINE r == [pc |-> "plan", dir |-> x, plans |-> n, rank |-> 1, op |-> "none"]
    <2>1. Len(Plans) \in Nat /\ x \in Dir
      BY PipelineAssumption DEF Unused
    <2>2. 1 \in 0..Len(Plans) /\ n \in 0..Len(Plans) /\ 1 <= n
      BY <2>1
    <2>3. r \in WorkRow /\ RowKnown(r) /\ r.pc = "plan" /\ r.dir = x
      BY <2>1, <2>2 DEF WorkRow, RowKnown, Owning, Writing
    <2>4. work' = [work EXCEPT ![w] = r]
      BY <1>5 DEF Move
    <2> HIDE DEF r
    <2> QED BY <1>2, <1>5, <2>3, <2>4
  <1> QED BY <1>3, <1>4, <1>5

(* A worker that goes on in its directory.                                 *)
LEMMA StaysInDir ==
  ASSUME PipeInv, NEW w \in Worker, work[w].pc \in Writing, NEW r \in WorkRow,
         r.pc \in Writing, r.dir = work[w].dir, r.rank = work[w].rank,
         r.plans = work[w].plans, work' = [work EXCEPT ![w] = r],
         UNCHANGED <<dirs, registry, uploads, sweep>>
  PROVE  WorkSound' /\ DirsSound' /\ SweepsSound'
  <1> DEFINE d == work[w].dir
  <1>1. /\ RowKnown(work[w]) /\ d \in Dir /\ work[w].rank \in 1..Len(Plans)
        /\ dirs \in [Dir -> DirRow] /\ registry \subseteq Dir
    BY RowTyped DEF Owning
  <1>2. RowKnown(r)
    BY <1>1 DEF RowKnown, Owning
  <1>3. dirs[d].made /\ d \in registry
    BY <1>1 DEF PipeInv, DirsSound
  <1>4. dirs[d] \in DirRow /\ dirs' = [dirs EXCEPT ![d] = dirs[d]]
    BY <1>1
  <1>5. MovesDir(w, r, d, dirs[d])
    <2>1. r.pc # "returned" /\ r.dir \in {d, NoDir}
      BY DEF Writing
    <2>2. d = work[w].dir
      OBVIOUS
    <2> HIDE DEF d
    <2> QED BY <1>1, <1>2, <1>3, <1>4, <2>1, <2>2 DEF MovesDir
  <1> HIDE DEF d
  <1> QED BY <1>1, <1>4, <1>5, DirMoves

(* A worker that writes in its directory, or lets it go.                   *)
LEMMA WritesDir ==
  ASSUME PipeInv, NEW w \in Worker, work[w].pc \in Owning, NEW r \in WorkRow, RowKnown(r),
         work' = [work EXCEPT ![w] = r], UNCHANGED <<uploads, sweep>>,
         NEW rec \in DirRow, dirs' = [dirs EXCEPT ![work[w].dir] = rec],
         \/ /\ r.pc \in Writing /\ r.dir = work[w].dir /\ rec.made
            /\ work[w].pc \in Writing /\ registry' = registry
         \/ /\ r.pc = "returned" /\ r.dir = work[w].dir /\ rec.made /\ rec.final
            /\ ~rec.old /\ registry' = Inactive(work[w].dir)
         \/ r.pc = "idle" /\ r.dir = NoDir /\ registry' = Inactive(work[w].dir)
  PROVE  WorkSound' /\ DirsSound' /\ SweepsSound'
  <1> DEFINE d == work[w].dir
  <1>1. d \in Dir /\ NoDir \notin Dir /\ registry \subseteq Dir
    BY RowTyped
  <1>2. work[w].pc \in Writing => d \in registry
    BY <1>1 DEF PipeInv, DirsSound
  <1>3. d = work[w].dir
    OBVIOUS
  <1> HIDE DEF d
  <1>4. /\ registry' \subseteq Dir
        /\ \A x \in registry : x # d => x \in registry'
    BY <1>1, <1>3 DEF Inactive
  <1>5. /\ r.dir \in {d, NoDir}
        /\ r.dir = d => rec.made
        /\ r.pc \in Writing => d \in registry'
        /\ r.pc = "returned" => rec.final /\ ~rec.old
    BY <1>1, <1>2, <1>3 DEF Writing
  <1>6. MovesDir(w, r, d, rec)
    BY <1>3, <1>4, <1>5 DEF MovesDir
  <1> QED BY <1>1, <1>6, DirMoves

LEMMA LeaveKeeps ==
  ASSUME PipeInv, NEW w \in Worker, work[w].pc \in Owning, Leave(w),
         UNCHANGED <<uploads, sweep>>,
         \/ limiter' = GivesUp(w)
         \/ limiter' = limiter /\ work[w].pc \notin Queueing
  PROVE  PipeInv'
  <1>1. /\ work' = [work EXCEPT ![w] = NoWork] /\ registry' = Inactive(work[w].dir)
        /\ dirs' = [dirs EXCEPT ![work[w].dir] = NoFiles]
    BY DEF Leave, Move, ReleasedAll
  <1>2. NoFiles \in DirRow /\ NoWork.pc = "idle" /\ NoWork.dir = NoDir
    BY DEF NoFiles, DirRow, NoWork
  <1>3. NoWork \in WorkRow /\ RowKnown(NoWork)
    BY NoWorkKnown
  <1>4. WorkSound' /\ DirsSound' /\ SweepsSound'
    BY <1>1, <1>2, <1>3, WritesDir
  <1>5. LimiterSound'
    BY <1>1, <1>2, LimiterLeft DEF Queueing
  <1> QED BY <1>4, <1>5 DEF PipeInv

LEMMA StopKeeps ==
  ASSUME PipeInv, NEW w \in Worker, StopWork(w)
  PROVE  PipeInv'
  <1>1. /\ work[w].pc \in Owning /\ Leave(w) /\ limiter' = GivesUp(w)
        /\ UNCHANGED <<uploads, sweep>>
    BY DEF StopWork, Owning, Writing
  <1> QED BY <1>1, LeaveKeeps

LEMMA ClearedRow ==
  ASSUME PipeInv, NEW x \in Dir, NEW n
  PROVE  /\ Cleared(x, n) = [dirs EXCEPT ![x] = [dirs[x] EXCEPT !.attempts = @ \ {n}, !.old = FALSE]]
         /\ [dirs[x] EXCEPT !.attempts = @ \ {n}, !.old = FALSE] \in DirRow
         /\ [dirs[x] EXCEPT !.attempts = @ \ {n}, !.old = FALSE].made = dirs[x].made
  <1>1. dirs \in [Dir -> DirRow] /\ dirs[x] \in DirRow
    BY DEF PipeInv, DirsSound
  <1> DEFINE attempts1 == dirs[x].attempts \ {n}
             old == dirs[x]
             rec == [old EXCEPT !.attempts = attempts1, !.old = FALSE]
  <1>2. attempts1 \in SUBSET (1..Len(Plans))
    BY <1>1 DEF DirRow
  <1>3. Cleared(x, n) = [dirs EXCEPT ![x] = rec]
    BY <1>1 DEF Cleared
  <1>4. old \in DirRow
    BY <1>1
  <1>5. rec = [dirs[x] EXCEPT !.attempts = @ \ {n}, !.old = FALSE]
    BY <1>1 DEF DirRow
  <1> HIDE DEF attempts1, old
  <1>6. rec \in DirRow /\ rec.made = old.made
    BY <1>2, <1>4 DEF DirRow
  <1> HIDE DEF rec
  <1> QED BY <1>3, <1>5, <1>6 DEF old

LEMMA FailedKeeps ==
  ASSUME PipeInv, NEW w \in Worker, work[w].pc \in {"call", "media"}, PlanFailed(w),
         UNCHANGED <<uploads, sweep>>,
         \/ limiter' = GivesUp(w)
         \/ limiter' = limiter /\ work[w].pc \notin Queueing
  PROVE  PipeInv'
  <1>1. work[w].pc \in Owning /\ work[w].pc \in Writing
    BY DEF Owning, Writing
  <1>2. CASE Leave(w)
    BY <1>1, <1>2, LeaveKeeps
  <1>3. CASE ~Leave(w)
    <2> DEFINE n == work[w].rank
               d == work[w].dir
               old == work[w]
               rank1 == n + 1
               r == [old EXCEPT !.pc = "plan", !.rank = rank1, !.op = "none"]
               rec == [dirs[d] EXCEPT !.attempts = @ \ {n}, !.old = FALSE]
    <2>1. /\ work[w].rank < work[w].plans /\ dirs' = Cleared(d, n)
          /\ work' = [work EXCEPT ![w] = r] /\ registry' = registry
      BY <1>3 DEF PlanFailed, Move
    <2>2. d \in Dir /\ n \in 1..Len(Plans) /\ work[w] \in WorkRow /\ RowKnown(work[w])
      BY <1>1, RowTyped
    <2>3. dirs[d].made
      BY <1>1, <2>2 DEF PipeInv, DirsSound
    <2>4. rec \in DirRow /\ dirs' = [dirs EXCEPT ![d] = rec] /\ rec.made
      BY <2>1, <2>2, <2>3, ClearedRow
    <2>5. Len(Plans) \in Nat
      BY PipelineAssumption
    <2>6. old \in WorkRow /\ old.dir \in Dir /\ rank1 \in 1..Len(Plans) /\ rank1 <= old.plans
      <3>1. work[w].plans \in 0..Len(Plans)
        BY <2>2 DEF WorkRow
      <3> QED BY <2>1, <2>2, <2>5, <3>1
    <2> HIDE DEF old, rank1, rec
    <2>7. r \in WorkRow /\ r.pc = "plan" /\ r.dir = old.dir /\ r.rank = rank1
          /\ r.plans = old.plans
      <3>1. rank1 \in 0..Len(Plans) /\ "plan" \in {"idle", "resolve"} \cup Owning
        BY <2>5, <2>6 DEF Owning, Writing
      <3> QED BY <2>6, <3>1 DEF WorkRow
    <2> HIDE DEF r
    <2>8. RowKnown(r)
      BY <2>6, <2>7 DEF RowKnown, Owning, Writing
    <2>9. r.dir = work[w].dir /\ r.pc \in Writing /\ r.pc \notin Queueing
      BY <2>7 DEF old, Writing, Queueing
    <2>10. WorkSound' /\ DirsSound' /\ SweepsSound'
      BY <1>1, <2>1, <2>4, <2>7, <2>8, <2>9, WritesDir
    <2>11. LimiterSound'
      BY <2>1, <2>9, LimiterLeft
    <2> QED BY <2>10, <2>11 DEF PipeInv
  <1> QED BY <1>2, <1>3

LEMMA SiteTyped ==
  ASSUME PipeInv, NEW w \in Worker, work[w].pc \in Owning
  PROVE  /\ SiteOf(w) \in Site
         /\ limiter \in [Site -> Counts] /\ limiter[SiteOf(w)] \in Counts
         /\ limiter[SiteOf(w)].permits \in Int /\ limiter[SiteOf(w)].waiting \in Int
         /\ limiter[SiteOf(w)].active \in Int
  <1>1. work[w].rank \in 1..Len(Plans)
    BY RowTyped
  <1>2. SiteOf(w) \in Site
    BY <1>1, PipelineAssumption DEF SiteOf
  <1>3. limiter \in [Site -> Counts]
    BY DEF PipeInv, LimiterSound
  <1>4. limiter[SiteOf(w)] \in Counts
    BY <1>2, <1>3
  <1> QED BY <1>2, <1>3, <1>4 DEF Counts

(* The row a worker queues, starts or goes on with.                        *)
LEMMA QueuedRow ==
  ASSUME PipeInv, NEW w \in Worker, work[w].pc \in Writing,
         NEW pc \in Writing, NEW op \in {"none", "check", "prepare", "download"}
  PROVE  LET r == [work[w] EXCEPT !.pc = pc, !.op = op]
         IN  /\ r \in WorkRow /\ r.pc = pc /\ r.dir = work[w].dir
             /\ r.rank = work[w].rank /\ r.plans = work[w].plans
  <1>1. work[w] \in WorkRow
    BY RowTyped
  <1> QED BY <1>1 DEF WorkRow, Owning

LEMMA BeginKeeps ==
  ASSUME PipeInv, NEW w \in Worker, BeginPlan(w)
  PROVE  PipeInv'
  <1> DEFINE r == [work[w] EXCEPT !.pc = "wait", !.op = "check"]
             q == SiteOf(w)
             d == work[w].dir
             c == limiter[q]
             waiting1 == c.waiting + 1
             rec == [c EXCEPT !.waiting = waiting1]
             old == dirs[d]
             attempts1 == old.attempts \cup {work[w].rank}
             files == [old EXCEPT !.attempts = attempts1, !.old = FALSE]
  <1>1. /\ work[w].pc = "plan" /\ work[w].pc \in Writing /\ work[w].pc \in Owning
        /\ UNCHANGED <<registry, uploads, sweep>>
        /\ work' = [work EXCEPT ![w] = r]
        /\ limiter' = Waits(q) /\ dirs' = WithAttempt(d, work[w].rank)
    BY DEF BeginPlan, Move, Writing, Owning
  <1>2. /\ r \in WorkRow /\ r.pc = "wait" /\ r.dir = work[w].dir
        /\ r.rank = work[w].rank /\ r.plans = work[w].plans
    BY <1>1, QueuedRow DEF Writing
  <1>3. /\ work[w] \in WorkRow /\ RowKnown(work[w]) /\ d \in Dir
        /\ work[w].rank \in 1..Len(Plans) /\ dirs \in [Dir -> DirRow]
    BY <1>1, RowTyped
  <1>4. /\ q \in Site /\ limiter \in [Site -> Counts] /\ c \in Counts
        /\ c.permits \in Int /\ c.waiting \in Int /\ c.active \in Int
    BY <1>1, SiteTyped
  <1>5. old \in DirRow /\ attempts1 \in SUBSET (1..Len(Plans)) /\ old.made
    <2>1. old \in DirRow
      BY <1>3
    <2>2. old.made
      BY <1>3 DEF PipeInv, DirsSound
    <2> QED BY <1>3, <2>1, <2>2 DEF DirRow
  <1>6. dirs' = [dirs EXCEPT ![d] = files]
    BY <1>1, <1>3 DEF WithAttempt
  <1>7. limiter' = [limiter EXCEPT ![q] = rec]
    BY <1>1, <1>4 DEF Waits
  <1>8. /\ Takes(r, q, {"wait", "paced"}) = 1 /\ Takes(work[w], q, {"wait", "paced"}) = 0
        /\ Takes(r, q, {"call"}) = 0 /\ Takes(work[w], q, {"call"}) = 0
        /\ Takes(r, q, {"paced", "call"}) = 0 /\ Takes(work[w], q, {"paced", "call"}) = 0
    BY <1>1, <1>2 DEF Takes, SiteOf
  <1> HIDE DEF r
  <1>9. RowKnown(r)
    <2>1. r.pc \in Owning /\ r.rank <= r.plans /\ r.dir \in Dir /\ r.rank >= 1
      BY <1>1, <1>2, <1>3 DEF RowKnown, Owning, Writing
    <2> QED BY <2>1 DEF RowKnown
  <1>10. waiting1 \in Int
    BY <1>4
  <1> HIDE DEF waiting1, c, q, attempts1, old
  <1>11. rec \in Counts /\ rec.waiting = waiting1 /\ rec.active = c.active
         /\ rec.permits = c.permits
    BY <1>4, <1>10 DEF Counts
  <1>12. files \in DirRow /\ files.made
    BY <1>5 DEF DirRow
  <1> HIDE DEF files, rec
  <1>13. WorkSound' /\ DirsSound' /\ SweepsSound'
    <2>1. r.pc \in Writing
      BY <1>2 DEF Writing
    <2> QED BY <1>1, <1>2, <1>6, <1>9, <1>12, <2>1, WritesDir DEF d
  <1>14. LimiterSound'
    <2>1. /\ rec.waiting = c.waiting + Takes(r, q, {"wait", "paced"})
                             - Takes(work[w], q, {"wait", "paced"})
          /\ rec.active = c.active + Takes(r, q, {"call"}) - Takes(work[w], q, {"call"})
          /\ rec.permits = c.permits - Takes(r, q, {"paced", "call"})
                             + Takes(work[w], q, {"paced", "call"})
      BY <1>4, <1>8, <1>11 DEF waiting1
    <2> QED BY <1>1, <1>2, <1>7, <1>11, <2>1, LimiterCalls DEF c, q
  <1> QED BY <1>13, <1>14 DEF PipeInv

LEMMA AcquireKeeps ==
  ASSUME PipeInv, NEW w \in Worker, Acquire(w)
  PROVE  PipeInv'
  <1> DEFINE r == [work[w] EXCEPT !.pc = "paced"]
             q == SiteOf(w)
             c == limiter[q]
             permits1 == c.permits - 1
             rec == [c EXCEPT !.permits = permits1]
  <1>1. /\ work[w].pc = "wait" /\ work[w].pc \in Writing /\ work[w].pc \in Owning
        /\ UNCHANGED <<dirs, registry, uploads, sweep>>
        /\ work' = [work EXCEPT ![w] = r]
        /\ limiter' = [limiter EXCEPT ![q].permits = @ - 1]
    BY DEF Acquire, Move, Writing, Owning
  <1>2. /\ r \in WorkRow /\ r.pc = "paced" /\ r.dir = work[w].dir
        /\ r.rank = work[w].rank /\ r.plans = work[w].plans
    BY <1>1, RowTyped DEF WorkRow, Owning, Writing
  <1>3. /\ q \in Site /\ limiter \in [Site -> Counts] /\ c \in Counts
        /\ c.permits \in Int /\ c.waiting \in Int /\ c.active \in Int
    BY <1>1, SiteTyped
  <1>4. limiter' = [limiter EXCEPT ![q] = rec]
    BY <1>1, <1>3
  <1>5. /\ Takes(r, q, {"wait", "paced"}) = 1 /\ Takes(work[w], q, {"wait", "paced"}) = 1
        /\ Takes(r, q, {"call"}) = 0 /\ Takes(work[w], q, {"call"}) = 0
        /\ Takes(r, q, {"paced", "call"}) = 1 /\ Takes(work[w], q, {"paced", "call"}) = 0
    BY <1>1, <1>2 DEF Takes, SiteOf
  <1>6. permits1 \in Int
    BY <1>3
  <1> HIDE DEF permits1, c, q
  <1>7. rec \in Counts /\ rec.waiting = c.waiting /\ rec.active = c.active
        /\ rec.permits = permits1
    BY <1>3, <1>6 DEF Counts
  <1> HIDE DEF rec, r
  <1>8. WorkSound' /\ DirsSound' /\ SweepsSound'
    <2>1. r.pc \in Writing
      BY <1>2 DEF Writing
    <2> QED BY <1>1, <1>2, <2>1, StaysInDir
  <1>9. LimiterSound'
    <2>1. /\ rec.waiting = c.waiting + Takes(r, q, {"wait", "paced"})
                             - Takes(work[w], q, {"wait", "paced"})
          /\ rec.active = c.active + Takes(r, q, {"call"}) - Takes(work[w], q, {"call"})
          /\ rec.permits = c.permits - Takes(r, q, {"paced", "call"})
                             + Takes(work[w], q, {"paced", "call"})
      BY <1>3, <1>5, <1>7 DEF permits1
    <2> QED BY <1>1, <1>2, <1>4, <1>7, <2>1, LimiterCalls DEF c, q
  <1> QED BY <1>8, <1>9 DEF PipeInv

LEMMA CallKeeps ==
  ASSUME PipeInv, NEW w \in Worker, Call(w)
  PROVE  PipeInv'
  <1> DEFINE r == [work[w] EXCEPT !.pc = "call"]
             q == SiteOf(w)
             c == limiter[q]
             waiting1 == c.waiting - 1
             active1 == c.active + 1
             rec == [c EXCEPT !.waiting = waiting1, !.active = active1]
  <1>1. /\ work[w].pc = "paced" /\ work[w].pc \in Writing /\ work[w].pc \in Owning
        /\ UNCHANGED <<dirs, registry, uploads, sweep>>
        /\ work' = [work EXCEPT ![w] = r]
        /\ limiter' = [limiter EXCEPT ![q].waiting = @ - 1, ![q].active = @ + 1]
    BY DEF Call, Move, Writing, Owning
  <1>2. /\ r \in WorkRow /\ r.pc = "call" /\ r.dir = work[w].dir
        /\ r.rank = work[w].rank /\ r.plans = work[w].plans
    BY <1>1, RowTyped DEF WorkRow, Owning, Writing
  <1>3. /\ q \in Site /\ limiter \in [Site -> Counts] /\ c \in Counts
        /\ c.permits \in Int /\ c.waiting \in Int /\ c.active \in Int
    BY <1>1, SiteTyped
  <1>4. limiter' = [limiter EXCEPT ![q] = rec]
    BY <1>1, <1>3
  <1>5. /\ Takes(r, q, {"wait", "paced"}) = 0 /\ Takes(work[w], q, {"wait", "paced"}) = 1
        /\ Takes(r, q, {"call"}) = 1 /\ Takes(work[w], q, {"call"}) = 0
        /\ Takes(r, q, {"paced", "call"}) = 1 /\ Takes(work[w], q, {"paced", "call"}) = 1
    BY <1>1, <1>2 DEF Takes, SiteOf
  <1>6. waiting1 \in Int /\ active1 \in Int
    BY <1>3
  <1> HIDE DEF waiting1, active1, c, q
  <1>7. rec \in Counts /\ rec.waiting = waiting1 /\ rec.active = active1
        /\ rec.permits = c.permits
    BY <1>3, <1>6 DEF Counts
  <1> HIDE DEF rec, r
  <1>8. WorkSound' /\ DirsSound' /\ SweepsSound'
    <2>1. r.pc \in Writing
      BY <1>2 DEF Writing
    <2> QED BY <1>1, <1>2, <2>1, StaysInDir
  <1>9. LimiterSound'
    <2>1. /\ rec.waiting = c.waiting + Takes(r, q, {"wait", "paced"})
                             - Takes(work[w], q, {"wait", "paced"})
          /\ rec.active = c.active + Takes(r, q, {"call"}) - Takes(work[w], q, {"call"})
          /\ rec.permits = c.permits - Takes(r, q, {"paced", "call"})
                             + Takes(work[w], q, {"paced", "call"})
      BY <1>3, <1>5, <1>7 DEF waiting1, active1
    <2> QED BY <1>1, <1>2, <1>4, <1>7, <2>1, LimiterCalls DEF c, q
  <1> QED BY <1>8, <1>9 DEF PipeInv

(* operation() is left, and the next one of the plan entered.              *)
LEMMA ThenKeeps ==
  ASSUME PipeInv, NEW w \in Worker, work[w].pc = "call", NEW op \in {"prepare", "download"},
         Then(w, op), UNCHANGED <<uploads, sweep>>
  PROVE  PipeInv'
  <1> DEFINE r == [work[w] EXCEPT !.pc = "wait", !.op = op]
             q == SiteOf(w)
             left == GivesUp(w)
             c == left[q]
             waiting1 == c.waiting + 1
             rec == [c EXCEPT !.waiting = waiting1]
  <1>1. /\ work[w].pc \in Writing /\ work[w].pc \in Owning
        /\ UNCHANGED <<dirs, registry, uploads, sweep>>
        /\ work' = [work EXCEPT ![w] = r]
        /\ limiter' = [left EXCEPT ![q].waiting = @ + 1]
    BY DEF Then, Move, Writing, Owning
  <1>2. /\ r \in WorkRow /\ r.pc = "wait" /\ r.dir = work[w].dir
        /\ r.rank = work[w].rank /\ r.plans = work[w].plans
    <2>1. "wait" \in Owning /\ op \in {"none", "check", "prepare", "download"}
      BY DEF Owning, Writing
    <2>2. work[w] \in WorkRow
      BY RowTyped
    <2> QED BY <2>1, <2>2 DEF WorkRow
  <1>3. q \in Site /\ limiter \in [Site -> Counts]
    BY <1>1, SiteTyped
  <1>4. /\ left \in [Site -> Counts]
        /\ \A p \in Site :
             /\ left[p].waiting = limiter[p].waiting - Takes(work[w], p, {"wait", "paced"})
             /\ left[p].active = limiter[p].active - Takes(work[w], p, {"call"})
             /\ left[p].permits = limiter[p].permits + Takes(work[w], p, {"paced", "call"})
    BY GivesUpAll
  <1> HIDE DEF left, q
  <1>5. limiter' = [left EXCEPT ![q] = rec]
    BY <1>1, <1>3, <1>4
  <1>6. c \in Counts /\ c.permits \in Int /\ c.waiting \in Int /\ c.active \in Int
    BY <1>3, <1>4 DEF Counts
  <1>7. waiting1 \in Int
    BY <1>6
  <1> HIDE DEF waiting1
  <1>8. rec \in Counts /\ rec.waiting = waiting1 /\ rec.active = c.active
        /\ rec.permits = c.permits
    BY <1>6, <1>7 DEF Counts
  <1> HIDE DEF rec, r
  <1>9. WorkSound' /\ DirsSound' /\ SweepsSound'
    <2>1. r.pc \in Writing
      BY <1>2 DEF Writing
    <2> QED BY <1>1, <1>2, <2>1, StaysInDir
  <1>10. ASSUME NEW p \in Site
         PROVE  /\ limiter'[p].waiting = limiter[p].waiting + Takes(r, p, {"wait", "paced"})
                                           - Takes(work[w], p, {"wait", "paced"})
                /\ limiter'[p].active = limiter[p].active + Takes(r, p, {"call"})
                                           - Takes(work[w], p, {"call"})
                /\ limiter'[p].permits = limiter[p].permits - Takes(r, p, {"paced", "call"})
                                           + Takes(work[w], p, {"paced", "call"})
    <2>1. /\ limiter[p].waiting \in Int /\ limiter[p].active \in Int
          /\ limiter[p].permits \in Int
      BY <1>3 DEF Counts
    <2>2. ASSUME NEW pcs PROVE Takes(work[w], p, pcs) \in Int
      BY DEF Takes
    <2>3. Takes(r, p, {"call"}) = 0 /\ Takes(r, p, {"paced", "call"}) = 0
      BY <1>2 DEF Takes
    <2>4. /\ left[p].waiting = limiter[p].waiting - Takes(work[w], p, {"wait", "paced"})
          /\ left[p].active = limiter[p].active - Takes(work[w], p, {"call"})
          /\ left[p].permits = limiter[p].permits + Takes(work[w], p, {"paced", "call"})
      BY <1>4
    <2>5. CASE p = q
      <3>1. Takes(r, p, {"wait", "paced"}) = 1
        BY <1>2, <2>5 DEF Takes, SiteOf, q
      <3>2. limiter'[p] = rec
        BY <1>4, <1>5, <2>5
      <3>3. limiter'[p].waiting = left[p].waiting + 1 /\ limiter'[p].active = left[p].active
            /\ limiter'[p].permits = left[p].permits
        BY <1>8, <2>5, <3>2 DEF waiting1
      <3> QED BY <2>1, <2>2, <2>3, <2>4, <3>1, <3>3
    <2>6. CASE p # q
      <3>1. Takes(r, p, {"wait", "paced"}) = 0
        BY <1>2, <2>6 DEF Takes, SiteOf, q
      <3>2. limiter'[p] = left[p]
        BY <1>4, <1>5, <2>6
      <3> QED BY <2>1, <2>2, <2>3, <2>4, <3>1, <3>2
    <2> QED BY <2>5, <2>6
  <1>11. limiter' \in [Site -> Counts]
    BY <1>4, <1>5, <1>8
  <1>12. LimiterSound'
    BY <1>1, <1>10, <1>11, LimiterMoves
  <1> QED BY <1>9, <1>12 DEF PipeInv

LEMMA EndsKeeps ==
  ASSUME PipeInv, NEW w \in Worker, CallEnds(w)
  PROVE  PipeInv'
  <1>1. work[w].pc = "call" /\ UNCHANGED <<uploads, sweep>>
    BY DEF CallEnds
  <1>2. CASE Then(w, "prepare") \/ Then(w, "download")
    BY <1>1, <1>2, ThenKeeps
  <1>3. CASE limiter' = GivesUp(w) /\ PlanFailed(w)
    BY <1>1, <1>3, FailedKeeps
  <1>4. CASE /\ limiter' = GivesUp(w)
             /\ Move(w, [work[w] EXCEPT !.pc = "media", !.op = "none"])
             /\ UNCHANGED <<dirs, registry>>
    <2> DEFINE r == [work[w] EXCEPT !.pc = "media", !.op = "none"]
    <2>1. work[w].pc \in Writing /\ "media" \in Writing
      BY <1>1 DEF Writing
    <2>2. /\ r \in WorkRow /\ r.pc = "media" /\ r.dir = work[w].dir
          /\ r.rank = work[w].rank /\ r.plans = work[w].plans
      BY <2>1, QueuedRow
    <2>3. work' = [work EXCEPT ![w] = r]
      BY <1>4 DEF Move
    <2> HIDE DEF r
    <2>4. WorkSound' /\ DirsSound' /\ SweepsSound'
      BY <1>1, <1>4, <2>1, <2>2, <2>3, StaysInDir
    <2>5. LimiterSound'
      BY <1>4, <2>2, <2>3, LimiterLeft DEF Queueing
    <2> QED BY <2>4, <2>5 DEF PipeInv
  <1> QED BY <1>2, <1>3, <1>4 DEF CallEnds

LEMMA ProduceKeeps ==
  ASSUME PipeInv, NEW w \in Worker, Produce(w)
  PROVE  PipeInv'
  <1> DEFINE r == [work[w] EXCEPT !.pc = "returned"]
             d == work[w].dir
             n == work[w].rank
             old == dirs[d]
             cleared == [old EXCEPT !.attempts = @ \ {n}, !.old = FALSE]
             rec == [cleared EXCEPT !.final = TRUE]
  <1>1. /\ work[w].pc = "media" /\ work[w].pc \in Owning /\ work[w].pc \in Writing
        /\ UNCHANGED <<limiter, uploads, sweep>> /\ registry' = Inactive(d)
        /\ work' = [work EXCEPT ![w] = r]
        /\ dirs' = [Cleared(d, n) EXCEPT ![d].final = TRUE]
    BY DEF Produce, Move, Owning, Writing
  <1>2. /\ work[w] \in WorkRow /\ RowKnown(work[w]) /\ d \in Dir /\ n \in 1..Len(Plans)
        /\ dirs \in [Dir -> DirRow]
    BY <1>1, RowTyped
  <1>3. old.made
    BY <1>2 DEF PipeInv, DirsSound
  <1>4. /\ Cleared(d, n) = [dirs EXCEPT ![d] = cleared] /\ cleared \in DirRow
        /\ cleared.made = old.made
    BY <1>2, ClearedRow
  <1>5. cleared.old = FALSE
    BY <1>2 DEF DirRow
  <1> HIDE DEF cleared, old
  <1>6. rec \in DirRow /\ rec.made /\ rec.final /\ ~rec.old
    BY <1>3, <1>4, <1>5 DEF DirRow
  <1>7. dirs' = [dirs EXCEPT ![d] = rec]
    BY <1>1, <1>2, <1>4
  <1>8. /\ r \in WorkRow /\ r.pc = "returned" /\ r.dir = d /\ r.rank = n
        /\ r.plans = work[w].plans
    BY <1>2 DEF WorkRow, Owning
  <1> HIDE DEF r, rec
  <1>9. RowKnown(r)
    BY <1>1, <1>2, <1>8 DEF RowKnown, Owning
  <1>10. WorkSound' /\ DirsSound' /\ SweepsSound'
    BY <1>1, <1>6, <1>7, <1>8, <1>9, WritesDir
  <1>11. LimiterSound'
    BY <1>1, <1>8, LimiterLeft DEF Queueing
  <1> QED BY <1>10, <1>11 DEF PipeInv

LEMMA MediaFailsKeeps ==
  ASSUME PipeInv, NEW w \in Worker, MediaFails(w)
  PROVE  PipeInv'
  <1>1. /\ work[w].pc = "media" /\ PlanFailed(w) /\ limiter' = limiter
        /\ UNCHANGED <<uploads, sweep>>
    BY DEF MediaFails
  <1> QED BY <1>1, FailedKeeps DEF Queueing

LEMMA HandOffKeeps ==
  ASSUME PipeInv, NEW w \in Worker, HandOff(w)
  PROVE  PipeInv'
  <1> DEFINE d == work[w].dir
  <1>1. /\ work[w].pc = "returned" /\ work[w].pc \in Owning
        /\ uploads' = uploads \cup {d} /\ work' = [work EXCEPT ![w] = NoWork]
        /\ UNCHANGED <<limiter, dirs, registry, sweep>>
    BY DEF HandOff, Move, Owning
  <1>2. DirsSound /\ SweepsSound /\ d \in Dir /\ NoDir \notin Dir
    BY <1>1, RowTyped DEF PipeInv
  <1>3. /\ WorkSound' /\ work'[w] = NoWork
        /\ \A v \in Worker : v # w => work'[v] = work[v]
    BY <1>1, NoWorkKnown, WorkMoves
  <1>4. NoWork.pc = "idle" /\ NoWork.dir = NoDir
    BY DEF NoWork
  <1>5. dirs[d].made /\ dirs[d].final /\ ~dirs[d].old
    BY <1>1, <1>2 DEF DirsSound
  <1>6. \A v \in Worker : v # w => work[v].dir # d
    BY <1>2 DEF DirsSound
  <1> HIDE DEF d
  <1>7. DirsSound'
    <2>1. ASSUME NEW v \in Worker, work'[v].dir \in Dir
          PROVE  /\ dirs[work'[v].dir].made /\ work'[v].dir \notin uploads'
                 /\ \A u \in Worker : work'[u].dir = work'[v].dir => u = v
      <3>1. v # w /\ work'[v] = work[v] /\ work[v].dir # d
        BY <1>2, <1>3, <1>4, <1>6, <2>1
      <3>2. /\ dirs[work[v].dir].made /\ work[v].dir \notin uploads
            /\ \A u \in Worker : work[u].dir = work[v].dir => u = v
        BY <1>2, <2>1, <3>1 DEF DirsSound
      <3>3. \A u \in Worker : work'[u].dir = work[v].dir => u = v
        BY <1>2, <1>3, <1>4, <2>1, <3>1, <3>2
      <3> QED BY <1>1, <3>1, <3>2, <3>3
    <2>2. \A v \in Worker : work'[v].pc \in Writing \cup {"returned"} =>
                             work'[v] = work[v]
      BY <1>3, <1>4 DEF Writing
    <2>3. \A x \in uploads' : dirs[x].made /\ dirs[x].final
      BY <1>1, <1>2, <1>5 DEF DirsSound
    <2>4. uploads' \subseteq Dir
      BY <1>1, <1>2 DEF DirsSound
    <2> QED BY <1>1, <1>2, <2>1, <2>2, <2>3, <2>4 DEF DirsSound
  <1>8. SweepsSound'
    <2>1. ASSUME NEW s \in Sweeper, sweep[s].pc = "remove"
          PROVE  /\ sweep[s].at \in sweep[s].stale /\ sweep[s].at \notin uploads'
                 /\ \A v \in Worker : work'[v].dir # sweep[s].at
      <3>1. /\ sweep[s].at \in sweep[s].stale /\ sweep[s].at \notin uploads
            /\ \A v \in Worker : work[v].dir # sweep[s].at
        BY <1>2, <2>1 DEF SweepsSound
      <3>2. sweep[s].at \in Dir
        BY <1>2, <3>1 DEF SweepsSound, SweepRow
      <3>3. sweep[s].at \notin uploads'
        BY <1>1, <3>1 DEF d
      <3>4. ASSUME NEW v \in Worker PROVE work'[v].dir # sweep[s].at
        BY <1>2, <1>3, <1>4, <3>1, <3>2
      <3> QED BY <3>1, <3>3, <3>4
    <2>2. ASSUME NEW s \in Sweeper, NEW x \in sweep[s].stale, x \in uploads'
          PROVE  x \in sweep[s].protected \/ ~dirs[x].old
      BY <1>1, <1>2, <1>5, <2>2 DEF SweepsSound
    <2> QED BY <1>1, <1>2, <2>1, <2>2 DEF SweepsSound
  <1>9. LimiterSound'
    BY <1>1, <1>4, LimiterLeft DEF Queueing
  <1> QED BY <1>3, <1>7, <1>8, <1>9 DEF PipeInv

(* A directory nobody works in is removed, or gets old.                    *)
LEMMA DirFreed ==
  ASSUME PipeInv, UNCHANGED <<work, limiter, registry>>, NEW x \in Dir, NEW rec \in DirRow,
         dirs' = [dirs EXCEPT ![x] = rec], uploads' \subseteq uploads, x \notin uploads',
         \A w \in Worker : work[w].dir = x =>
            rec.made = dirs[x].made /\ work[w].pc # "returned"
  PROVE  WorkSound' /\ DirsSound' /\ LimiterSound'
  <1>1. WorkSound /\ DirsSound /\ LimiterSound
    BY DEF PipeInv
  <1>2. WorkSound'
    BY <1>1 DEF WorkSound
  <1>3. LimiterSound'
    BY <1>1 DEF LimiterSound, LimiterIsTrue, Calling, SiteOf
  <1>4. /\ dirs' \in [Dir -> DirRow] /\ dirs'[x] = rec
        /\ \A y \in Dir : y # x => dirs'[y] = dirs[y]
    BY <1>1 DEF DirsSound
  <1>5. \A w \in Worker : work[w].dir \in Dir =>
          /\ dirs'[work[w].dir].made /\ work[w].dir \notin uploads'
          /\ \A v \in Worker : work[v].dir = work[w].dir => v = w
    <2>1. ASSUME NEW w \in Worker, work[w].dir \in Dir PROVE dirs'[work[w].dir].made
      <3>1. dirs[work[w].dir].made
        BY <1>1, <2>1 DEF DirsSound
      <3> QED BY <1>4, <2>1, <3>1
    <2> QED BY <1>1, <2>1 DEF DirsSound
  <1>6. ASSUME NEW w \in Worker, work[w].pc = "returned"
        PROVE  dirs'[work[w].dir].final /\ ~dirs'[work[w].dir].old
    <2>1. work[w].dir \in Dir
      BY <1>6, RowTyped DEF Owning
    <2>2. work[w].dir # x
      BY <1>6
    <2>3. dirs[work[w].dir].final /\ ~dirs[work[w].dir].old
      BY <1>1, <1>6 DEF DirsSound
    <2> QED BY <1>4, <2>1, <2>2, <2>3
  <1>7. \A y \in uploads' : dirs'[y].made /\ dirs'[y].final
    BY <1>1, <1>4 DEF DirsSound
  <1>8. uploads' \subseteq Dir
    BY <1>1 DEF DirsSound
  <1>9. DirsSound'
    BY <1>1, <1>4, <1>5, <1>6, <1>7, <1>8 DEF DirsSound
  <1> QED BY <1>2, <1>3, <1>9

LEMMA UploadKeeps ==
  ASSUME PipeInv, NEW x \in Dir, UploadEnds(x)
  PROVE  PipeInv'
  <1>1. /\ x \in uploads /\ uploads' = uploads \ {x}
        /\ UNCHANGED <<work, limiter, registry, sweep>>
    BY DEF UploadEnds
  <1>2. DirsSound /\ SweepsSound
    BY DEF PipeInv
  <1>3. \A w \in Worker : work[w].dir # x
    BY <1>1, <1>2 DEF DirsSound
  <1>4. NoFiles \in DirRow /\ ~NoFiles.old
    BY DEF NoFiles, DirRow
  <1>5. PICK rec \in DirRow : dirs' = [dirs EXCEPT ![x] = rec] /\ (rec.old => dirs[x].old)
    <2>1. CASE dirs' = ReleasedAll(x)
      BY <1>4, <2>1 DEF ReleasedAll
    <2>2. CASE dirs' = dirs
      <3>1. dirs[x] \in DirRow /\ dirs' = [dirs EXCEPT ![x] = dirs[x]]
        BY <1>2, <2>2 DEF DirsSound
      <3> QED BY <3>1
    <2> QED BY <2>1, <2>2 DEF UploadEnds
  <1>6. WorkSound' /\ DirsSound' /\ LimiterSound'
    BY <1>1, <1>3, <1>5, DirFreed
  <1>7. SweepsSound'
    <2>1. \A y \in uploads' : y # x /\ y \in uploads /\ dirs'[y] = dirs[y]
      BY <1>1, <1>2, <1>5 DEF DirsSound
    <2> QED BY <1>1, <1>2, <2>1 DEF SweepsSound
  <1> QED BY <1>6, <1>7 DEF PipeInv

LEMMA AgeKeeps ==
  ASSUME PipeInv, NEW x \in Dir, Age(x)
  PROVE  PipeInv'
  <1>1. /\ UNCHANGED <<work, limiter, registry, uploads, sweep>>
        /\ dirs' = [dirs EXCEPT ![x].old = TRUE]
        /\ \A w \in Worker : work[w].pc = "returned" => work[w].dir # x
        /\ \A s \in DOMAIN sweep : x \notin sweep[s].stale
    BY DEF Age
  <1> DEFINE old == dirs[x]
             rec == [old EXCEPT !.old = TRUE]
  <1>2. DirsSound /\ SweepsSound
    BY DEF PipeInv
  <1>3. dirs' = [dirs EXCEPT ![x] = rec] /\ old \in DirRow
    BY <1>1, <1>2 DEF DirsSound
  <1>4. rec \in DirRow /\ rec.made = old.made /\ rec.final = old.final
    BY <1>3 DEF DirRow
  <1> HIDE DEF rec
  <1>5. DirsSound'
    <2>1. /\ dirs' \in [Dir -> DirRow] /\ dirs'[x] = rec
          /\ \A y \in Dir : y # x => dirs'[y] = dirs[y]
      BY <1>2, <1>3, <1>4 DEF DirsSound
    <2>2. \A y \in Dir : dirs'[y].made = dirs[y].made /\ dirs'[y].final = dirs[y].final
      BY <1>4, <2>1
    <2>3. ASSUME NEW w \in Worker, work[w].pc = "returned"
          PROVE  dirs'[work[w].dir].final /\ ~dirs'[work[w].dir].old
      <3>1. work[w].dir \in Dir /\ work[w].dir # x
        BY <1>1, <2>3, RowTyped DEF Owning
      <3>2. dirs[work[w].dir].final /\ ~dirs[work[w].dir].old
        BY <1>2, <2>3 DEF DirsSound
      <3> QED BY <2>1, <3>1, <3>2
    <2>4. \A w \in Worker : work[w].dir \in Dir =>
            /\ dirs'[work[w].dir].made /\ work[w].dir \notin uploads
            /\ \A v \in Worker : work[v].dir = work[w].dir => v = w
      <3>1. \A w \in Worker : work[w].dir \in Dir =>
            /\ dirs[work[w].dir].made /\ work[w].dir \notin uploads
            /\ \A v \in Worker : work[v].dir = work[w].dir => v = w
        BY <1>2 DEF DirsSound
      <3> QED BY <2>2, <3>1
    <2>5. \A y \in uploads : dirs'[y].made /\ dirs'[y].final
      <3>1. \A y \in uploads : y \in Dir /\ dirs[y].made /\ dirs[y].final
        BY <1>2 DEF DirsSound
      <3> QED BY <2>2, <3>1
    <2> QED BY <1>1, <1>2, <2>1, <2>3, <2>4, <2>5 DEF DirsSound
  <1>6. SweepsSound'
    <2>1. \A s \in Sweeper : \A y \in sweep[s].stale : y # x /\ y \in Dir
      BY <1>1, <1>2 DEF SweepsSound, SweepRow
    <2>2. \A s \in Sweeper : \A y \in sweep[s].stale : dirs'[y] = dirs[y]
      BY <1>2, <1>3, <2>1 DEF DirsSound
    <2> QED BY <1>1, <1>2, <2>2 DEF SweepsSound
  <1>7. WorkSound' /\ LimiterSound'
    BY <1>1 DEF PipeInv, WorkSound, LimiterSound, LimiterIsTrue, Calling, SiteOf
  <1> QED BY <1>5, <1>6, <1>7 DEF PipeInv

LEMMA SweepMoves ==
  ASSUME PipeInv, UNCHANGED <<work, limiter, dirs, registry, uploads>>,
         NEW s \in Sweeper, NEW rec \in SweepRow, sweep' = [sweep EXCEPT ![s] = rec],
         rec.pc = "remove" => /\ rec.at \in rec.stale /\ rec.at \notin uploads
                              /\ \A w \in Worker : work[w].dir # rec.at,
         \A x \in rec.stale : x \in uploads => x \in rec.protected \/ ~dirs[x].old
  PROVE  PipeInv'
  <1>1. SweepsSound
    BY DEF PipeInv
  <1>2. /\ sweep' \in [Sweeper -> SweepRow] /\ sweep'[s] = rec
        /\ \A t \in Sweeper : t # s => sweep'[t] = sweep[t]
    BY <1>1 DEF SweepsSound
  <1>3. ASSUME NEW t \in Sweeper
        PROVE  /\ sweep'[t].pc = "remove" =>
                    /\ sweep'[t].at \in sweep'[t].stale /\ sweep'[t].at \notin uploads
                    /\ \A w \in Worker : work[w].dir # sweep'[t].at
               /\ \A x \in sweep'[t].stale :
                    x \in uploads => x \in sweep'[t].protected \/ ~dirs[x].old
    <2>1. CASE t = s
      BY <1>2, <2>1
    <2>2. CASE t # s
      <3>1. sweep'[t] = sweep[t]
        BY <1>2, <2>2
      <3>2. /\ sweep[t].pc = "remove" =>
                    /\ sweep[t].at \in sweep[t].stale /\ sweep[t].at \notin uploads
                    /\ \A w \in Worker : work[w].dir # sweep[t].at
            /\ \A x \in sweep[t].stale :
                    x \in uploads => x \in sweep[t].protected \/ ~dirs[x].old
        BY <1>1 DEF SweepsSound
      <3> QED BY <3>1, <3>2
    <2> QED BY <2>1, <2>2
  <1>4. SweepsSound'
    BY <1>2, <1>3 DEF SweepsSound
  <1>5. WorkSound' /\ LimiterSound' /\ DirsSound'
    BY DEF PipeInv, WorkSound, LimiterSound, LimiterIsTrue, Calling, SiteOf, DirsSound
  <1> QED BY <1>4, <1>5 DEF PipeInv

LEMMA SweepTyped ==
  ASSUME PipeInv, NEW s \in Sweeper
  PROVE  sweep[s] \in SweepRow /\ DOMAIN sweep = Sweeper
  BY DEF PipeInv, SweepsSound

LEMMA SweepBegins ==
  ASSUME PipeInv, NEW s \in Sweeper, BeginSweep(s)
  PROVE  PipeInv'
  <1> DEFINE stale == {x \in Dir : dirs[x].made /\ dirs[x].old}
             rec == [pc |-> "scan", protected |-> uploads, stale |-> stale, at |-> NoDir]
  <1>1. UNCHANGED <<work, limiter, dirs, registry, uploads>> /\ sweep' = [sweep EXCEPT ![s] = rec]
    BY DEF BeginSweep
  <1>2. uploads \in SUBSET Dir /\ stale \in SUBSET Dir
    BY DEF PipeInv, DirsSound
  <1> HIDE DEF stale
  <1>3. rec \in SweepRow /\ rec.pc = "scan" /\ rec.protected = uploads
    BY <1>2 DEF SweepRow
  <1> HIDE DEF rec
  <1> QED BY <1>1, <1>3, SweepMoves

LEMMA SweepEnds ==
  ASSUME PipeInv, NEW s \in Sweeper, EndSweep(s)
  PROVE  PipeInv'
  <1>1. NoSweep \in SweepRow /\ NoSweep.pc = "idle" /\ NoSweep.stale = {}
    BY DEF NoSweep, SweepRow
  <1>2. UNCHANGED <<work, limiter, dirs, registry, uploads>>
        /\ sweep' = [sweep EXCEPT ![s] = NoSweep]
    BY DEF EndSweep
  <1> QED BY <1>1, <1>2, SweepMoves

LEMMA ClassifyKeeps ==
  ASSUME PipeInv, NEW s \in Sweeper, NEW x \in Dir, Classify(s, x)
  PROVE  PipeInv'
  <1> DEFINE old == sweep[s]
             found == [old EXCEPT !.pc = "remove", !.at = x]
             stale1 == old.stale \ {x}
             passed == [old EXCEPT !.stale = stale1]
  <1>1. /\ UNCHANGED <<work, limiter, dirs, registry, uploads>>
        /\ old.pc = "scan" /\ x \in old.stale
    BY DEF Classify
  <1>2. SweepsSound /\ DirsSound
    BY DEF PipeInv
  <1>3. old \in SweepRow /\ stale1 \in SUBSET Dir /\ sweep \in [Sweeper -> SweepRow]
    BY <1>2 DEF SweepsSound, SweepRow
  <1>4. \A y \in old.stale : y \in uploads => y \in old.protected \/ ~dirs[y].old
    BY <1>2 DEF SweepsSound
  <1>5. CASE dirs[x].made /\ Stale(s, x)
    <2>1. sweep' = [sweep EXCEPT ![s] = found]
      BY <1>3, <1>5 DEF Classify
    <2>2. dirs[x].old /\ x \notin registry /\ x \notin old.protected
      BY <1>5 DEF Stale
    <2>3. x \notin uploads
      BY <1>1, <1>4, <2>2
    <2>4. ASSUME NEW w \in Worker PROVE work[w].dir # x
      <3>1. work[w].dir = x => work[w].pc \in Owning
        BY RowTyped DEF RowKnown
      <3> QED BY <1>2, <2>2, <3>1 DEF DirsSound, Owning
    <2> HIDE DEF old
    <2>5. found \in SweepRow /\ found.at = x /\ found.stale = old.stale
          /\ found.protected = old.protected
      BY <1>3 DEF SweepRow
    <2> HIDE DEF found
    <2> QED BY <1>1, <1>4, <2>1, <2>3, <2>4, <2>5, SweepMoves
  <1>6. CASE ~(dirs[x].made /\ Stale(s, x))
    <2>1. sweep' = [sweep EXCEPT ![s] = passed]
      BY <1>3, <1>6 DEF Classify
    <2> HIDE DEF old, stale1
    <2>2. passed \in SweepRow /\ passed.pc = "scan" /\ passed.stale = stale1
          /\ passed.protected = old.protected
      BY <1>1, <1>3 DEF SweepRow
    <2> HIDE DEF passed
    <2>3. \A y \in passed.stale : y \in uploads => y \in passed.protected \/ ~dirs[y].old
      BY <1>4, <2>2 DEF stale1
    <2> QED BY <1>1, <2>1, <2>2, <2>3, SweepMoves
  <1> QED BY <1>5, <1>6

LEMMA DoneKeeps ==
  ASSUME PipeInv, NEW s \in Sweeper, Done(s), UNCHANGED <<work, limiter, registry, uploads>>,
         dirs' = dirs \/ dirs' = ReleasedAll(sweep[s].at)
  PROVE  PipeInv'
  <1> DEFINE old == sweep[s]
             x == old.at
             stale1 == old.stale \ {x}
             rec == [old EXCEPT !.pc = "scan", !.at = NoDir, !.stale = stale1]
  <1>1. SweepsSound /\ DirsSound
    BY DEF PipeInv
  <1>2. old.pc = "remove" /\ sweep' = [sweep EXCEPT ![s] = rec] /\ old \in SweepRow
    BY <1>1 DEF Done, SweepsSound
  <1>3. /\ x \in old.stale /\ x \notin uploads /\ x \in Dir
        /\ \A w \in Worker : work[w].dir # x
    BY <1>1, <1>2 DEF SweepsSound, SweepRow
  <1>4. stale1 \in SUBSET Dir
    BY <1>2 DEF SweepRow
  <1>5. PICK files \in DirRow : dirs' = [dirs EXCEPT ![x] = files]
    <2>1. CASE dirs' = ReleasedAll(x)
      BY <2>1 DEF ReleasedAll, NoFiles, DirRow
    <2>2. CASE dirs' = dirs
      <3>1. dirs[x] \in DirRow /\ dirs' = [dirs EXCEPT ![x] = dirs[x]]
        BY <1>1, <1>3, <2>2 DEF DirsSound
      <3> QED BY <3>1
    <2> QED BY <2>1, <2>2
  <1>6. WorkSound' /\ DirsSound' /\ LimiterSound'
    <2>1. uploads' \subseteq uploads /\ x \notin uploads'
      BY <1>3
    <2> HIDE DEF x
    <2> QED BY <1>3, <1>5, <2>1, DirFreed
  <1>7. SweepsSound'
    <2>1. \A y \in uploads : dirs'[y] = dirs[y]
      BY <1>1, <1>3, <1>5 DEF DirsSound
    <2> HIDE DEF old, x, stale1
    <2>2. rec \in SweepRow /\ rec.pc = "scan" /\ rec.stale = stale1
          /\ rec.protected = old.protected
      BY <1>2, <1>4 DEF SweepRow
    <2> HIDE DEF rec
    <2>3. /\ sweep' \in [Sweeper -> SweepRow] /\ sweep'[s] = rec
          /\ \A t \in Sweeper : t # s => sweep'[t] = sweep[t]
      BY <1>1, <1>2, <2>2 DEF SweepsSound
    <2>4. ASSUME NEW t \in Sweeper, sweep'[t].pc = "remove"
          PROVE  /\ sweep'[t].at \in sweep'[t].stale /\ sweep'[t].at \notin uploads
                 /\ \A w \in Worker : work[w].dir # sweep'[t].at
      <3>1. t # s /\ sweep'[t] = sweep[t]
        BY <2>2, <2>3, <2>4
      <3> QED BY <1>1, <2>4, <3>1 DEF SweepsSound
    <2>5. ASSUME NEW t \in Sweeper, NEW y \in sweep'[t].stale, y \in uploads
          PROVE  y \in sweep'[t].protected \/ ~dirs[y].old
      <3>1. CASE t = s
        <4>1. y \in sweep[s].stale /\ sweep'[t].protected = sweep[s].protected
          BY <2>2, <2>3, <2>5, <3>1 DEF stale1, old
        <4> QED BY <1>1, <2>5, <4>1 DEF SweepsSound
      <3>2. CASE t # s
        <4>1. sweep'[t] = sweep[t]
          BY <2>3, <3>2
        <4> QED BY <1>1, <2>5, <4>1 DEF SweepsSound
      <3> QED BY <3>1, <3>2
    <2> QED BY <2>1, <2>3, <2>4, <2>5 DEF SweepsSound
  <1> QED BY <1>6, <1>7 DEF PipeInv

LEMMA CrashKeepsPipe ==
  ASSUME PipeInv, CrashPipeline
  PROVE  PipeInv'
  <1>1. /\ work' = [w \in Worker |-> NoWork] /\ limiter' = [p \in Site |-> Ready]
        /\ registry' = {} /\ sweep' = [s \in DOMAIN sweep |-> NoSweep]
        /\ UNCHANGED <<dirs, uploads>>
    BY DEF CrashPipeline
  <1>2. DirsSound /\ DOMAIN sweep = Sweeper /\ NoDir \notin Dir
    BY PipelineAssumption DEF PipeInv, SweepsSound
  <1>3. NoWork.pc = "idle" /\ NoWork.dir = NoDir
    BY DEF NoWork
  <1>4. WorkSound'
    BY <1>1, NoWorkKnown DEF WorkSound
  <1>5. DirsSound'
    BY <1>1, <1>2, <1>3 DEF DirsSound, Writing
  <1>6. SweepsSound'
    <2>1. NoSweep \in SweepRow /\ NoSweep.pc = "idle" /\ NoSweep.stale = {}
      BY DEF NoSweep, SweepRow
    <2> QED BY <1>1, <1>2, <2>1 DEF SweepsSound
  <1>7. LimiterSound'
    <2>1. MaxConcurrent \in Int
      BY PipelineAssumption
    <2>2. Ready \in Counts /\ Ready.waiting = 0 /\ Ready.active = 0
          /\ Ready.permits = MaxConcurrent
      BY <2>1 DEF Ready, Counts
    <2>3. ASSUME NEW p \in Site, NEW pcs, "idle" \notin pcs
          PROVE  Cardinality(CallersOf(work', p, pcs)) = 0
      <3>1. CallersOf(work', p, pcs) = {}
        BY <1>1, <1>3, <2>3 DEF CallersOf
      <3> QED BY <3>1, FS_EmptySet
    <2>4. ASSUME NEW p \in Site
          PROVE  /\ limiter'[p].waiting = Cardinality(CallersOf(work', p, {"wait", "paced"}))
                 /\ limiter'[p].active = Cardinality(CallersOf(work', p, {"call"}))
                 /\ limiter'[p].permits + Cardinality(CallersOf(work', p, {"paced", "call"}))
                      = MaxConcurrent
      <3>1. limiter'[p] = Ready
        BY <1>1
      <3>2. /\ Cardinality(CallersOf(work', p, {"wait", "paced"})) = 0
            /\ Cardinality(CallersOf(work', p, {"call"})) = 0
            /\ Cardinality(CallersOf(work', p, {"paced", "call"})) = 0
        BY <2>3
      <3> QED BY <2>1, <2>2, <3>1, <3>2
    <2>5. limiter' \in [Site -> Counts]
      BY <1>1, <2>2
    <2> QED BY <2>4, <2>5, LimiterCountsNext DEF LimiterSound
  <1> QED BY <1>4, <1>5, <1>6, <1>7 DEF PipeInv

(* The initial states.                                                     *)
LEMMA PipeStart == PipeInit => PipeInv
  <1> SUFFICES ASSUME PipeInit PROVE PipeInv
    OBVIOUS
  <1>1. /\ work = [w \in Worker |-> NoWork] /\ limiter = [p \in Site |-> Ready]
        /\ dirs = [x \in Dir |-> NoFiles] /\ registry = {} /\ uploads = {}
        /\ sweep = [s \in Sweeper |-> NoSweep]
    BY DEF PipeInit, Sweeper
  <1>2. NoWork.pc = "idle" /\ NoWork.dir = NoDir /\ NoDir \notin Dir
    BY PipelineAssumption DEF NoWork
  <1>3. WorkSound
    BY <1>1, NoWorkKnown DEF WorkSound
  <1>4. DirsSound
    <2>1. NoFiles \in DirRow
      BY DEF NoFiles, DirRow
    <2> QED BY <1>1, <1>2, <2>1 DEF DirsSound, Writing
  <1>5. SweepsSound
    <2>1. NoSweep \in SweepRow /\ NoSweep.pc = "idle" /\ NoSweep.stale = {}
      BY DEF NoSweep, SweepRow
    <2> QED BY <1>1, <2>1 DEF SweepsSound
  <1>6. LimiterSound
    <2>1. MaxConcurrent \in Int
      BY PipelineAssumption
    <2>2. Ready \in Counts /\ Ready.waiting = 0 /\ Ready.active = 0
          /\ Ready.permits = MaxConcurrent
      BY <2>1 DEF Ready, Counts
    <2>3. ASSUME NEW p \in Site, NEW pcs, "idle" \notin pcs
          PROVE  Cardinality(CallersOf(work, p, pcs)) = 0
      <3>1. CallersOf(work, p, pcs) = {}
        BY <1>1, <1>2, <2>3 DEF CallersOf
      <3> QED BY <3>1, FS_EmptySet
    <2>4. ASSUME NEW p \in Site PROVE Counted3(p, work)
      <3>1. limiter[p] = Ready
        BY <1>1
      <3>2. /\ Cardinality(CallersOf(work, p, {"wait", "paced"})) = 0
            /\ Cardinality(CallersOf(work, p, {"call"})) = 0
            /\ Cardinality(CallersOf(work, p, {"paced", "call"})) = 0
        BY <2>3
      <3> QED BY <2>1, <2>2, <3>1, <3>2 DEF Counted3
    <2>5. limiter \in [Site -> Counts]
      BY <1>1, <2>2
    <2> QED BY <2>4, <2>5, LimiterCounts DEF LimiterSound
  <1> QED BY <1>3, <1>4, <1>5, <1>6 DEF PipeInv

(* Every step keeps the invariant.                                         *)
LEMMA PipeStep == PipeInv /\ [PipeNext]_pipeVars => PipeInv'
  <1> SUFFICES ASSUME PipeInv, [PipeNext]_pipeVars PROVE PipeInv'
    OBVIOUS
  <1>1. CASE UNCHANGED pipeVars
    BY <1>1 DEF PipeInv, pipeVars, WorkSound, DirsSound, SweepsSound, LimiterSound,
                LimiterIsTrue, Calling, SiteOf
  <1>2. ASSUME NEW w \in Worker,
               \/ StartWork(w) \/ CreateJob(w) \/ NothingToDo(w) \/ BeginPlan(w) \/ Acquire(w)
               \/ Call(w) \/ CallEnds(w) \/ Produce(w) \/ MediaFails(w) \/ StopWork(w)
               \/ HandOff(w)
        PROVE  PipeInv'
    BY <1>2, StartKeeps, DirCreated, NothingKeeps, BeginKeeps, AcquireKeeps, CallKeeps,
       EndsKeeps, ProduceKeeps, MediaFailsKeeps, StopKeeps, HandOffKeeps
  <1>3. ASSUME NEW s \in DOMAIN sweep, SweepStep(s) \/ Remove(s) \/ RemoveFails(s)
        PROVE  PipeInv'
    <2>1. s \in Sweeper
      BY DEF PipeInv, SweepsSound
    <2>2. CASE SweepStep(s)
      BY <2>1, <2>2, SweepBegins, ClassifyKeeps, SweepEnds DEF SweepStep
    <2>3. CASE Remove(s) \/ RemoveFails(s)
      BY <2>1, <2>3, DoneKeeps DEF Remove, RemoveFails
    <2> QED BY <1>3, <2>2, <2>3
  <1>4. ASSUME NEW x \in Dir, UploadEnds(x) \/ Age(x) PROVE PipeInv'
    BY <1>4, UploadKeeps, AgeKeeps
  <1>5. CASE CrashPipeline
    BY <1>5, CrashKeepsPipe
  <1> QED BY <1>1, <1>2, <1>3, <1>4, <1>5 DEF PipeNext

-----------------------------------------------------------------------------
(* Albums expanded by one coordinator worker.                              *)

ItemRow ==
  [status : ItemStatus, selected : BOOLEAN, attempts : 0 .. MaxItemAttempts,
   owner : AlbumWorker \cup {Absent}]
AlbumRow ==
  [status : {"NONE"} \cup Choosing \cup Expanding \cup ClosedAlbum, notified : BOOLEAN]
TaskRow == [pc : {"idle", "resolve", "attach"}, item : Item \cup {Absent}]
Started == Expanding \cup ClosedAlbum

AlbumsTyped ==
  /\ album \in [Album -> AlbumRow] /\ row \in [Item -> ItemRow]
  /\ child \in [Item -> EndedChild \cup {"NONE", "ACTIVE"}]
  /\ albumTask \in [AlbumWorker -> TaskRow]
  /\ teller.listed \subseteq Album /\ teller.sent \subseteq Album

(* An item has its delivery request exactly when it is attached, has a     *)
(* try left while it waits, and is not touched before its album is queued. *)
ItemsSound ==
  \A i \in Item :
    /\ HasChild(i) <=> row[i].status = "ATTACHED"
    /\ row[i].status = "PENDING" => row[i].attempts < MaxItemAttempts
    /\ row[i].status # "PENDING" =>
         row[i].selected /\ album[AlbumOf[i]].status \in Started

(* The task that processes an item has its lease.                          *)
TaskFenced ==
  \A w \in AlbumWorker : albumTask[w].pc # "idle" =>
    albumTask[w].item \in Item /\ Fenced(albumTask[w].item, w)

AlbumInv == AlbumsTyped /\ ItemsSound /\ TaskFenced /\ ClosedAlbumIsOver

(* The invariant is at least what the runs check.                          *)
LEMMA AlbumPromises == AlbumInv => AlbumTypeOK /\ ClosedAlbumIsOver
  BY DEF AlbumInv, AlbumsTyped, AlbumTypeOK, ItemRow, AlbumRow

(* The tracks of one album: those that matter to its closing.              *)
Settled(a) ==
  \A i \in Selected(a) : IF HasChild(i) THEN child[i] \in EndedChild
                         ELSE row[i].status = "FAILED"

(* An album that passes the count is over: no track counts twice.          *)
LEMMA CompleteIsOver ==
  ASSUME AlbumInv, NEW a \in Album, Complete(a)
  PROVE  Settled(a)
  <1> DEFINE all == Selected(a)
             bad == FailedItems(a)
             good == Attached(a)
  <1>1. IsFiniteSet(all) /\ all \subseteq Item
    BY AlbumAssumption, FS_Subset DEF Selected, TracksOf
  <1>2. bad \in SUBSET all /\ good \in SUBSET all
    BY DEF FailedItems, Attached
  <1>3. bad \cap good = {}
    BY <1>1 DEF FailedItems, Attached, AlbumInv, ItemsSound
  <1>4. Cardinality(all) <= Cardinality(bad) + Cardinality(good)
    BY DEF Complete, Count
  <1>5. \A i \in good : child[i] \in EndedChild
    <2>1. \A i \in good : child[i] # "ACTIVE"
      BY DEF Complete, ChildrenIn
    <2>2. \A i \in good : child[i] \in EndedChild \cup {"NONE", "ACTIVE"} /\ child[i] # "NONE"
      BY <1>1, <1>2 DEF Attached, HasChild, AlbumInv, AlbumsTyped
    <2> QED BY <2>1, <2>2
  <1> HIDE DEF all, bad, good
  <1>6. IsFiniteSet(bad) /\ IsFiniteSet(good)
    BY <1>1, <1>2, FS_Subset
  <1>7. /\ Cardinality(bad \cup good) = Cardinality(bad) + Cardinality(good) - Cardinality(bad \cap good)
        /\ Cardinality(bad) \in Nat /\ Cardinality(good) \in Nat /\ Cardinality(all) \in Nat
    BY <1>1, <1>6, FS_Union, FS_CardinalityType
  <1>8. Cardinality(bad \cap good) = 0
    BY <1>3, FS_EmptySet
  <1>9. bad \cup good \in SUBSET all
    BY <1>2
  <1>10. Cardinality(bad \cup good) <= Cardinality(all)
    BY <1>1, <1>9, FS_Subset
  <1>11. Cardinality(bad \cup good) = Cardinality(all)
    BY <1>4, <1>7, <1>8, <1>10
  <1>12. bad \cup good = all
    BY <1>1, <1>9, <1>11, FS_Subset
  <1> QED BY <1>5, <1>12 DEF Settled, all, bad, good, FailedItems, Attached

LEMMA ClosedIsSettled ==
  ClosedAlbumIsOver <=>
    \A a \in Album : album[a].status \in ClosedAlbum =>
      Settled(a) /\ album[a].status = Outcome(a)
  BY DEF ClosedAlbumIsOver, Settled

LEMMA ClosedIsSettledNext ==
  ClosedAlbumIsOver' <=>
    \A a \in Album : album'[a].status \in ClosedAlbum =>
      Settled(a)' /\ album'[a].status = Outcome(a)'
  BY DEF ClosedAlbumIsOver, Settled

(* What an album's closing was judged by does not change afterwards.       *)
LEMMA StaysOver ==
  ASSUME AlbumInv, NEW a \in Album, album[a].status \in ClosedAlbum,
         \A i \in TracksOf(a) :
           /\ row'[i].selected = row[i].selected
           /\ row[i].selected => row'[i].status = row[i].status /\ child'[i] = child[i]
  PROVE  Settled(a)' /\ Outcome(a)' = Outcome(a) /\ album[a].status = Outcome(a)
  <1>1. Settled(a) /\ album[a].status = Outcome(a)
    BY ClosedIsSettled DEF AlbumInv
  <1>2. Selected(a)' = Selected(a)
    BY DEF Selected
  <1>3. \A i \in Selected(a) : row'[i].status = row[i].status /\ child'[i] = child[i]
    BY DEF Selected
  <1>4. Attached(a)' = Attached(a)
    BY <1>2, <1>3 DEF Attached, HasChild
  <1>5. ChildrenIn(a, {"DELIVERED"})' = ChildrenIn(a, {"DELIVERED"})
    <2>1. \A i \in Attached(a) : child'[i] = child[i]
      BY <1>3 DEF Attached
    <2> QED BY <1>4, <2>1 DEF ChildrenIn
  <1>6. Outcome(a)' = Outcome(a)
    BY <1>2, <1>5 DEF Outcome, Count
  <1>7. Settled(a)'
    BY <1>1, <1>2, <1>3 DEF Settled, HasChild
  <1> QED BY <1>1, <1>6, <1>7

(* A step that closes no album and leaves the closed ones alone.           *)
LEMMA NothingCloses ==
  ASSUME AlbumInv, AlbumsTyped', ItemsSound', TaskFenced',
         \A a \in Album : album'[a].status \in ClosedAlbum => album'[a].status = album[a].status,
         \A i \in Item : album[AlbumOf[i]].status \in ClosedAlbum =>
           /\ row'[i].selected = row[i].selected
           /\ row[i].selected => row'[i].status = row[i].status /\ child'[i] = child[i]
  PROVE  AlbumInv'
  <1>1. ASSUME NEW a \in Album, album'[a].status \in ClosedAlbum
        PROVE  Settled(a)' /\ album'[a].status = Outcome(a)'
    <2>1. album[a].status \in ClosedAlbum /\ album'[a].status = album[a].status
      BY <1>1
    <2>2. \A i \in TracksOf(a) : i \in Item /\ album[AlbumOf[i]].status \in ClosedAlbum
      BY <2>1 DEF TracksOf
    <2>3. Settled(a)' /\ Outcome(a)' = Outcome(a) /\ album[a].status = Outcome(a)
      BY <2>1, <2>2, StaysOver
    <2> QED BY <2>1, <2>3
  <1>2. ClosedAlbumIsOver'
    BY <1>1, ClosedIsSettledNext
  <1> QED BY <1>2 DEF AlbumInv

LEMMA Statuses ==
  /\ Choosing \cap Started = {} /\ Expanding \cap ClosedAlbum = {}
  /\ "NONE" \notin Started /\ "PROCESSING" \in Expanding /\ "QUEUED" \in Expanding
  /\ Expanding \subseteq Started /\ ClosedAlbum \subseteq Started
  /\ \A s \in Choosing : s \notin ClosedAlbum
  BY DEF Choosing, Started, Expanding, ClosedAlbum

LEMMA AlbumFacts ==
  ASSUME AlbumInv
  PROVE  /\ AlbumsTyped /\ ItemsSound /\ TaskFenced /\ AlbumOf \in [Item -> Album]
         /\ album \in [Album -> AlbumRow] /\ row \in [Item -> ItemRow]
  BY AlbumAssumption DEF AlbumInv, AlbumsTyped

(* The status of one album moves among those before it is queued, or to    *)
(* being queued or expanded.                                               *)
LEMMA StatusMoves ==
  ASSUME AlbumInv, NEW a \in Album, NEW to \in Choosing \cup Expanding,
         album' = [album EXCEPT ![a].status = to],
         album[a].status \in Started => to \in Expanding,
         album[a].status \notin ClosedAlbum
  PROVE  /\ album' \in [Album -> AlbumRow]
         /\ album'[a].status = to
         /\ \A b \in Album : b # a => album'[b] = album[b]
         /\ \A b \in Album : album[b].status \in Started => album'[b].status \in Started
         /\ \A b \in Album : album'[b].status \in ClosedAlbum => album'[b].status = album[b].status
  <1>1. album \in [Album -> AlbumRow]
    BY AlbumFacts
  <1> DEFINE old == album[a]
             new == [old EXCEPT !.status = to]
  <1>2. old \in AlbumRow /\ album' = [album EXCEPT ![a] = new]
    BY <1>1
  <1> HIDE DEF old
  <1>3. new \in AlbumRow /\ new.status = to
    BY <1>2 DEF AlbumRow
  <1> HIDE DEF new
  <1>4. album'[a] = new /\ \A b \in Album : b # a => album'[b] = album[b]
    BY <1>1, <1>2
  <1>5. album' \in [Album -> AlbumRow]
    BY <1>1, <1>2, <1>3
  <1>6. to \notin ClosedAlbum
    BY Statuses
  <1>7. \A b \in Album : album[b].status \in Started => album'[b].status \in Started
    BY <1>3, <1>4, Statuses DEF old
  <1>8. \A b \in Album : album'[b].status \in ClosedAlbum => album'[b].status = album[b].status
    BY <1>3, <1>4, <1>6
  <1> QED BY <1>3, <1>4, <1>5, <1>7, <1>8

LEMMA CardKeeps ==
  ASSUME AlbumInv, NEW a \in Album, CreateAlbum(a) \/ CardMove(a)
  PROVE  AlbumInv'
  <1>1. UNCHANGED <<row, child, albumTask, teller>>
    BY DEF CreateAlbum, CardMove
  <1>2. album[a].status \notin Started
        /\ \E to \in Choosing : album' = [album EXCEPT ![a].status = to]
    <2>1. CASE CreateAlbum(a)
      BY <2>1 DEF CreateAlbum, Choosing, Started, Expanding, ClosedAlbum
    <2>2. CASE CardMove(a)
      <3>1. PICK move \in CardTransitions : Transition(a, move[1], move[2])
        BY <2>2 DEF CardMove
      <3>2. move[1] \in Choosing /\ move[2] \in Choosing
        BY <3>1 DEF CardTransitions, Choosing
      <3> QED BY <3>1, <3>2 DEF Transition, Choosing, Started, Expanding, ClosedAlbum
    <2> QED BY <2>1, <2>2
  <1>3. PICK to \in Choosing : album' = [album EXCEPT ![a].status = to]
    BY <1>2
  <1>4. /\ album' \in [Album -> AlbumRow]
        /\ \A b \in Album : album[b].status \in Started => album'[b].status \in Started
        /\ \A b \in Album : album'[b].status \in ClosedAlbum => album'[b].status = album[b].status
    BY <1>2, <1>3, StatusMoves, Statuses
  <1>5. AlbumsTyped'
    BY <1>1, <1>4, AlbumFacts DEF AlbumsTyped
  <1>6. ItemsSound'
    BY <1>1, <1>4, AlbumFacts DEF ItemsSound, HasChild
  <1>7. TaskFenced'
    BY <1>1, AlbumFacts DEF TaskFenced, Fenced
  <1> QED BY <1>1, <1>4, <1>5, <1>6, <1>7, NothingCloses

(* The selection changes while the album is still on its card.             *)
LEMMA SelectionKeeps ==
  ASSUME AlbumInv, NEW a \in Album, album[a].status \in Choosing,
         NEW to \in Choosing \cup {"QUEUED"}, album' = [album EXCEPT ![a].status = to],
         NEW now \in [Item -> BOOLEAN],
         row' = [i \in Item |-> IF i \in TracksOf(a) THEN [row[i] EXCEPT !.selected = now[i]]
                               ELSE row[i]],
         UNCHANGED <<child, albumTask, teller>>
  PROVE  AlbumInv'
  <1>1. /\ AlbumsTyped /\ ItemsSound /\ TaskFenced /\ AlbumOf \in [Item -> Album]
        /\ album[a].status \notin Started /\ to \in Choosing \cup Expanding
    BY AlbumFacts, Statuses
  <1>2. /\ album' \in [Album -> AlbumRow]
        /\ \A b \in Album : album[b].status \in Started => album'[b].status \in Started
        /\ \A b \in Album : album'[b].status \in ClosedAlbum => album'[b].status = album[b].status
    BY <1>1, StatusMoves, Statuses
  <1>3. ASSUME NEW i \in Item
        PROVE  /\ row'[i] \in ItemRow /\ row'[i].status = row[i].status
               /\ row'[i].attempts = row[i].attempts /\ row'[i].owner = row[i].owner
               /\ row'[i] # row[i] => row[i].status = "PENDING" /\ AlbumOf[i] = a
    <2>1. row[i] \in ItemRow
      BY AlbumFacts
    <2>2. CASE i \in TracksOf(a)
      <3>1. row'[i] = [row[i] EXCEPT !.selected = now[i]] /\ AlbumOf[i] = a
        BY <2>2 DEF TracksOf
      <3>2. row[i].status = "PENDING"
        BY <1>1, <3>1 DEF ItemsSound
      <3> QED BY <2>1, <3>1, <3>2 DEF ItemRow
    <2>3. CASE i \notin TracksOf(a)
      BY <2>1, <2>3
    <2> QED BY <2>2, <2>3
  <1>4. row' \in [Item -> ItemRow]
    BY <1>3
  <1>5. AlbumsTyped'
    BY <1>1, <1>2, <1>4 DEF AlbumsTyped
  <1>6. ItemsSound'
    <2>1. ASSUME NEW i \in Item
          PROVE  /\ HasChild(i)' <=> row'[i].status = "ATTACHED"
                 /\ row'[i].status = "PENDING" => row'[i].attempts < MaxItemAttempts
                 /\ row'[i].status # "PENDING" =>
                      row'[i].selected /\ album'[AlbumOf[i]].status \in Started
      <3>1. /\ HasChild(i) <=> row[i].status = "ATTACHED"
            /\ row[i].status = "PENDING" => row[i].attempts < MaxItemAttempts
            /\ row[i].status # "PENDING" =>
                 row[i].selected /\ album[AlbumOf[i]].status \in Started
        BY <1>1 DEF ItemsSound
      <3>2. HasChild(i)' <=> HasChild(i)
        BY DEF HasChild
      <3>3. /\ row'[i].status = row[i].status /\ row'[i].attempts = row[i].attempts
            /\ row[i].status # "PENDING" => row'[i] = row[i]
            /\ AlbumOf[i] \in Album
        BY <1>1, <1>3
      <3> QED BY <1>2, <3>1, <3>2, <3>3
    <2> QED BY <2>1 DEF ItemsSound
  <1>7. TaskFenced'
    BY <1>1, <1>3 DEF TaskFenced, Fenced
  <1>8. \A i \in Item : album[AlbumOf[i]].status \in ClosedAlbum => row'[i] = row[i]
    BY <1>1, <1>3, Statuses
  <1> QED BY <1>2, <1>5, <1>6, <1>7, <1>8, NothingCloses

LEMMA PressesKeep ==
  ASSUME AlbumInv, NEW a \in Album,
         \/ \E selected \in BOOLEAN : SelectAll(a, selected)
         \/ QueueAll(a) \/ QueueSelected(a)
         \/ \E i \in Item : AlbumOf[i] = a /\ ToggleItem(i)
  PROVE  AlbumInv'
  <1>0. /\ row \in [Item -> ItemRow] /\ album \in [Album -> AlbumRow]
        /\ \A i \in Item : row[i].selected \in BOOLEAN
    BY AlbumFacts DEF ItemRow
  <1>1. /\ \A i \in Item : row[i] = [row[i] EXCEPT !.selected = row[i].selected]
        /\ album = [album EXCEPT ![a].status = album[a].status]
    <2>1. \A i \in Item : row[i] = [row[i] EXCEPT !.selected = row[i].selected]
      BY <1>0 DEF ItemRow
    <2>2. album[a] \in AlbumRow
      BY <1>0
    <2>3. album[a] = [album[a] EXCEPT !.status = album[a].status]
      BY <2>2 DEF AlbumRow
    <2> QED BY <1>0, <2>1, <2>3
  <1>2. ASSUME NEW selected \in BOOLEAN, SelectAll(a, selected) PROVE AlbumInv'
    <2> DEFINE now == [i \in Item |-> selected]
    <2>1. /\ row' = [i \in Item |-> IF i \in TracksOf(a) THEN [row[i] EXCEPT !.selected = now[i]]
                                    ELSE row[i]]
          /\ now \in [Item -> BOOLEAN] /\ UNCHANGED <<album, child, albumTask, teller>>
          /\ album[a].status = "SELECTING_TRACKS"
      BY <1>2 DEF SelectAll, Selecting
    <2> HIDE DEF now
    <2>2. "SELECTING_TRACKS" \in Choosing /\ album' = [album EXCEPT ![a].status = "SELECTING_TRACKS"]
      BY <1>1, <2>1 DEF Choosing
    <2> QED BY <2>1, <2>2, SelectionKeeps
  <1>3. CASE QueueAll(a)
    <2> DEFINE now == [i \in Item |-> TRUE]
    <2>1. /\ row' = [i \in Item |-> IF i \in TracksOf(a) THEN [row[i] EXCEPT !.selected = now[i]]
                                    ELSE row[i]]
          /\ now \in [Item -> BOOLEAN] /\ UNCHANGED <<child, albumTask, teller>>
          /\ album[a].status = "AWAITING_ACTION"
          /\ album' = [album EXCEPT ![a].status = "QUEUED"]
      BY <1>3 DEF QueueAll, Transition
    <2> HIDE DEF now
    <2> QED BY <2>1, SelectionKeeps DEF Choosing
  <1>4. CASE QueueSelected(a)
    <2> DEFINE now == [i \in Item |-> row[i].selected]
    <2>1. /\ row' = [i \in Item |-> IF i \in TracksOf(a) THEN [row[i] EXCEPT !.selected = now[i]]
                                    ELSE row[i]]
          /\ now \in [Item -> BOOLEAN] /\ UNCHANGED <<child, albumTask, teller>>
      <3>1. row' = row /\ UNCHANGED <<child, albumTask, teller>>
        BY <1>4 DEF QueueSelected
      <3>2. \A i \in Item : row[i] = [row[i] EXCEPT !.selected = now[i]]
        BY <1>1
      <3>3. now \in [Item -> BOOLEAN]
        BY <1>0
      <3> HIDE DEF now
      <3> QED BY <1>0, <3>1, <3>2, <3>3
    <2>2. /\ album[a].status = "SELECTING_TRACKS"
          /\ album' = [album EXCEPT ![a].status = "QUEUED"]
      BY <1>4 DEF QueueSelected, Transition
    <2> HIDE DEF now
    <2> QED BY <2>1, <2>2, SelectionKeeps DEF Choosing
  <1>5. ASSUME NEW i \in Item, AlbumOf[i] = a, ToggleItem(i) PROVE AlbumInv'
    <2> DEFINE now == [j \in Item |-> IF j = i THEN ~row[j].selected ELSE row[j].selected]
    <2>1. /\ album[a].status = "SELECTING_TRACKS"
          /\ row' = [row EXCEPT ![i].selected = ~@]
          /\ UNCHANGED <<album, child, albumTask, teller>>
      BY <1>5 DEF ToggleItem, Selecting
    <2>2. now \in [Item -> BOOLEAN] /\ now[i] = ~row[i].selected
          /\ \A j \in Item : j # i => now[j] = row[j].selected
      BY <1>0
    <2>3. i \in TracksOf(a)
      BY <1>5 DEF TracksOf
    <2> HIDE DEF now
    <2>4. row' = [row EXCEPT ![i] = [row[i] EXCEPT !.selected = now[i]]]
      BY <1>0, <2>1, <2>2
    <2>5. \A j \in Item : row'[j] = IF j \in TracksOf(a) THEN [row[j] EXCEPT !.selected = now[j]]
                                    ELSE row[j]
      BY <1>0, <1>1, <2>2, <2>3, <2>4
    <2>6. row' = [j \in Item |-> IF j \in TracksOf(a) THEN [row[j] EXCEPT !.selected = now[j]]
                                ELSE row[j]]
      BY <1>0, <2>4, <2>5
    <2>7. "SELECTING_TRACKS" \in Choosing /\ album' = [album EXCEPT ![a].status = "SELECTING_TRACKS"]
      BY <1>1, <2>1 DEF Choosing
    <2> QED BY <2>1, <2>2, <2>6, <2>7, SelectionKeeps
  <1> QED BY <1>2, <1>3, <1>4, <1>5

-----------------------------------------------------------------------------
(* The coordinator's task.                                                 *)

(* An item that is being resolved has no request, and its album is open.   *)
LEMMA ResolvingIsOpen ==
  ASSUME AlbumInv, NEW i \in Item, row[i].status = "RESOLVING"
  PROVE  ~HasChild(i) /\ row[i].selected /\ album[AlbumOf[i]].status \in Expanding
  <1>1. /\ ~HasChild(i) /\ row[i].selected /\ album[AlbumOf[i]].status \in Started
        /\ AlbumOf[i] \in Album
    BY AlbumFacts DEF ItemsSound
  <1>2. i \in Selected(AlbumOf[i])
    BY <1>1 DEF Selected, TracksOf
  <1>3. album[AlbumOf[i]].status \notin ClosedAlbum
    BY <1>1, <1>2, ClosedIsSettled DEF AlbumInv, Settled
  <1> QED BY <1>1, <1>3 DEF Started

(* What a step of the task may do to an item.                              *)
Expanded(i) ==
  /\ album[AlbumOf[i]].status \in Expanding /\ row[i].selected
  /\ row'[i] \in ItemRow /\ row'[i].selected
  /\ row'[i].status = "PENDING" => row'[i].attempts < MaxItemAttempts
  /\ child'[i] \in EndedChild \cup {"NONE", "ACTIVE"}
  /\ child'[i] # "NONE" <=> row'[i].status = "ATTACHED"

LEMMA TaskStep ==
  ASSUME AlbumInv, UNCHANGED teller,
         album' = album \/ \E a \in Album : /\ album[a].status \in Expanding
                                            /\ album' = [album EXCEPT ![a].status = "PROCESSING"],
         row' = [i \in Item |-> row'[i]], child' = [i \in Item |-> child'[i]],
         \A i \in Item : (row'[i] = row[i] /\ child'[i] = child[i]) \/ Expanded(i),
         albumTask' \in [AlbumWorker -> TaskRow], TaskFenced'
  PROVE  AlbumInv'
  <1>1. /\ album' \in [Album -> AlbumRow]
        /\ \A b \in Album : album[b].status \in Started => album'[b].status \in Started
        /\ \A b \in Album : album'[b].status \in ClosedAlbum => album'[b].status = album[b].status
    <2>1. CASE album' = album
      BY <2>1, AlbumFacts
    <2>2. ASSUME NEW a \in Album, album[a].status \in Expanding,
                 album' = [album EXCEPT ![a].status = "PROCESSING"]
          PROVE  /\ album' \in [Album -> AlbumRow]
                 /\ \A b \in Album : album[b].status \in Started => album'[b].status \in Started
                 /\ \A b \in Album : album'[b].status \in ClosedAlbum => album'[b].status = album[b].status
      <3>1. album[a].status \notin ClosedAlbum /\ "PROCESSING" \in Expanding
        BY <2>2, Statuses
      <3> QED BY <2>2, <3>1, StatusMoves
    <2> QED BY <2>1, <2>2
  <1>2. /\ AlbumsTyped /\ ItemsSound /\ AlbumOf \in [Item -> Album]
        /\ row \in [Item -> ItemRow] /\ child \in [Item -> EndedChild \cup {"NONE", "ACTIVE"}]
    BY AlbumFacts DEF AlbumsTyped
  <1>3. ASSUME NEW i \in Item
        PROVE  /\ row'[i] \in ItemRow /\ child'[i] \in EndedChild \cup {"NONE", "ACTIVE"}
               /\ child'[i] # "NONE" <=> row'[i].status = "ATTACHED"
               /\ row'[i].status = "PENDING" => row'[i].attempts < MaxItemAttempts
               /\ row'[i].status # "PENDING" =>
                    row'[i].selected /\ album'[AlbumOf[i]].status \in Started
    <2>1. CASE row'[i] = row[i] /\ child'[i] = child[i]
      BY <1>1, <1>2, <2>1 DEF ItemsSound, HasChild
    <2>2. CASE Expanded(i)
      BY <1>1, <1>2, <2>2, Statuses DEF Expanded
    <2> QED BY <2>1, <2>2
  <1>4. row' \in [Item -> ItemRow] /\ child' \in [Item -> EndedChild \cup {"NONE", "ACTIVE"}]
    BY <1>3
  <1>5. AlbumsTyped'
    BY <1>1, <1>2, <1>4 DEF AlbumsTyped
  <1>6. ItemsSound'
    BY <1>3 DEF ItemsSound, HasChild
  <1>7. \A i \in Item : album[AlbumOf[i]].status \in ClosedAlbum =>
          row'[i] = row[i] /\ child'[i] = child[i]
    BY Statuses DEF Expanded
  <1> QED BY <1>1, <1>5, <1>6, <1>7, NothingCloses

(* The task gives an item back, or takes it as far as it can be.           *)
LEMMA ItemGivenUp ==
  ASSUME AlbumInv, NEW w \in AlbumWorker, NEW i \in Item, Fenced(i, w),
         NEW retryable \in BOOLEAN, RetryOrFail(i, w, retryable), UNCHANGED child
  PROVE  /\ row' = [j \in Item |-> row'[j]]
         /\ \A j \in Item : (row'[j] = row[j] /\ child'[j] = child[j]) \/ Expanded(j)
  <1> DEFINE old == row[i]
             status1 == IF retryable /\ old.attempts < MaxItemAttempts THEN "PENDING" ELSE "FAILED"
             new == [old EXCEPT !.status = status1, !.owner = Absent]
  <1>1. row \in [Item -> ItemRow] /\ old \in ItemRow /\ old.status = "RESOLVING"
    BY AlbumFacts DEF Fenced
  <1>2. row' = [row EXCEPT ![i] = new]
    BY <1>1 DEF RetryOrFail
  <1>3. ~HasChild(i) /\ old.selected /\ album[AlbumOf[i]].status \in Expanding
    BY <1>1, ResolvingIsOpen
  <1>4. status1 \in ItemStatus /\ status1 # "ATTACHED"
        /\ (status1 = "PENDING" => old.attempts < MaxItemAttempts)
    BY DEF ItemStatus
  <1> HIDE DEF old, status1
  <1>5. new \in ItemRow /\ new.status = status1 /\ new.selected = old.selected
        /\ new.attempts = old.attempts
    BY <1>1, <1>4 DEF ItemRow
  <1> HIDE DEF new
  <1>6. row'[i] = new /\ \A j \in Item : j # i => row'[j] = row[j]
    BY <1>1, <1>2
  <1>7. Expanded(i)
    <2>1. child'[i] = "NONE"
      BY <1>3 DEF HasChild
    <2> QED BY <1>3, <1>4, <1>5, <1>6, <2>1 DEF Expanded, old
  <1> QED BY <1>1, <1>2, <1>6, <1>7

LEMMA TaskIdles ==
  ASSUME AlbumInv, NEW w \in AlbumWorker,
         albumTask' = [albumTask EXCEPT ![w] = NoTask]
  PROVE  albumTask' \in [AlbumWorker -> TaskRow] /\ TaskFenced'
  <1>1. albumTask \in [AlbumWorker -> TaskRow]
    BY AlbumFacts DEF AlbumsTyped
  <1>2. NoTask \in TaskRow /\ NoTask.pc = "idle"
    BY DEF NoTask, TaskRow
  <1>3. \A v \in AlbumWorker : v = w
    BY AlbumAssumption
  <1>4. albumTask'[w] = NoTask
    BY <1>1
  <1>5. \A v \in AlbumWorker : albumTask'[v].pc = "idle"
    BY <1>2, <1>3, <1>4
  <1> QED BY <1>1, <1>2, <1>5 DEF TaskFenced

LEMMA TaskHas ==
  ASSUME AlbumInv, NEW w \in AlbumWorker, albumTask[w].pc # "idle"
  PROVE  albumTask[w].item \in Item /\ Fenced(albumTask[w].item, w)
  BY AlbumFacts DEF TaskFenced

LEMMA ResolveKeeps ==
  ASSUME AlbumInv, NEW w \in AlbumWorker, ResolveItem(w)
  PROVE  AlbumInv'
  <1>1. albumTask[w].pc = "resolve" /\ UNCHANGED <<album, child, teller>>
    BY DEF ResolveItem
  <1>2. albumTask[w].item \in Item /\ Fenced(albumTask[w].item, w)
    BY <1>1, TaskHas
  <1>3. child' = [i \in Item |-> child'[i]] /\ row = [i \in Item |-> row[i]]
    BY <1>1, AlbumFacts DEF AlbumsTyped
  <1>4. CASE albumTask' = [albumTask EXCEPT ![w].pc = "attach"] /\ UNCHANGED row
    <2>1. albumTask \in [AlbumWorker -> TaskRow] /\ albumTask[w] \in TaskRow
      BY AlbumFacts DEF AlbumsTyped
    <2>2. albumTask' = [albumTask EXCEPT ![w] = [albumTask[w] EXCEPT !.pc = "attach"]]
      BY <1>4, <2>1
    <2>3. [albumTask[w] EXCEPT !.pc = "attach"] \in TaskRow
          /\ [albumTask[w] EXCEPT !.pc = "attach"].item = albumTask[w].item
      BY <2>1 DEF TaskRow
    <2>4. albumTask' \in [AlbumWorker -> TaskRow] /\ albumTask'[w].item = albumTask[w].item
      BY <2>1, <2>2, <2>3
    <2>5. \A v \in AlbumWorker : v = w
      BY AlbumAssumption
    <2>6. TaskFenced'
      BY <1>2, <1>4, <2>4, <2>5 DEF TaskFenced, Fenced
    <2> QED BY <1>1, <1>3, <1>4, <2>4, <2>6, TaskStep
  <1>5. ASSUME NEW retryable \in BOOLEAN, RetryOrFail(albumTask[w].item, w, retryable),
               albumTask' = [albumTask EXCEPT ![w] = NoTask]
        PROVE  AlbumInv'
    <2>1. albumTask' \in [AlbumWorker -> TaskRow] /\ TaskFenced'
      BY <1>5, TaskIdles
    <2>2. /\ row' = [j \in Item |-> row'[j]]
          /\ \A j \in Item : (row'[j] = row[j] /\ child'[j] = child[j]) \/ Expanded(j)
      BY <1>1, <1>2, <1>5, ItemGivenUp
    <2> QED BY <1>1, <1>3, <2>1, <2>2, TaskStep
  <1> QED BY <1>4, <1>5 DEF ResolveItem

LEMMA AttachKeeps ==
  ASSUME AlbumInv, NEW w \in AlbumWorker, AttachItem(w)
  PROVE  AlbumInv'
  <1> DEFINE i == albumTask[w].item
             old == row[i]
             new == [old EXCEPT !.status = "ATTACHED", !.owner = Absent]
  <1>1. /\ albumTask[w].pc = "attach" /\ UNCHANGED <<album, teller>>
        /\ albumTask' = [albumTask EXCEPT ![w] = NoTask]
    BY DEF AttachItem
  <1>2. i \in Item /\ Fenced(i, w)
    BY <1>1, TaskHas
  <1>3. /\ row \in [Item -> ItemRow] /\ old \in ItemRow
        /\ child \in [Item -> EndedChild \cup {"NONE", "ACTIVE"}]
    BY <1>2, AlbumFacts DEF AlbumsTyped
  <1>4. ~HasChild(i) /\ old.selected /\ album[AlbumOf[i]].status \in Expanding
    BY <1>2, ResolvingIsOpen DEF Fenced
  <1>5. child' = [child EXCEPT ![i] = "ACTIVE"] /\ row' = [row EXCEPT ![i] = new]
    <2>1. /\ child' = [child EXCEPT ![i] = IF @ = "NONE" THEN "ACTIVE" ELSE @]
          /\ row' = [row EXCEPT ![i].status = "ATTACHED", ![i].owner = Absent]
      BY <1>2, <1>4 DEF AttachItem
    <2>2. child[i] = "NONE"
      BY <1>4 DEF HasChild
    <2> QED BY <1>2, <1>3, <2>1, <2>2
  <1> HIDE DEF i, old
  <1>6. new \in ItemRow /\ new.status = "ATTACHED" /\ new.selected = old.selected
    BY <1>3 DEF ItemRow, ItemStatus
  <1> HIDE DEF new
  <1>7. /\ row'[i] = new /\ child'[i] = "ACTIVE"
        /\ \A j \in Item : j # i => row'[j] = row[j] /\ child'[j] = child[j]
        /\ row' = [j \in Item |-> row'[j]] /\ child' = [j \in Item |-> child'[j]]
    BY <1>2, <1>3, <1>5
  <1>8. Expanded(i)
    BY <1>4, <1>6, <1>7 DEF Expanded, old
  <1>9. albumTask' \in [AlbumWorker -> TaskRow] /\ TaskFenced'
    BY <1>1, TaskIdles
  <1> QED BY <1>1, <1>7, <1>8, <1>9, TaskStep

LEMMA ExpiryKeeps ==
  ASSUME AlbumInv, NEW expired \in SUBSET Resolving, NEW j \in Item
  PROVE  /\ AfterExpiry(expired)[j] \in ItemRow
         /\ AfterExpiry(expired)[j] = row[j] \/
              /\ album[AlbumOf[j]].status \in Expanding /\ row[j].selected
              /\ AfterExpiry(expired)[j].selected
              /\ AfterExpiry(expired)[j].status \in {"PENDING", "FAILED"}
              /\ AfterExpiry(expired)[j].status = "PENDING" =>
                   AfterExpiry(expired)[j].attempts < MaxItemAttempts
              /\ ~HasChild(j)
  <1>1. row[j] \in ItemRow
    BY AlbumFacts
  <1>2. CASE j \notin expired
    BY <1>1, <1>2 DEF AfterExpiry
  <1>3. CASE j \in expired
    <2> DEFINE old == row[j]
               status1 == IF old.attempts >= MaxItemAttempts THEN "FAILED" ELSE "PENDING"
               new == [old EXCEPT !.status = status1, !.owner = Absent]
    <2>1. AfterExpiry(expired)[j] = new
      BY <1>3 DEF AfterExpiry, ExpiredItem
    <2>2. ~HasChild(j) /\ row[j].selected /\ album[AlbumOf[j]].status \in Expanding
      BY <1>3, ResolvingIsOpen DEF Resolving
    <2>3. old.attempts \in 0 .. MaxItemAttempts /\ MaxItemAttempts \in Nat
      BY <1>1, AlbumAssumption DEF ItemRow
    <2>4. /\ status1 \in {"PENDING", "FAILED"} /\ status1 \in ItemStatus
          /\ (status1 = "PENDING" => old.attempts < MaxItemAttempts)
      BY <2>3 DEF ItemStatus
    <2>5. old \in ItemRow
      BY <1>1
    <2> HIDE DEF old, status1
    <2>6. new \in ItemRow /\ new.status = status1 /\ new.selected = old.selected
          /\ new.attempts = old.attempts
      BY <2>4, <2>5 DEF ItemRow
    <2> HIDE DEF new
    <2> QED BY <2>1, <2>2, <2>4, <2>6 DEF old
  <1> QED BY <1>2, <1>3

LEMMA ClaimKeeps ==
  ASSUME AlbumInv, NEW w \in AlbumWorker, ClaimTrack(w)
  PROVE  AlbumInv'
  <1>1. PICK expired \in SUBSET Resolving :
          \/ \E i \in ClaimableTracks(AfterExpiry(expired)) :
               /\ row' = [AfterExpiry(expired) EXCEPT
                            ![i] = [AfterExpiry(expired)[i] EXCEPT !.status = "RESOLVING",
                                      !.owner = w, !.attempts = @ + 1]]
               /\ album' = [album EXCEPT ![AlbumOf[i]].status = "PROCESSING"]
               /\ albumTask' = [albumTask EXCEPT ![w] = [pc |-> "resolve", item |-> i]]
          \/ row' = AfterExpiry(expired) /\ UNCHANGED <<album, albumTask>>
    BY DEF ClaimTrack
  <1>2. albumTask[w].pc = "idle" /\ UNCHANGED <<child, teller>>
    BY DEF ClaimTrack
  <1> DEFINE rows == AfterExpiry(expired)
  <1>3. /\ rows \in [Item -> ItemRow] /\ rows = [j \in Item |-> rows[j]]
        /\ albumTask \in [AlbumWorker -> TaskRow]
        /\ child \in [Item -> EndedChild \cup {"NONE", "ACTIVE"}]
        /\ child' = [j \in Item |-> child'[j]]
    <2>1. \A j \in Item : rows[j] \in ItemRow
      BY ExpiryKeeps
    <2> QED BY <1>2, <2>1, AlbumFacts DEF AfterExpiry, AlbumsTyped
  <1>4. ASSUME NEW j \in Item, row'[j] = rows[j]
        PROVE  (row'[j] = row[j] /\ child'[j] = child[j]) \/ Expanded(j)
    <2>1. CASE rows[j] = row[j]
      BY <1>2, <1>4, <2>1
    <2>2. CASE rows[j] # row[j]
      <3>1. /\ album[AlbumOf[j]].status \in Expanding /\ row[j].selected
            /\ rows[j].selected /\ rows[j].status \in {"PENDING", "FAILED"}
            /\ rows[j].status = "PENDING" => rows[j].attempts < MaxItemAttempts
            /\ ~HasChild(j)
        BY <2>2, ExpiryKeeps
      <3> HIDE DEF rows
      <3> QED BY <1>2, <1>3, <1>4, <3>1 DEF Expanded, HasChild
    <2> QED BY <2>1, <2>2
  <1>5. ASSUME row' = rows, UNCHANGED <<album, albumTask>>
        PROVE  AlbumInv'
    <2>1. \A v \in AlbumWorker : v = w
      BY AlbumAssumption
    <2>2. albumTask' \in [AlbumWorker -> TaskRow] /\ TaskFenced'
      BY <1>2, <1>3, <1>5, <2>1 DEF TaskFenced
    <2>3. \A j \in Item : (row'[j] = row[j] /\ child'[j] = child[j]) \/ Expanded(j)
      BY <1>4, <1>5
    <2> QED BY <1>2, <1>3, <1>5, <2>2, <2>3, TaskStep
  <1>6. ASSUME NEW i \in ClaimableTracks(rows),
               row' = [rows EXCEPT ![i] = [rows[i] EXCEPT !.status = "RESOLVING", !.owner = w,
                                                          !.attempts = @ + 1]],
               album' = [album EXCEPT ![AlbumOf[i]].status = "PROCESSING"],
               albumTask' = [albumTask EXCEPT ![w] = [pc |-> "resolve", item |-> i]]
        PROVE  AlbumInv'
    <2>1. /\ i \in Item /\ album[AlbumOf[i]].status \in Expanding /\ AlbumOf[i] \in Album
          /\ rows[i].selected /\ rows[i].status = "PENDING"
      BY <1>6, AlbumFacts DEF ClaimableTracks
    <2>2. ~HasChild(i) /\ row[i].selected /\ rows[i].attempts < MaxItemAttempts
      <3>1. CASE rows[i] = row[i]
        BY <2>1, <3>1, AlbumFacts DEF ItemsSound
      <3>2. CASE rows[i] # row[i]
        BY <2>1, <3>2, ExpiryKeeps
      <3> QED BY <3>1, <3>2
    <2> DEFINE old == rows[i]
               tries == old.attempts + 1
               new == [old EXCEPT !.status = "RESOLVING", !.owner = w, !.attempts = tries]
    <2>3. row' = [rows EXCEPT ![i] = new]
      <3>1. old \in ItemRow
        BY <1>3, <2>1
      <3>2. [old EXCEPT !.status = "RESOLVING", !.owner = w, !.attempts = @ + 1] = new
        <4> HIDE DEF old
        <4> QED BY <3>1 DEF ItemRow
      <3> QED BY <1>6, <3>2
    <2>4. tries \in 0 .. MaxItemAttempts
      <3>1. old \in ItemRow /\ MaxItemAttempts \in Nat
        BY <1>3, <2>1, AlbumAssumption
      <3>2. old.attempts \in 0 .. MaxItemAttempts
        BY <3>1 DEF ItemRow
      <3> QED BY <2>2, <3>1, <3>2
    <2>5. old \in ItemRow /\ old.selected
      BY <1>3, <2>1
    <2> HIDE DEF tries, old
    <2>6. new \in ItemRow /\ new.status = "RESOLVING" /\ new.owner = w /\ new.selected
      BY <2>4, <2>5 DEF ItemRow, ItemStatus
    <2> HIDE DEF new
    <2> HIDE DEF rows
    <2>7. /\ row'[i] = new /\ \A j \in Item : j # i => row'[j] = rows[j]
          /\ row' = [j \in Item |-> row'[j]]
      BY <1>3, <2>1, <2>3
    <2>8. Expanded(i)
      BY <1>2, <2>1, <2>2, <2>6, <2>7 DEF Expanded, HasChild
    <2>9. \A j \in Item : (row'[j] = row[j] /\ child'[j] = child[j]) \/ Expanded(j)
      BY <1>4, <2>7, <2>8
    <2>10. /\ albumTask' \in [AlbumWorker -> TaskRow]
           /\ albumTask'[w].item = i
      <3>1. [pc |-> "resolve", item |-> i] \in TaskRow
        BY <2>1 DEF TaskRow
      <3> QED BY <1>3, <1>6, <3>1
    <2>11. \A v \in AlbumWorker : v = w
      BY AlbumAssumption
    <2>12. TaskFenced'
      BY <2>1, <2>6, <2>7, <2>10, <2>11 DEF TaskFenced, Fenced
    <2> QED BY <1>2, <1>3, <1>6, <2>1, <2>7, <2>9, <2>10, <2>12, TaskStep
  <1> QED BY <1>1, <1>5, <1>6

LEMMA ChildKeeps ==
  ASSUME AlbumInv, NEW i \in Item, ChildEnds(i)
  PROVE  AlbumInv'
  <1>1. /\ child[i] = "ACTIVE" /\ UNCHANGED <<album, row, albumTask, teller>>
        /\ \E status \in EndedChild : child' = [child EXCEPT ![i] = status]
    BY DEF ChildEnds
  <1>2. PICK status \in EndedChild : child' = [child EXCEPT ![i] = status]
    BY <1>1
  <1>3. child \in [Item -> EndedChild \cup {"NONE", "ACTIVE"}]
    BY AlbumFacts DEF AlbumsTyped
  <1>4. status # "NONE" /\ "ACTIVE" \notin EndedChild
    BY DEF EndedChild
  <1>5. /\ child' \in [Item -> EndedChild \cup {"NONE", "ACTIVE"}]
        /\ child'[i] = status /\ \A j \in Item : j # i => child'[j] = child[j]
    BY <1>2, <1>3
  <1>6. AlbumsTyped'
    BY <1>1, <1>5, AlbumFacts DEF AlbumsTyped
  <1>7. \A j \in Item : HasChild(j)' <=> HasChild(j)
    BY <1>1, <1>4, <1>5 DEF HasChild
  <1>8. ItemsSound'
    BY <1>1, <1>7, AlbumFacts DEF ItemsSound
  <1>9. TaskFenced'
    BY <1>1, AlbumFacts DEF TaskFenced, Fenced
  <1>10. ASSUME NEW j \in Item, album[AlbumOf[j]].status \in ClosedAlbum, row[j].selected
         PROVE  child'[j] = child[j]
    <2>1. j \in Selected(AlbumOf[j]) /\ AlbumOf[j] \in Album
      BY <1>10, AlbumFacts DEF Selected, TracksOf
    <2>2. HasChild(j) => child[j] \in EndedChild
      BY <1>10, <2>1, ClosedIsSettled DEF AlbumInv, Settled
    <2>3. j # i
      BY <1>1, <1>4, <2>2 DEF HasChild
    <2> QED BY <1>5, <2>3
  <1> QED BY <1>1, <1>6, <1>8, <1>9, <1>10, NothingCloses

-----------------------------------------------------------------------------
(* Closing and telling.                                                    *)

(* An album that is complete closes with the outcome of its deliveries.    *)
LEMMA ClosingKeeps ==
  ASSUME AlbumInv, UNCHANGED <<row, child>>,
         albumTask' = albumTask \/ albumTask' = [w \in AlbumWorker |-> NoTask],
         teller'.listed \subseteq Album, teller'.sent \subseteq Album,
         NEW closing \in SUBSET {a \in Album : album[a].status \in Expanding /\ Complete(a)},
         album' = [a \in Album |-> IF a \in closing THEN [album[a] EXCEPT !.status = Outcome(a)]
                                  ELSE album[a]]
  PROVE  AlbumInv'
  <1>1. ASSUME NEW a \in Album
        PROVE  /\ Outcome(a) \in ClosedAlbum /\ album'[a] \in AlbumRow
               /\ a \in closing => album'[a].status = Outcome(a)
               /\ a \notin closing => album'[a] = album[a]
    <2>1. Outcome(a) \in ClosedAlbum
      BY DEF Outcome, ClosedAlbum
    <2>2. album[a] \in AlbumRow
      BY AlbumFacts
    <2>3. [album[a] EXCEPT !.status = Outcome(a)] \in AlbumRow
          /\ [album[a] EXCEPT !.status = Outcome(a)].status = Outcome(a)
      BY <2>1, <2>2 DEF AlbumRow
    <2> QED BY <2>1, <2>2, <2>3
  <1>2. album' \in [Album -> AlbumRow]
    BY <1>1
  <1>3. albumTask' \in [AlbumWorker -> TaskRow] /\ TaskFenced'
    <2>1. NoTask \in TaskRow /\ NoTask.pc = "idle"
      BY DEF NoTask, TaskRow
    <2>2. CASE albumTask' = albumTask
      BY <2>2, AlbumFacts DEF AlbumsTyped, TaskFenced, Fenced
    <2>3. CASE albumTask' = [w \in AlbumWorker |-> NoTask]
      BY <2>1, <2>3 DEF TaskFenced
    <2> QED BY <2>2, <2>3
  <1>4. AlbumsTyped'
    BY <1>2, <1>3, AlbumFacts DEF AlbumsTyped
  <1>5. \A a \in Album : album[a].status \in Started => album'[a].status \in Started
    BY <1>1, Statuses
  <1>6. ItemsSound'
    BY <1>5, AlbumFacts DEF ItemsSound, HasChild
  <1>7. ASSUME NEW a \in Album PROVE (Settled(a)' <=> Settled(a)) /\ Outcome(a)' = Outcome(a)
    <2>1. Selected(a)' = Selected(a)
      BY DEF Selected
    <2>2. Attached(a)' = Attached(a)
      BY <2>1 DEF Attached, HasChild
    <2>3. ChildrenIn(a, {"DELIVERED"})' = ChildrenIn(a, {"DELIVERED"})
      BY <2>2 DEF ChildrenIn
    <2> QED BY <2>1, <2>3 DEF Settled, HasChild, Outcome, Count
  <1>8. ASSUME NEW a \in Album, album'[a].status \in ClosedAlbum
        PROVE  Settled(a)' /\ album'[a].status = Outcome(a)'
    <2>1. CASE a \in closing
      BY <1>1, <1>7, <2>1, CompleteIsOver
    <2>2. CASE a \notin closing
      BY <1>1, <1>7, <1>8, <2>2, ClosedIsSettled DEF AlbumInv
    <2> QED BY <2>1, <2>2
  <1>9. ClosedAlbumIsOver'
    BY <1>8, ClosedIsSettledNext
  <1> QED BY <1>3, <1>4, <1>6, <1>9 DEF AlbumInv

LEMMA TellingKeeps ==
  ASSUME AlbumInv, NEW a \in Album, SendCompletion(a) \/ CompletionFails(a) \/ MarkNotified(a)
  PROVE  AlbumInv'
  <1>1. UNCHANGED <<row, child, albumTask>>
    BY DEF SendCompletion, CompletionFails, MarkNotified
  <1>2. album \in [Album -> AlbumRow] /\ teller.listed \subseteq Album /\ teller.sent \subseteq Album
    BY AlbumFacts DEF AlbumsTyped
  <1>3. album' \in [Album -> AlbumRow] /\ \A b \in Album : album'[b].status = album[b].status
    <2>1. CASE album' = album
      BY <1>2, <2>1
    <2>2. CASE MarkNotified(a)
      <3> DEFINE old == album[a]
                 new == [old EXCEPT !.notified = TRUE]
      <3>1. old \in AlbumRow /\ album' = [album EXCEPT ![a] = new]
        BY <1>2, <2>2 DEF MarkNotified
      <3> HIDE DEF old
      <3>2. new \in AlbumRow /\ new.status = old.status
        BY <3>1 DEF AlbumRow
      <3> HIDE DEF new
      <3> QED BY <1>2, <3>1, <3>2 DEF old
    <2> QED BY <2>1, <2>2 DEF SendCompletion, CompletionFails
  <1>4. teller'.listed \subseteq Album /\ teller'.sent \subseteq Album
    <2>1. CASE SendCompletion(a)
      <3>1. teller' = [listed |-> teller.listed \ {a}, sent |-> {a}]
        BY <2>1 DEF SendCompletion
      <3> QED BY <1>2, <3>1
    <2>2. CASE CompletionFails(a)
      <3>1. teller' = [teller EXCEPT !.listed = @ \ {a}]
        BY <2>2 DEF CompletionFails
      <3>2. teller'.listed \in {teller.listed \ {a}, teller'.listed} /\ teller'.sent = teller.sent
        BY <3>1
      <3> QED BY <1>2, <3>1, <3>2
    <2>3. CASE MarkNotified(a)
      BY <1>2, <2>3 DEF MarkNotified
    <2> QED BY <2>1, <2>2, <2>3
  <1>5. AlbumsTyped'
    BY <1>1, <1>3, <1>4, AlbumFacts DEF AlbumsTyped
  <1>6. ItemsSound'
    BY <1>1, <1>3, AlbumFacts DEF ItemsSound, HasChild
  <1>7. TaskFenced'
    BY <1>1, AlbumFacts DEF TaskFenced, Fenced
  <1> QED BY <1>1, <1>3, <1>5, <1>6, <1>7, NothingCloses

(* The initial states.                                                     *)
LEMMA AlbumStart == AlbumInit => AlbumInv
  <1> SUFFICES ASSUME AlbumInit PROVE AlbumInv
    OBVIOUS
  <1>1. NoAlbum \in AlbumRow /\ NoAlbum.status = "NONE"
    BY DEF NoAlbum, AlbumRow
  <1>2. NewRow \in ItemRow /\ NewRow.status = "PENDING" /\ NewRow.attempts = 0
    BY AlbumAssumption DEF NewRow, ItemRow, ItemStatus
  <1>3. NoTask \in TaskRow /\ NoTask.pc = "idle"
    BY DEF NoTask, TaskRow
  <1>4. AlbumsTyped
    BY <1>1, <1>2, <1>3 DEF AlbumInit, AlbumsTyped, NoTeller
  <1>5. ItemsSound
    BY <1>2, AlbumAssumption DEF AlbumInit, ItemsSound, HasChild
  <1>6. TaskFenced /\ ClosedAlbumIsOver
    BY <1>1, <1>3 DEF AlbumInit, TaskFenced, ClosedAlbumIsOver, ClosedAlbum
  <1> QED BY <1>4, <1>5, <1>6 DEF AlbumInv

(* Every step keeps the invariant.                                         *)
LEMMA AlbumStep == AlbumInv /\ [AlbumNext]_albumVars => AlbumInv'
  <1> SUFFICES ASSUME AlbumInv, [AlbumNext]_albumVars PROVE AlbumInv'
    OBVIOUS
  <1>1. ASSUME NEW a \in Album, CreateAlbum(a) \/ CardMove(a) PROVE AlbumInv'
    BY <1>1, CardKeeps
  <1>2. ASSUME NEW a \in Album,
               (\E selected \in BOOLEAN : SelectAll(a, selected)) \/ QueueAll(a) \/ QueueSelected(a)
        PROVE  AlbumInv'
    BY <1>2, PressesKeep
  <1>3. ASSUME NEW a \in Album, SendCompletion(a) \/ CompletionFails(a) \/ MarkNotified(a)
        PROVE  AlbumInv'
    BY <1>3, TellingKeeps
  <1>4. ASSUME NEW i \in Item, ToggleItem(i) PROVE AlbumInv'
    <2>1. AlbumOf[i] \in Album
      BY AlbumAssumption
    <2> QED BY <1>4, <2>1, PressesKeep
  <1>5. ASSUME NEW i \in Item, ChildEnds(i) PROVE AlbumInv'
    BY <1>5, ChildKeeps
  <1>6. ASSUME NEW w \in AlbumWorker, ClaimTrack(w) \/ ResolveItem(w) \/ AttachItem(w)
        PROVE  AlbumInv'
    BY <1>6, ClaimKeeps, ResolveKeeps, AttachKeeps
  <1>7. CASE CloseAlbums
    <2> DEFINE closing == {a \in Album : album[a].status \in Expanding /\ Complete(a)}
    <2>1. /\ teller' = [NoTeller EXCEPT !.listed = closing \cup Unnotified]
          /\ album' = [a \in Album |-> IF a \in closing THEN [album[a] EXCEPT !.status = Outcome(a)]
                                       ELSE album[a]]
          /\ UNCHANGED <<row, child, albumTask>>
      BY <1>7 DEF CloseAlbums
    <2>2. teller'.listed \subseteq Album /\ teller'.sent \subseteq Album
      BY <2>1 DEF NoTeller, Unnotified
    <2>3. closing \in SUBSET {a \in Album : album[a].status \in Expanding /\ Complete(a)}
      OBVIOUS
    <2> HIDE DEF closing
    <2> QED BY <2>1, <2>2, <2>3, ClosingKeeps
  <1>8. CASE AlbumRestart
    <2> DEFINE closing == {a \in Album : album[a].status \in Expanding /\ Complete(a)}
    <2>1. /\ teller' = NoTeller
          /\ album' = [a \in Album |-> IF a \in closing THEN [album[a] EXCEPT !.status = Outcome(a)]
                                       ELSE album[a]]
          /\ UNCHANGED <<row, child>> /\ albumTask' = [w \in AlbumWorker |-> NoTask]
      BY <1>8 DEF AlbumRestart
    <2>2. teller'.listed \subseteq Album /\ teller'.sent \subseteq Album
      BY <2>1 DEF NoTeller
    <2>3. closing \in SUBSET {a \in Album : album[a].status \in Expanding /\ Complete(a)}
      OBVIOUS
    <2> HIDE DEF closing
    <2> QED BY <2>1, <2>2, <2>3, ClosingKeeps
  <1>9. CASE UNCHANGED albumVars
    <2>1. UNCHANGED <<album, row, child, albumTask, teller>>
      BY <1>9 DEF albumVars
    <2>2. AlbumsTyped' /\ ItemsSound' /\ TaskFenced'
      BY <2>1, AlbumFacts DEF AlbumsTyped, ItemsSound, TaskFenced, HasChild, Fenced
    <2> QED BY <2>1, <2>2, NothingCloses
  <1> QED BY <1>1, <1>2, <1>3, <1>4, <1>5, <1>6, <1>7, <1>8, <1>9 DEF AlbumNext, CoordinatorStep

-----------------------------------------------------------------------------
(* The parts of MCDownloads.  Each takes steps of its component's          *)
(* next-state relation, so the component's invariant carries it.           *)

BatchPart == {"batches", "restarted"}
ExecPart == {"accounts", "fallback"}
PipePart == {"pipeline", "crashing"}
MediaPart == {"media", "options"}

PathInv ==
  /\ part \in BatchPart => BatchSafe
  /\ part = "single" => AdmInv
  /\ part = "leases" => LifeInv
  /\ part = "albums" => AlbumInv
  /\ part \in ExecPart => ExecInv
  /\ part \in PipePart => PipeInv
  /\ part \in MediaPart => MediaInv

(* The initial states of every part.                                       *)
LEMMA PathStart == PathInit => PathInv
  BY BatchStart, AdmissionStart, LifeStart, AlbumStart, ExecStart, PipeStart, MediaStart
  DEF PathInit, PathInv, BatchPart, ExecPart, PipePart, MediaPart

(* A step of the run is a step of the component its part names, or none.   *)
LEMMA PathSteps ==
  ASSUME [PathNext]_<<pathVars, part>>
  PROVE  /\ part' = part
         /\ part \in BatchPart => [BatchNext]_batchVars
         /\ part = "single" => [AdmissionNext]_admissionVars
         /\ part = "leases" => [LifeNext]_life
         /\ part = "albums" => [AlbumNext]_albumVars
         /\ part \in ExecPart => [ExecNext]_execVars
         /\ part \in PipePart => [PipeNext]_pipeVars
         /\ part \in MediaPart => [MediaNext]_mediaVars
  <1> USE DEF BatchPart, ExecPart, PipePart, MediaPart
  <1>1. CASE UNCHANGED <<pathVars, part>>
    BY <1>1 DEF pathVars, batchVars, admissionVars
  <1>2. CASE PathNext
    <2>1. CASE Requests
      BY <1>2, <2>1 DEF PathNext, Requests, RetriedNext, RestartedNext, BatchSide, DialogNext, LeaseNext
    <2>2. CASE Albums
      BY <1>2, <2>2 DEF PathNext, Albums
    <2>3. CASE Executions
      BY <1>2, <2>3 DEF PathNext, Executions, AccountNext, FallbackNext
    <2>4. CASE Pipelines
      BY <1>2, <2>4 DEF PathNext, Pipelines, OnePlanNext, CrashingNext
    <2>5. CASE Media
      BY <1>2, <2>5 DEF PathNext, Media, TwoPressesNext, OnePressNext
    <2> QED BY <1>2, <2>1, <2>2, <2>3, <2>4, <2>5 DEF PathNext
  <1> QED BY <1>1, <1>2

(* Every step keeps the invariant of its part.                             *)
LEMMA PathStep == PathInv /\ [PathNext]_<<pathVars, part>> => PathInv'
  <1> SUFFICES ASSUME PathInv, [PathNext]_<<pathVars, part>> PROVE PathInv'
    OBVIOUS
  <1>1. part \in BatchPart => BatchSafe'
    BY PathSteps, BatchStep DEF PathInv
  <1>2. part = "single" => AdmInv'
    BY PathSteps, AdmissionStep DEF PathInv
  <1>3. part = "leases" => LifeInv'
    BY PathSteps, LifeStep DEF PathInv
  <1>4. part = "albums" => AlbumInv'
    BY PathSteps, AlbumStep DEF PathInv
  <1>5. part \in ExecPart => ExecInv'
    BY PathSteps, ExecStep DEF PathInv
  <1>6. part \in PipePart => PipeInv'
    BY PathSteps, PipeStep DEF PathInv
  <1>7. part \in MediaPart => MediaInv'
    BY PathSteps, MediaStep DEF PathInv
  <1> QED BY <1>1, <1>2, <1>3, <1>4, <1>5, <1>6, <1>7, PathSteps DEF PathInv

(* The invariant of whatever part runs is inductive.                       *)
THEOREM PathInductive == PathSpec => []PathInv
  BY PathStart, PathStep, PTL DEF PathSpec

(* RecordsAreTrue: however handlers, late buttons, delivery workers, leases *)
(* and restarts interleave, a lifecycle record never claims an end its     *)
(* delivery request did not have.                                          *)
THEOREM RecordsStayTrue == PathSpec => []RecordsAreTrue
  <1>1. PathInv => RecordsAreTrue
    <2>1. BatchSafe => BatchTypeOK /\ RecordIsTrue /\ SucceededIsDelivered
      BY BatchPromises DEF BatchSafe
    <2>2. AdmInv => AdmissionTypeOK /\ RecordIsTrue /\ SucceededIsDelivered
      BY DEF AdmInv, LifeInv, AdmissionTypeOK, RequestsTyped, RequestRow, RestTyped,
             TasksHaveMessages, DeliveryRow
    <2>3. LifeInv => LifeTypeOK /\ SucceededIsDelivered
      BY DEF LifeInv
    <2> QED BY <2>1, <2>2, <2>3 DEF PathInv, BatchPart, RecordsAreTrue
  <1> QED BY <1>1, PathInductive, PTL

(* EndsAreFinal: neither a request nor its record starts or ends twice,    *)
(* whoever is late.                                                        *)
THEOREM EndsStayFinal == PathSpec => EndsAreFinal
  <1>1. PathInv /\ [PathNext]_<<pathVars, part>> =>
          [/\ (part \in {"batches", "restarted", "single"}) => StartsOnce
           /\ (part \in {"batches", "restarted", "single", "leases"}) => KeepsEnds]_<<life, request>>
    <2> SUFFICES ASSUME PathInv, [PathNext]_<<pathVars, part>>,
                        ~UNCHANGED <<life, request>>
                 PROVE  /\ part \in {"batches", "restarted", "single"} => StartsOnce
                        /\ part \in {"batches", "restarted", "single", "leases"} => KeepsEnds
      OBVIOUS
    <2>1. (life' = life => KeepsEnds) /\ ~UNCHANGED admissionVars
      BY DEF KeepsEnds, admissionVars
    <2>2. part \in BatchPart => [KeepsEnds]_life /\ [StartsOnce]_admissionVars
      BY PathSteps, BatchStep DEF PathInv
    <2>3. part = "single" => [KeepsEnds]_life /\ [StartsOnce]_admissionVars
      BY PathSteps, AdmissionStep DEF PathInv
    <2>4. part = "leases" => [KeepsEnds]_life
      BY PathSteps, LifeStep DEF PathInv
    <2> QED BY <2>1, <2>2, <2>3, <2>4 DEF BatchPart
  <1> QED BY <1>1, PathInductive, PTL DEF PathSpec, EndsAreFinal

(* ClosedIsOver: a batch or an album that was closed has nothing under way, *)
(* and was closed as what its tracks came to.                              *)
THEOREM ClosedStaysOver == PathSpec => []ClosedIsOver
  <1>1. PathInv => ClosedIsOver
    BY BatchPromises, AlbumPromises DEF PathInv, BatchPart, BatchSafe, ClosedIsOver
  <1> QED BY <1>1, PathInductive, PTL

(* ExecutionIsAudited: whatever accounts and providers a job falls back to, *)
(* its audit is complete and no account is tried twice for a candidate.    *)
THEOREM ExecutionsAudited == PathSpec => []ExecutionIsAudited
  <1>1. PathInv => ExecutionIsAudited
    BY ExecPromises DEF PathInv, ExecPart, ExecutionIsAudited
  <1> QED BY <1>1, PathInductive, PTL

(* CooldownsAreKept: only time or a download that succeeded on it ends the *)
(* rest of a rate-limited account.                                         *)
THEOREM CooldownsKept == PathSpec => CooldownsAreKept
  <1>1. PathInv /\ [PathNext]_<<pathVars, part>> =>
          [(part \in {"accounts", "fallback"}) => KeepsCooldown]_health
    BY PathSteps, ExecStep DEF PathInv, ExecPart, execVars
  <1> QED BY <1>1, PathInductive, PTL DEF PathSpec, CooldownsAreKept

(* PipelineIsSafe: the limiter counts its callers, and no sweep takes the  *)
(* directory of a worker or of an open upload.                             *)
THEOREM PipelinesSafe == PathSpec => []PipelineIsSafe
  <1>1. PathInv => PipelineIsSafe
    BY PipePromises DEF PathInv, PipePart, PipelineIsSafe
  <1> QED BY <1>1, PathInductive, PTL

(* MediaIsHonest: whatever is chosen and offered, no file pretends to be   *)
(* better than its source.                                                 *)
THEOREM MediaHonest == PathSpec => []MediaIsHonest
  <1>1. PathInv => MediaIsHonest
    BY MediaPromises DEF PathInv, MediaPart, MediaIsHonest
  <1> QED BY <1>1, PathInductive, PTL
=============================================================================
