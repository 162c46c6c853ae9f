----------------------------- MODULE MediaPolicy -----------------------------
(***************************************************************************)
(* What becomes of one recording between a user's preferences and the file *)
(* Telegram is given: the preferences (UserDownloadPreferencesService),    *)
(* the profile frozen at admission (DownloadProfileResolver), the plan of  *)
(* the candidate the executor runs (stage25_execution.py, core/quality.py, *)
(* QualityResolver), its execution and the two validations                 *)
(* (DownloadPipeline, media.py).  Only a file that passed is uploaded.     *)
(*                                                                         *)
(* A medium is its codec, container and bit rate; sample rates, channels,  *)
(* tags and covers are left out, and so is the duration check.             *)
(***************************************************************************)
EXTENDS Integers, FiniteSets

CONSTANTS
  Editor,       \* presses on the settings card that may be under way at once
  Choices,      \* the options they press: qualities and formats
  Offers,       \* provider |-> potential_media of its capabilities
  Actual        \* media a provider may really send

Codecs == {"mp3", "aac", "flac", "vorbis"}
ContainerOf == [mp3 |-> "mp3", aac |-> "m4a", flac |-> "flac", vorbis |-> "ogg"]
Medium(codec, rate) == [codec |-> codec, container |-> ContainerOf[codec], rate |-> rate]
NoRate == 0

VARIABLES
  prefs,     \* the user's row of download_preferences
  edit,      \* editor |-> what it has read and wants to change
  media      \* the download

mediaVars == <<prefs, edit, media>>

Qualities == {"best_available", "lossless", "high", "standard"}
Formats == {"original", "flac", "mp3", "m4a"}
Profiles == {"MP3_128", "MP3_320", "AAC_128", "AAC_256", "LOSSLESS"}

(* QUALITY_OUTPUTS; the container of LOSSLESS is the one of its source.    *)
Output == [
  MP3_128 |-> [codec |-> "mp3", container |-> "mp3", rate |-> 128, lossless |-> FALSE],
  MP3_320 |-> [codec |-> "mp3", container |-> "mp3", rate |-> 320, lossless |-> FALSE],
  AAC_128 |-> [codec |-> "aac", container |-> "m4a", rate |-> 128, lossless |-> FALSE],
  AAC_256 |-> [codec |-> "aac", container |-> "m4a", rate |-> 256, lossless |-> FALSE],
  LOSSLESS |-> [codec |-> "any", container |-> "any", rate |-> NoRate, lossless |-> TRUE]]

NoProfile == [quality |-> "none", format |-> "original"]
NoMedia == [pc |-> "idle", q |-> "none", profile |-> NoProfile,
            plan |-> "none", source |-> "none", made |-> "none"]
NoEdit == [pc |-> "idle", seen |-> "none", to |-> "none"]
DefaultPrefs == [quality |-> "best_available", format |-> "original"]

IsMedium(m) ==
  m.codec \in Codecs /\ m.rate \in Nat /\ m = Medium(m.codec, m.rate)

ASSUME MediaAssumption ==
  /\ Choices \subseteq Qualities \cup Formats
  /\ \A p \in DOMAIN Offers : \A m \in Offers[p] : IsMedium(m)
  /\ \A m \in Actual : IsMedium(m)

MediaInit ==
  /\ prefs = DefaultPrefs
  /\ edit = [e \in Editor |-> NoEdit]
  /\ media = NoMedia

-----------------------------------------------------------------------------
(* Preferences: read in one transaction, written whole in another.         *)

Valid(p) == ~(p.quality = "lossless" /\ p.format \in {"mp3", "m4a"})

(* Mutant: the changed field is written over whatever the row holds now.   *)
MergedAtWrite(e) ==
  CASE edit[e].to \in Qualities -> [prefs EXCEPT !.quality = edit[e].to]
    [] OTHER -> [prefs EXCEPT !.format = edit[e].to]

Merged(e) ==
  CASE edit[e].to \in Qualities -> [edit[e].seen EXCEPT !.quality = edit[e].to]
    [] OTHER -> [edit[e].seen EXCEPT !.format = edit[e].to]

ReadPrefs(e) ==
  /\ edit[e].pc = "idle"
  /\ \E to \in Choices :
       edit' = [edit EXCEPT ![e] = [pc |-> "write", seen |-> prefs, to |-> to]]
  /\ UNCHANGED <<prefs, media>>

(* The combination is checked over what was read.                          *)
Checked(e) ==
  CASE edit[e].to \in Qualities -> Valid([edit[e].seen EXCEPT !.quality = edit[e].to])
    [] OTHER -> Valid([edit[e].seen EXCEPT !.format = edit[e].to])

WritePrefs(e) ==
  /\ edit[e].pc = "write"
  /\ prefs' = IF Checked(e) THEN Merged(e) ELSE prefs
  /\ edit' = [edit EXCEPT ![e] = NoEdit]
  /\ UNCHANGED media

ResetPrefs ==
  /\ prefs' = DefaultPrefs
  /\ UNCHANGED <<edit, media>>

-----------------------------------------------------------------------------
(* Admission.                                                              *)

(* _qualities() of a provider.                                             *)
Available(p) ==
  (IF \E m \in Offers[p] : m.codec = "flac" THEN {"lossless"} ELSE {})
  \cup (IF \E m \in Offers[p] : m.codec # "flac" THEN {"high", "standard"} ELSE {})

Ranking(quality) ==
  CASE quality = "high" -> <<"high", "standard", "standard">>
    [] quality = "standard" -> <<"standard", "high", "lossless">>
    [] OTHER -> <<"lossless", "high", "standard">>

(* _quality(): the first of the ranking that is there, else standard.      *)
Effective(quality, available) ==
  LET there == {i \in 1..3 : Ranking(quality)[i] \in available}
  IN IF there = {} THEN "standard"
     ELSE Ranking(quality)[CHOOSE i \in there : \A j \in there : i <= j]

(* _format(): what the containers of the provider allow.                   *)
Allowed(p) == {"original"} \cup {m.container : m \in Offers[p]}

(* The quality a button asks for.                                          *)
Asked == [LOSSLESS |-> "lossless", MP3_320 |-> "high", MP3_128 |-> "standard",
          AAC_256 |-> "high"]

(* resolve(): the profile a request freezes when it is admitted.           *)
ProfileFor(p, wanted) ==
  [quality |-> Effective(wanted.quality, Available(p)), format |-> wanted.format]

ProfilesFor(wanted) ==
  {ProfileFor(p, wanted) : p \in {o \in DOMAIN Offers : wanted.format \in Allowed(o)}}

(* admit(): a button asks for its own quality, but AAC_128 has no tier and *)
(* is resolved from the user's own preferences.  A canonical admission     *)
(* names no provider and freezes no profile.                               *)
Admit ==
  /\ media.pc = "idle"
  /\ \E q \in Profiles, exact \in BOOLEAN :
       LET wanted == IF exact /\ q # "AAC_128" THEN [prefs EXCEPT !.quality = Asked[q]]
                     ELSE prefs
       IN /\ Valid(wanted)
          /\ \E profile \in {NoProfile} \cup ProfilesFor(wanted) :
               media' = [NoMedia EXCEPT !.pc = "admitted", !.q = q, !.profile = profile]
  /\ UNCHANGED <<prefs, edit>>

(* _request_identity(): the executor takes the profile of the latest       *)
(* request for the track.  That may be the request of another user, with   *)
(* other preferences and another provider; the job keeps its quality.      *)
RequestedAgain ==
  /\ media.pc = "admitted"
  /\ \E theirs \in {w \in [quality : Qualities, format : Formats] : Valid(w)} :
       \E profile \in {NoProfile} \cup ProfilesFor(theirs) :
         media' = [media EXCEPT !.profile = profile]
  /\ UNCHANGED <<prefs, edit>>

-----------------------------------------------------------------------------
(* Planning.                                                               *)

Lossless(m) == m.codec = "flac"

(* _plan_for_media(): direct, transcode from lossless, or nothing.         *)
PlanFor(m, q) ==
  IF Lossless(m)
  THEN {[direct |-> Output[q].lossless, lossless |-> TRUE, codec |-> "any", rate |-> NoRate]}
  ELSE IF ~Output[q].lossless /\ m.codec = Output[q].codec /\ m.rate = Output[q].rate
  THEN {[direct |-> TRUE, lossless |-> FALSE, codec |-> m.codec, rate |-> m.rate]}
  ELSE {}

(* plans_for_candidate(): the medium the source check reported, or every   *)
(* one the provider may have.                                              *)
PlansFor(p, q) == UNION {PlanFor(m, q) : m \in Offers[p] \cup Actual}

(* candidate_supports_profile(): a profile frozen as lossless is kept to   *)
(* providers that have it, and nothing else of a profile is asked.  (A     *)
(* replay asks more, so it has fewer candidates than this.)                *)
Supports(p, profile) == profile.quality = "lossless" => "lossless" \in Available(p)

(* rank(): the providers whose candidates stay in the list.                *)
Ranked(profile) == {p \in DOMAIN Offers : Supports(p, profile)}

(* resolve(): the plans of every candidate that is ranked.                 *)
Resolved(q, profile) == UNION {PlansFor(p, q) : p \in Ranked(profile)}

(* execute(): the ranked candidates may be of any provider, also of one    *)
(* the profile was not frozen for.  A failed attempt leaves nothing behind *)
(* that the next one sees, so the candidate chosen here is the one tried   *)
(* last.                                                                   *)
Plan ==
  /\ media.pc = "admitted"
  /\ \/ \E plan \in Resolved(media.q, media.profile) :
          media' = [media EXCEPT !.pc = "planned", !.plan = plan]
     \/ media' = [NoMedia EXCEPT !.pc = "failed"]
  /\ UNCHANGED <<prefs, edit>>

Bound(a, b) == IF a > b THEN a ELSE b
Distance(a, b) == IF a > b THEN a - b ELSE b - a

(* round(): to the nearest; no rate of an Output has a part of one half.   *)
Share(target, percent) == (target * percent + 50) \div 100

Near(rate, target, least, percent) ==
  rate # NoRate /\ Distance(rate, target) <= Bound(least, Share(target, percent))

(* media_satisfies_requirement(): a native file of the kind planned for.   *)
Satisfies(m, plan) ==
  /\ m.native
  /\ plan.lossless => Lossless(m)
  /\ plan.codec # "any" => m.codec = plan.codec
  /\ plan.rate # NoRate => Near(m.rate, plan.rate, 8, 5)

(* prepare_source() where asked for, download_source(), probe().           *)
Fetch ==
  /\ media.pc = "planned"
  /\ \E m \in Actual, native \in BOOLEAN :
       LET sent == [codec |-> m.codec, container |-> m.container, rate |-> m.rate,
                    native |-> native]
       IN media' = IF Satisfies(sent, media.plan)
                   THEN [media EXCEPT !.pc = "fetched", !.source = sent]
                   ELSE [NoMedia EXCEPT !.pc = "failed"]
  /\ UNCHANGED <<prefs, edit>>

-----------------------------------------------------------------------------
(* Execution.                                                              *)

(* _output_for_format()                                                    *)
Wanted ==
  CASE media.profile.format = "flac" -> [codec |-> "flac", container |-> "flac", rate |-> NoRate]
    [] media.profile.format = "mp3" ->
         [codec |-> "mp3", container |-> "mp3",
          rate |-> IF media.profile.quality \in {"high", "best_available"} THEN 320 ELSE 128]
    [] media.profile.format = "m4a" -> [codec |-> "aac", container |-> "m4a", rate |-> 256]
    [] OTHER -> [codec |-> Output[media.q].codec, container |-> Output[media.q].container,
                 rate |-> Output[media.q].rate]

Converts ==
  \/ ~media.plan.direct
  \/ media.profile.format # "original" /\ Wanted.container # media.source.container

(* A lossy source is converted to one thing only, FLAC, when the profile   *)
(* does not call it lossless.                                              *)
MayConvert ==
  \/ Lossless(media.source)
  \/ media.profile.format = "flac" /\ media.profile.quality # "lossless"

(* _execute_plan().  The output is probed as native when the plan was      *)
(* direct, whether or not the format made a conversion of it.              *)
Execute ==
  /\ media.pc = "fetched"
  /\ media' =
       IF ~Converts
       THEN [media EXCEPT !.pc = "made",
                          !.made = [codec |-> media.source.codec,
                                    container |-> media.source.container,
                                    rate |-> media.source.rate,
                                    lossless |-> Lossless(media.source)]]
       ELSE IF MayConvert
       THEN [media EXCEPT !.pc = "made",
                          !.made = [codec |-> Wanted.codec, container |-> Wanted.container,
                                    rate |-> Wanted.rate,
                                    lossless |-> Wanted.codec = "flac" /\ media.plan.direct]]
       ELSE [NoMedia EXCEPT !.pc = "failed"]
  /\ UNCHANGED <<prefs, edit>>

(* output_satisfies_specification() over an output specification.          *)
Meets(m, spec) ==
  IF spec.lossless THEN m.lossless
  ELSE /\ m.codec = spec.codec /\ m.container = spec.container
       /\ spec.rate = NoRate \/ Near(m.rate, spec.rate, 16, 20)

(* Mutant: the file is compared with what it was converted to.             *)
MeetsFormat ==
  IF media.profile.format = "original" THEN Meets(media.made, Output[media.q])
  ELSE media.made.container = Wanted.container

(* The file is compared with the specification of the plan.                *)
MeetsPlan == Meets(media.made, Output[media.q])

Validate ==
  /\ media.pc = "made"
  /\ media' = [media EXCEPT !.pc = IF MeetsPlan THEN "valid" ELSE "rejected"]
  /\ UNCHANGED <<prefs, edit>>

NextDownload ==
  /\ media.pc \in {"failed", "rejected", "valid"}
  /\ media' = NoMedia
  /\ UNCHANGED <<prefs, edit>>

MediaNext ==
  \/ \E e \in Editor : ReadPrefs(e) \/ WritePrefs(e)
  \/ ResetPrefs
  \/ Admit \/ RequestedAgain \/ Plan \/ Fetch \/ Execute \/ Validate \/ NextDownload

-----------------------------------------------------------------------------

MediaTypeOK ==
  /\ prefs \in [quality : Qualities, format : Formats]
  /\ \A e \in Editor : edit[e].to \in Qualities \cup Formats \cup {"none"}
  /\ media.pc \in {"idle", "admitted", "planned", "fetched", "made", "valid", "rejected",
                   "failed"}
  /\ media.q \in Profiles \cup {"none"}

(* The settings never hold a lossless quality with a lossy format, however *)
(* two presses overlap.                                                    *)
PrefsAreValid == Valid(prefs)

(* A file that passes was never encoded from a lossy recording: it comes   *)
(* from a lossless one, or it is the recording the provider sent, at the   *)
(* rate asked for.  And a lossless quality is one: whatever candidate was  *)
(* run with whoever's profile.                                             *)
NoUpscale ==
  media.pc = "valid" =>
    /\ \/ Lossless(media.source)
       \/ /\ media.made.codec = media.source.codec
          /\ media.made.container = media.source.container
          /\ media.made.rate = media.source.rate
          /\ Near(media.source.rate, Output[media.q].rate, 8, 5)
    /\ media.q = "LOSSLESS" => Lossless(media.source) /\ media.made.codec = "flac"

(* docs/stage22-download-preferences.md: a format is accepted when the     *)
(* provider advertises it.  A file that was made as that format asks is    *)
(* then not thrown away.                                                   *)
AcceptedFormatIsDelivered ==
  media.pc = "rejected" => media.made.container # Wanted.container
=============================================================================
