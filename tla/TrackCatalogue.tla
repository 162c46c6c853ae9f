--------------------------- MODULE TrackCatalogue ---------------------------
(***************************************************************************)
(* The canonical tracks and their provider sources: ResolveTrackService,   *)
(* the deterministic matcher of track_matching, and the repositories of    *)
(* tracks and track_sources.  Resolutions run concurrently.                *)
(*                                                                         *)
(* SQLite begins a transaction at its first write (the driver's default),  *)
(* so what a transaction() block has read may be old when it writes: a     *)
(* block is a read step and a write step, and only the write is atomic and *)
(* rolled back as a whole.  An ORM row keeps the values it was read with.  *)
(*                                                                         *)
(* A title stands for title and artist together.                           *)
(***************************************************************************)
EXTENDS Naturals, FiniteSets

CONSTANTS
  Resolver,       \* tasks that resolve
  Source,         \* (provider, provider_track_id) pairs
  Track,          \* row ids of tracks
  NoTrack,        \* no track, no source
  ProviderOf,     \* source |-> its provider
  Metadata,       \* what a provider may say about a source
  MaxCandidates,  \* MAX_DATABASE_CANDIDATES
  MaxPersists     \* _MAX_PERSIST_ATTEMPTS

VARIABLES
  said,       \* source |-> the provider's metadata for it
  tracks,     \* row id |-> the canonical fields, or NoFields
  owner,      \* source |-> track_sources.track_id, or NoTrack
  resolution  \* resolver |-> what it is doing

catalogueVars == <<said, tracks, owner, resolution>>

Unknown == "unknown"
Fields == [title : {Unknown, "song", "song (live)", "other"}, isrc : {Unknown, "X", "Y"},
           seconds : Nat, explicit : {Unknown, "yes", "no"}]
NoFields == [title |-> Unknown, isrc |-> Unknown, seconds |-> 0, explicit |-> Unknown]
NoResolution == [pc |-> "idle", src |-> NoTrack, track |-> NoTrack, copy |-> NoFields,
                 target |-> NoTrack, left |-> {}, tries |-> 0]

(* NoFields stands for a row that is not there: no provider says that.     *)
ASSUME CatalogueAssumption ==
  /\ NoTrack \notin Track \cup Source
  /\ MaxCandidates \in Nat /\ MaxPersists \in Nat \ {0}
  /\ Metadata \subseteq Fields /\ NoFields \notin Metadata

CatalogueInit ==
  /\ said \in [Source -> Metadata]
  /\ tracks = [t \in Track |-> NoFields]
  /\ owner = [s \in Source |-> NoTrack]
  /\ resolution = [r \in Resolver |-> NoResolution]

-----------------------------------------------------------------------------
(* Identity.                                                               *)

(* normalize_title_artist: the version markers leave the title.            *)
Base(title) == CASE title = "song (live)" -> "song" [] OTHER -> title
Markers(title) == IF title = "song (live)" THEN {"live"} ELSE {}

Known(v) == v # Unknown

(* _duration_evidence, in seconds: strict up to 3, loose up to 5.          *)
Apart(a, b) == IF a > b THEN a - b ELSE b - a
DurationEvidence(a, b) ==
  IF a = 0 \/ b = 0 THEN "unknown"
  ELSE IF Apart(a, b) <= 3 THEN "match"
  ELSE IF Apart(a, b) <= 5 THEN "loose" ELSE "conflict"

SameTitle(a, b) == Known(a.title) /\ Known(b.title) /\ Base(a.title) = Base(b.title)
OtherTitle(a, b) == Known(a.title) /\ Known(b.title) /\ Base(a.title) # Base(b.title)
OtherRecording(a, b) ==
  \/ Markers(a.title) # Markers(b.title)
  \/ Known(a.explicit) /\ Known(b.explicit) /\ a.explicit # b.explicit
SameIsrc(a, b) == Known(a.isrc) /\ a.isrc = b.isrc
OtherIsrc(a, b) == Known(a.isrc) /\ Known(b.isrc) /\ a.isrc # b.isrc

(* _evaluate                                                               *)
Compatible(a, b) ==
  IF SameIsrc(a, b)
  THEN /\ ~OtherRecording(a, b) /\ ~OtherTitle(a, b)
       /\ DurationEvidence(a.seconds, b.seconds) # "conflict"
  ELSE /\ ~OtherIsrc(a, b) /\ ~OtherRecording(a, b) /\ SameTitle(a, b)
       /\ DurationEvidence(a.seconds, b.seconds) = "match"

-----------------------------------------------------------------------------
(* Rows.                                                                   *)

Stored(t) == tracks[t] # NoFields
ByIsrc(m) == {t \in Track : Stored(t) /\ SameIsrc(m, tracks[t])}
ByTitle(m) == {t \in Track : Stored(t) /\ SameTitle(m, tracks[t])}

(* The one track that the input matches, if the candidates say so; more    *)
(* candidates than are looked at make the match ambiguous.                 *)
MatchedTracks(m) ==
  LET found == ByIsrc(m) \cup ByTitle(m)
      compatible == {t \in found : Compatible(m, tracks[t])}
  IN IF Cardinality(found) > MaxCandidates \/ Cardinality(compatible) # 1
     THEN {} ELSE compatible

(* enrich_missing: what the row lacked when it was read.                   *)
Fill(row, copy, m) ==
  [title |-> IF Known(copy.title) \/ ~Known(m.title) THEN row.title ELSE m.title,
   isrc |-> IF Known(copy.isrc) \/ ~Known(m.isrc) THEN row.isrc ELSE m.isrc,
   seconds |-> IF copy.seconds # 0 \/ m.seconds = 0 THEN row.seconds ELSE m.seconds,
   explicit |-> IF Known(copy.explicit) \/ ~Known(m.explicit)
                THEN row.explicit ELSE m.explicit]

(* Mutant: the source follows whoever upserts it.                          *)
TakesAnySource(t, s) == TRUE

(* upsert_source keeps a source with its track; the unique (provider, id)  *)
(* pair refuses the second of two INSERTs.                                 *)
MayOwn(t, s) == owner[s] \in {NoTrack, t}

-----------------------------------------------------------------------------
(* The input.                                                              *)

Begins(r, s) ==
  /\ resolution[r].pc = "idle"
  /\ resolution' = [resolution EXCEPT ![r] = [NoResolution EXCEPT !.pc = "read", !.src = s]]
  /\ UNCHANGED <<said, tracks, owner>>

(* Its metadata cannot be had.                                             *)
Rejects(r) ==
  /\ resolution[r].pc = "read" /\ resolution[r].tries = 0
  /\ resolution' = [resolution EXCEPT ![r] = NoResolution]
  /\ UNCHANGED <<said, tracks, owner>>

ReadInput(r) ==
  LET s == resolution[r].src
      known == IF owner[s] # NoTrack THEN {owner[s]} ELSE MatchedTracks(said[s])
  IN /\ resolution[r].pc = "read"
     /\ IF known = {}
        THEN resolution' = [resolution EXCEPT ![r].pc = "create"]
        ELSE \E t \in known :
               resolution' = [resolution EXCEPT ![r].pc = "write", ![r].track = t,
                                                ![r].copy = tracks[t]]
     /\ UNCHANGED <<said, tracks, owner>>

(* The block failed: rolled back, and tried again while attempts are left. *)
TriesAgain(r) ==
  resolution' = [resolution EXCEPT
    ![r] = IF @.tries + 1 < MaxPersists
           THEN [NoResolution EXCEPT !.pc = "read", !.src = resolution[r].src,
                                     !.tries = resolution[r].tries + 1]
           ELSE NoResolution]

Searches(r, t) ==
  resolution' = [resolution EXCEPT
    ![r] = [NoResolution EXCEPT !.pc = "discover", !.src = resolution[r].src, !.track = t,
              !.left = {ProviderOf[s] : s \in Source} \ {ProviderOf[resolution[r].src]}]]

WriteInput(r) ==
  LET s == resolution[r].src
      t == resolution[r].track
  IN /\ resolution[r].pc = "write"
     /\ MayOwn(t, s)
     /\ tracks' = [tracks EXCEPT ![t] = Fill(@, resolution[r].copy, said[s])]
     /\ owner' = [owner EXCEPT ![s] = t]
     /\ Searches(r, t)
     /\ UNCHANGED said

CreateTrack(r) ==
  LET s == resolution[r].src
  IN /\ resolution[r].pc = "create"
     /\ \E t \in Track :
          /\ ~Stored(t)
          /\ MayOwn(t, s)
          /\ tracks' = [tracks EXCEPT ![t] = said[s]]
          /\ owner' = [owner EXCEPT ![s] = t]
          /\ Searches(r, t)
     /\ UNCHANGED said

(* Mutant: the track of a failed block stays.                              *)
ConflictKeepsTrack(r) ==
  LET s == resolution[r].src
  IN /\ resolution[r].pc = "create" /\ owner[s] # NoTrack
     /\ \E t \in Track : ~Stored(t) /\ tracks' = [tracks EXCEPT ![t] = said[s]]
     /\ TriesAgain(r)
     /\ UNCHANGED <<said, owner>>

(* Somebody else stored the source meanwhile, or the database stayed       *)
(* locked: nothing of the block is kept.                                   *)
InputConflict(r) ==
  /\ resolution[r].pc \in {"write", "create"}
  /\ TriesAgain(r)
  /\ UNCHANGED <<said, tracks, owner>>

-----------------------------------------------------------------------------
(* Discovery at the other providers, one after the other.                  *)

Skips(r, p) == resolution' = [resolution EXCEPT ![r].pc = "discover", ![r].left = @ \ {p},
                                                ![r].target = NoTrack, ![r].tries = 0,
                                                ![r].copy = NoFields]

(* The provider fails, or its verified results are none or several.  What  *)
(* it returns is compared with the input, not with the canonical track.    *)
Verified(r, found) == {s \in found : Compatible(said[resolution[r].src], said[s])}

DiscoverNothing(r, p) ==
  /\ resolution[r].pc = "discover" /\ p \in resolution[r].left
  /\ Skips(r, p)
  /\ UNCHANGED <<said, tracks, owner>>

Discover(r, p) ==
  /\ resolution[r].pc = "discover" /\ p \in resolution[r].left
  /\ Known(said[resolution[r].src].title)
  /\ \E found \in SUBSET {s \in Source : ProviderOf[s] = p} :
       /\ Cardinality(Verified(r, found)) = 1
       /\ \E s \in Verified(r, found) :
            resolution' = [resolution EXCEPT ![r].pc = "attach", ![r].target = s]
  /\ UNCHANGED <<said, tracks, owner>>

(* Already somebody else's: IDENTITY_CONFLICT.                             *)
ReadAttach(r) ==
  LET s == resolution[r].target
      t == resolution[r].track
  IN /\ resolution[r].pc = "attach"
     /\ IF owner[s] \notin {NoTrack, t}
        THEN Skips(r, ProviderOf[s])
        ELSE resolution' = [resolution EXCEPT ![r].pc = "attaching", ![r].copy = tracks[t]]
     /\ UNCHANGED <<said, tracks, owner>>

WriteAttach(r) ==
  LET s == resolution[r].target
      t == resolution[r].track
  IN /\ resolution[r].pc = "attaching"
     /\ MayOwn(t, s)
     /\ tracks' = [tracks EXCEPT ![t] = Fill(@, resolution[r].copy, said[s])]
     /\ owner' = [owner EXCEPT ![s] = t]
     /\ Skips(r, ProviderOf[s])
     /\ UNCHANGED said

(* The last conflict is an ERROR result of this provider alone.            *)
AttachConflict(r) ==
  /\ resolution[r].pc = "attaching"
  /\ \/ /\ resolution[r].tries + 1 < MaxPersists
        /\ resolution' = [resolution EXCEPT ![r].pc = "attach", ![r].tries = @ + 1,
                                             ![r].copy = NoFields]
     \/ /\ resolution[r].tries + 1 >= MaxPersists
        /\ Skips(r, ProviderOf[resolution[r].target])
  /\ UNCHANGED <<said, tracks, owner>>

Returns(r) ==
  /\ resolution[r].pc = "discover" /\ resolution[r].left = {}
  /\ resolution' = [resolution EXCEPT ![r].pc = "resolved"]
  /\ UNCHANGED <<said, tracks, owner>>

ForgetsResult(r) ==
  /\ resolution[r].pc = "resolved"
  /\ resolution' = [resolution EXCEPT ![r] = NoResolution]
  /\ UNCHANGED <<said, tracks, owner>>

CatalogueNext ==
  \E r \in Resolver :
    \/ \E s \in Source : Begins(r, s)
    \/ Rejects(r) \/ ReadInput(r) \/ WriteInput(r) \/ CreateTrack(r) \/ InputConflict(r)
    \/ \E s \in Source : DiscoverNothing(r, ProviderOf[s]) \/ Discover(r, ProviderOf[s])
    \/ ReadAttach(r) \/ WriteAttach(r) \/ AttachConflict(r)
    \/ Returns(r) \/ ForgetsResult(r)

CatalogueSpec == CatalogueInit /\ [][CatalogueNext]_catalogueVars

-----------------------------------------------------------------------------
(* Properties.                                                             *)

(* The rows and the resolutions are well formed.                           *)
CatalogueTypeOK ==
  /\ said \in [Source -> Fields]
  /\ tracks \in [Track -> Fields]
  /\ owner \in [Source -> Track \cup {NoTrack}]
  /\ \A r \in Resolver :
       /\ resolution[r].tries < MaxPersists
       /\ resolution[r].src \in Source \cup {NoTrack}
       /\ resolution[r].track \in Track \cup {NoTrack}

(* Whatever other resolutions did between its reads and its writes, the    *)
(* track a resolution goes on with owns the source it was asked for, and a *)
(* stored source has a stored track.                                       *)
ResolvedTrackOwnsSource ==
  /\ \A r \in Resolver :
       resolution[r].pc \in {"discover", "attach", "attaching", "resolved"} =>
         owner[resolution[r].src] = resolution[r].track
  /\ \A s \in Source : owner[s] # NoTrack => Stored(owner[s])

(* No canonical track without a source: a conflict at the source undoes    *)
(* the track that was created for it.                                      *)
TrackHasSource == \A t \in Track : Stored(t) => \E s \in Source : owner[s] = t
=============================================================================
