---------------------------- MODULE TelegramAlbums ----------------------------
(***************************************************************************)
(* Album cards (TelegramAlbumRequestService), the expansion of the tracks  *)
(* selected on them into delivery requests and the closing of the album    *)
(* (TelegramAlbumCoordinator and its manager), over the rows of            *)
(* TelegramAlbumRepository.                                                *)
(*                                                                         *)
(* A delivery request made for an item is only followed from outside here: *)
(* TelegramDelivery ends it.  Time is left out: a backoff may be over at   *)
(* once, and a lease may run out whenever its worker is not ahead of it.   *)
(***************************************************************************)
EXTENDS Naturals, FiniteSets

CONSTANTS
  Album, Item,    \* telegram_album_requests and telegram_album_items rows
  AlbumOf,        \* item |-> its album
  AlbumWorker,    \* coordinator tasks: the manager starts one
  Absent,         \* a task has nothing to do
  MaxItemAttempts,    \* ALBUM_ITEM_MAX_ATTEMPTS
  MaxAlbumRestarts     \* bound on restarts

ASSUME AlbumAssumption ==
  /\ AlbumOf \in [Item -> Album]
  /\ MaxItemAttempts \in Nat \ {0}
  /\ Absent \notin Item
  /\ IsFiniteSet(Item)
  /\ \A v, w \in AlbumWorker : v = w    \* workers: int = 1, and nobody asks for more

VARIABLES
  album,      \* album |-> its row
  row,        \* item |-> its row
  child,      \* item |-> the status of its delivery request
  albumTask,       \* worker |-> the item it processes
  teller,     \* what _notify_terminal has listed, and sent but not recorded
  messages,   \* album |-> completion messages sent
  albumRestarts

albumVars == <<album, row, child, albumTask, teller, messages, albumRestarts>>

Choosing == {"AWAITING_QUALITY", "AWAITING_ACTION", "AWAITING_ALBUM_QUALITY", "SELECTING_TRACKS"}
Expanding == {"QUEUED", "PROCESSING"}
ClosedAlbum == {"COMPLETED", "PARTIALLY_FAILED", "FAILED"}
ItemStatus == {"PENDING", "RESOLVING", "ATTACHED", "FAILED"}
EndedChild == {"DELIVERED", "FAILED", "CANCELLED"}

NoAlbum == [status |-> "NONE", notified |-> FALSE]
NewRow == [status |-> "PENDING", selected |-> FALSE, attempts |-> 0, owner |-> Absent]
NoTask == [pc |-> "idle", item |-> Absent]
NoTeller == [listed |-> {}, sent |-> {}]

TracksOf(a) == {i \in Item : AlbumOf[i] = a}
Selected(a) == {i \in TracksOf(a) : row[i].selected}
HasChild(i) == child[i] # "NONE"

AlbumInit ==
  /\ album = [a \in Album |-> NoAlbum]
  /\ row = [i \in Item |-> NewRow]
  /\ child = [i \in Item |-> "NONE"]
  /\ albumTask = [w \in AlbumWorker |-> NoTask]
  /\ teller = NoTeller
  /\ messages = [a \in Album |-> 0]
  /\ albumRestarts = 0

-----------------------------------------------------------------------------
(* The card.                                                               *)

CreateAlbum(a) ==
  /\ album[a].status = "NONE"
  /\ \E first \in {"AWAITING_QUALITY", "AWAITING_ACTION"} :
       album' = [album EXCEPT ![a].status = first]
  /\ UNCHANGED <<row, child, albumTask, teller, messages, albumRestarts>>

(* _transition(): one UPDATE that expects a status.                        *)
Transition(a, from, to) ==
  /\ album[a].status = from
  /\ album' = [album EXCEPT ![a].status = to]

CardTransitions ==
  {<<"AWAITING_QUALITY", "AWAITING_ACTION">>,
   <<"AWAITING_ACTION", "AWAITING_ALBUM_QUALITY">>,
   <<"AWAITING_ALBUM_QUALITY", "AWAITING_ACTION">>,
   <<"AWAITING_ACTION", "SELECTING_TRACKS">>,
   <<"SELECTING_TRACKS", "AWAITING_ACTION">>}

CardMove(a) ==
  /\ \E move \in CardTransitions : Transition(a, move[1], move[2])
  /\ UNCHANGED <<row, child, albumTask, teller, messages, albumRestarts>>

(* Mutant: a press on a card that is not the current one.                  *)
AnyCard(a) == album[a].status # "NONE"

Selecting(a) == album[a].status = "SELECTING_TRACKS"

ToggleItem(i) ==
  /\ Selecting(AlbumOf[i])
  /\ row' = [row EXCEPT ![i].selected = ~@]
  /\ UNCHANGED <<album, child, albumTask, teller, messages, albumRestarts>>

SelectAll(a, selected) ==
  /\ Selecting(a)
  /\ row' = [i \in Item |-> IF i \in TracksOf(a) THEN [row[i] EXCEPT !.selected = selected]
                            ELSE row[i]]
  /\ UNCHANGED <<album, child, albumTask, teller, messages, albumRestarts>>

QueueAll(a) ==
  /\ Transition(a, "AWAITING_ACTION", "QUEUED")
  /\ row' = [i \in Item |-> IF i \in TracksOf(a) THEN [row[i] EXCEPT !.selected = TRUE]
                            ELSE row[i]]
  /\ UNCHANGED <<child, albumTask, teller, messages, albumRestarts>>

QueueSelected(a) ==
  /\ Selected(a) # {}
  /\ Transition(a, "SELECTING_TRACKS", "QUEUED")
  /\ UNCHANGED <<row, child, albumTask, teller, messages, albumRestarts>>

-----------------------------------------------------------------------------
(* Expansion.                                                              *)

ExpiredItem(r) ==
  [r EXCEPT !.status = IF r.attempts >= MaxItemAttempts THEN "FAILED" ELSE "PENDING",
            !.owner = Absent]

(* claim(): expired leases first, then the first pending item of an album  *)
(* that is being expanded.                                                 *)
ClaimableTracks(rows) ==
  {i \in Item : /\ album[AlbumOf[i]].status \in Expanding
                /\ rows[i].selected /\ rows[i].status = "PENDING"}

AfterExpiry(expired) ==
  [i \in Item |-> IF i \in expired THEN ExpiredItem(row[i]) ELSE row[i]]

Resolving == {i \in Item : row[i].status = "RESOLVING"}

ClaimTrack(w) ==
  /\ albumTask[w].pc = "idle"
  /\ \E expired \in SUBSET Resolving :
       LET rows == AfterExpiry(expired)
       IN \/ \E i \in ClaimableTracks(rows) :
               /\ row' = [rows EXCEPT ![i] = [rows[i] EXCEPT !.status = "RESOLVING", !.owner = w,
                                                             !.attempts = @ + 1]]
               /\ album' = [album EXCEPT ![AlbumOf[i]].status = "PROCESSING"]
               /\ albumTask' = [albumTask EXCEPT ![w] = [pc |-> "resolve", item |-> i]]
          \/ /\ ClaimableTracks(rows) = {} /\ expired # {}
             /\ row' = rows
             /\ UNCHANGED <<album, albumTask>>
  /\ UNCHANGED <<child, teller, messages, albumRestarts>>

Fenced(i, w) == row[i].status = "RESOLVING" /\ row[i].owner = w

(* retry_or_fail(), which the fence may turn into nothing.                 *)
RetryOrFail(i, w, retryable) ==
  row' = IF ~Fenced(i, w) THEN row
         ELSE [row EXCEPT ![i].status = IF retryable /\ @ = "RESOLVING"
                                           /\ row[i].attempts < MaxItemAttempts
                                        THEN "PENDING" ELSE "FAILED",
                          ![i].owner = Absent]

(* The provider's identity is known, or the resolver finds it, or not.     *)
ResolveItem(w) ==
  /\ albumTask[w].pc = "resolve"
  /\ \/ /\ albumTask' = [albumTask EXCEPT ![w].pc = "attach"]
        /\ UNCHANGED row
     \/ \E retryable \in BOOLEAN :
          /\ RetryOrFail(albumTask[w].item, w, retryable)
          /\ albumTask' = [albumTask EXCEPT ![w] = NoTask]
  /\ UNCHANGED <<album, child, teller, messages, albumRestarts>>

(* One transaction: the delivery request, which has no fence, and the      *)
(* item, which has one.                                                    *)
AttachItem(w) ==
  LET i == albumTask[w].item
  IN /\ albumTask[w].pc = "attach"
     /\ IF album[AlbumOf[i]].status \in Expanding
        THEN /\ child' = [child EXCEPT ![i] = IF @ = "NONE" THEN "ACTIVE" ELSE @]
             /\ row' = IF Fenced(i, w)
                       THEN [row EXCEPT ![i].status = "ATTACHED", ![i].owner = Absent] ELSE row
        ELSE RetryOrFail(i, w, FALSE) /\ UNCHANGED child
     /\ albumTask' = [albumTask EXCEPT ![w] = NoTask]
     /\ UNCHANGED <<album, teller, messages, albumRestarts>>

(* The outbox ends a delivery request.                                     *)
ChildEnds(i) ==
  /\ child[i] = "ACTIVE"
  /\ \E status \in EndedChild : child' = [child EXCEPT ![i] = status]
  /\ UNCHANGED <<album, row, albumTask, teller, messages, albumRestarts>>

-----------------------------------------------------------------------------
(* Closing and telling.                                                    *)

Count(set) == Cardinality(set)
Attached(a) == {i \in Selected(a) : HasChild(i)}
FailedItems(a) == {i \in Selected(a) : row[i].status = "FAILED"}
ChildrenIn(a, statuses) == {i \in Attached(a) : child[i] \in statuses}

Complete(a) ==
  /\ Count(Selected(a)) <= Count(FailedItems(a)) + Count(Attached(a))
  /\ ChildrenIn(a, {"ACTIVE"}) = {}
  /\ Count(ChildrenIn(a, EndedChild)) = Count(Attached(a))

Outcome(a) ==
  LET delivered == Count(ChildrenIn(a, {"DELIVERED"}))
  IN IF delivered = Count(Selected(a)) THEN "COMPLETED"
     ELSE IF delivered = 0 THEN "FAILED"
     ELSE "PARTIALLY_FAILED"

(* Mutant: only the albums a reconciliation closes itself are told.        *)
NobodyElse == {}

Unnotified == {a \in Album : album[a].status \in ClosedAlbum /\ ~album[a].notified}

(* reconcile(): one transaction closes the albums that are complete; then  *)
(* _notify_terminal lists those nobody was told about (a transaction that  *)
(* only reads, taken here with the first).                                 *)
CloseAlbums ==
  LET closing == {a \in Album : album[a].status \in Expanding /\ Complete(a)}
  IN /\ teller = NoTeller
     /\ closing \cup Unnotified # {}
     /\ album' = [a \in Album |-> IF a \in closing THEN [album[a] EXCEPT !.status = Outcome(a)]
                                  ELSE album[a]]
     /\ teller' = [NoTeller EXCEPT !.listed = closing \cup Unnotified]
     /\ UNCHANGED <<row, child, albumTask, messages, albumRestarts>>

SendCompletion(a) ==
  /\ a \in teller.listed /\ teller.sent = {}
  /\ messages' = [messages EXCEPT ![a] = IF @ < MaxAlbumRestarts + 1 THEN @ + 1 ELSE @]
  /\ teller' = [listed |-> teller.listed \ {a}, sent |-> {a}]
  /\ UNCHANGED <<album, row, child, albumTask, albumRestarts>>

(* TelegramGatewayError: the next reconciliation tries again.              *)
CompletionFails(a) ==
  /\ a \in teller.listed /\ teller.sent = {}
  /\ teller' = [teller EXCEPT !.listed = @ \ {a}]
  /\ UNCHANGED <<album, row, child, albumTask, messages, albumRestarts>>

MarkNotified(a) ==
  /\ a \in teller.sent
  /\ album' = [album EXCEPT ![a].notified = TRUE]
  /\ teller' = [teller EXCEPT !.sent = {}]
  /\ UNCHANGED <<row, child, albumTask, messages, albumRestarts>>

(* Startup reconciles without telling; leases are left to run out.         *)
AlbumRestart ==
  LET closing == {a \in Album : album[a].status \in Expanding /\ Complete(a)}
  IN /\ albumRestarts < MaxAlbumRestarts
     /\ albumRestarts' = albumRestarts + 1
     /\ albumTask' = [w \in AlbumWorker |-> NoTask]
     /\ teller' = NoTeller
     /\ album' = [a \in Album |-> IF a \in closing THEN [album[a] EXCEPT !.status = Outcome(a)]
                                  ELSE album[a]]
     /\ UNCHANGED <<row, child, messages>>

CoordinatorStep ==
  \/ \E w \in AlbumWorker : ClaimTrack(w) \/ ResolveItem(w) \/ AttachItem(w)
  \/ CloseAlbums
  \/ \E a \in Album : MarkNotified(a)

AlbumNext ==
  \/ \E a \in Album : \/ CreateAlbum(a) \/ CardMove(a)
                      \/ \E selected \in BOOLEAN : SelectAll(a, selected)
                      \/ QueueAll(a) \/ QueueSelected(a)
                      \/ SendCompletion(a) \/ CompletionFails(a)
  \/ \E i \in Item : ToggleItem(i) \/ ChildEnds(i)
  \/ CoordinatorStep
  \/ AlbumRestart

(* The tasks run; the outbox settles every request; Telegram is not down   *)
(* for ever.                                                               *)
AlbumFairness ==
  /\ WF_albumVars(CoordinatorStep)
  /\ \A i \in Item : WF_albumVars(ChildEnds(i))
  /\ \A a \in Album : SF_albumVars(SendCompletion(a))

AlbumSpec == AlbumInit /\ [][AlbumNext]_albumVars /\ AlbumFairness

-----------------------------------------------------------------------------
(* Properties.                                                             *)

AlbumTypeOK ==
  /\ album \in [Album -> [status : {"NONE"} \cup Choosing \cup Expanding \cup ClosedAlbum,
                          notified : BOOLEAN]]
  /\ row \in [Item -> [status : ItemStatus, selected : BOOLEAN, attempts : 0 .. MaxItemAttempts,
                       owner : AlbumWorker \cup {Absent}]]
  /\ child \in [Item -> EndedChild \cup {"NONE", "ACTIVE"}]
  /\ teller.listed \subseteq Album /\ teller.sent \subseteq Album

(* An album is closed when every selected track has ended, not before, and *)
(* the outcome that is told is the one its deliveries had; it is not       *)
(* changed by a late worker or by another press on the card.  A delivery   *)
(* request and its item are counted separately, so a track that failed     *)
(* although its delivery request exists would count twice.                 *)
ClosedAlbumIsOver ==
  \A a \in Album :
    album[a].status \in ClosedAlbum =>
      /\ \A i \in Selected(a) : IF HasChild(i) THEN child[i] \in EndedChild
                                ELSE row[i].status = "FAILED"
      /\ album[a].status = Outcome(a)

(* The user is told the end of every album that was started.               *)
AlbumIsTold ==
  \A a \in Album : album[a].status \in Expanding ~> album[a].notified
=============================================================================
