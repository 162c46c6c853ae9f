------------------------------ MODULE UxDialog ------------------------------
(***************************************************************************)
(* The search dialog of one Telegram conversation (a TelegramContext: user *)
(* and chat): the in-memory navigation state of UserUxStateService, the    *)
(* screens of UxFlowService, and the ux1: and dl18: buttons of             *)
(* create_ux_router.  The dispatcher runs every update as a task of its    *)
(* own, so a search or a confirmation is two steps, with the user's other  *)
(* updates between them; the handlers without an await between what they   *)
(* read and what they change are one step.                                 *)
(*                                                                         *)
(* A transition that the table does not list raises ValueError; the        *)
(* handler answers with the generic error and keeps the state.             *)
(***************************************************************************)
EXTENDS Naturals, FiniteSets

CONSTANTS
  Conversation,   \* TelegramContext values
  Update,         \* handler tasks of searches and Download presses
  Offer,          \* confirmation tokens
  NoChat          \* no conversation, no token

ASSUME DialogAssumption == NoChat \notin Conversation \cup Offer

VARIABLES
  ux,       \* conversation |-> its UxState
  offers,   \* token |-> DownloadService._confirmations
  update,   \* task |-> the search or confirmation it is running
  shown     \* conversation |-> the bot's last answer

dialogVars == <<ux, offers, update, shown>>

NoUpdate == [pc |-> "idle", conv |-> NoChat, token |-> NoChat]
NewOffer == [state |-> "unused", conv |-> NoChat]

(* _TRANSITIONS, restricted to the states some handler enters.             *)
UxState == {"IDLE", "MENU", "SEARCH_INPUT", "SEARCHING", "ERROR",
            "DOWNLOAD_CONFIRMATION", "DOWNLOAD_QUEUED"}

UxTransitions ==
  [IDLE |-> {"IDLE", "MENU", "SEARCH_INPUT", "SEARCHING", "ERROR"},
   MENU |-> {"MENU", "IDLE", "SEARCH_INPUT", "SEARCHING", "ERROR"},
   SEARCH_INPUT |-> {"SEARCH_INPUT", "SEARCHING", "MENU", "IDLE", "ERROR"},
   SEARCHING |-> {"SEARCH_INPUT", "DOWNLOAD_CONFIRMATION", "ERROR", "IDLE"},
   ERROR |-> {"IDLE", "MENU"},
   DOWNLOAD_CONFIRMATION |->
     {"DOWNLOAD_CONFIRMATION", "DOWNLOAD_QUEUED", "SEARCH_INPUT", "IDLE", "ERROR"},
   DOWNLOAD_QUEUED |-> {"DOWNLOAD_QUEUED", "IDLE"}]

May(c, target) == target \in UxTransitions[ux[c]]

DialogInit ==
  /\ ux = [c \in Conversation |-> "IDLE"]
  /\ offers = [o \in Offer |-> NewOffer]
  /\ update = [t \in Update |-> NoUpdate]
  /\ shown = [c \in Conversation |-> "nothing"]

(* transition() and the answer that follows it.                            *)
Enter(c, target, screen) ==
  IF May(c, target)
  THEN /\ ux' = [ux EXCEPT ![c] = target]
       /\ shown' = [shown EXCEPT ![c] = screen]
  ELSE /\ shown' = [shown EXCEPT ![c] = "error"]
       /\ UNCHANGED ux

Answer(c, text) ==
  /\ shown' = [shown EXCEPT ![c] = text]
  /\ UNCHANGED ux

-----------------------------------------------------------------------------
(* Navigation.                                                             *)

(* /start and /menu, and every section of the menu but Search.             *)
OpenMenu(c) ==
  /\ Enter(c, "MENU", "menu")
  /\ UNCHANGED <<offers, update>>

Help(c) ==
  /\ Enter(c, "MENU", "help")
  /\ UNCHANGED <<offers, update>>

(* /search without a query, and the menu's Search section.                 *)
BeginSearch(c) ==
  /\ Enter(c, "SEARCH_INPUT", "prompt")
  /\ UNCHANGED <<offers, update>>

(* The user is banned or the chat's policy refuses: nothing else happens.  *)
Denied(c) ==
  /\ Answer(c, "denied")
  /\ UNCHANGED <<offers, update>>

-----------------------------------------------------------------------------
(* A search: UxFlowService.search around SearchTracksUseCase.recognize.    *)

Runs(t, pc, c, o) == update' = [update EXCEPT ![t] = [pc |-> pc, conv |-> c, token |-> o]]
Ends(t) == update' = [update EXCEPT ![t] = NoUpdate]

(* Text is a query only while one is awaited; /search takes one anywhere.  *)
StartSearch(t, c) ==
  /\ update[t].pc = "idle"
  /\ IF May(c, "SEARCHING")
     THEN /\ ux' = [ux EXCEPT ![c] = "SEARCHING"]
          /\ Runs(t, "search", c, NoChat)
          /\ UNCHANGED shown
     ELSE Answer(c, "error") /\ UNCHANGED update
  /\ UNCHANGED offers

(* Mutant: the failed search leaves the state as it was.                   *)
SearchFailsInPlace(t) ==
  /\ update[t].pc = "search"
  /\ Answer(update[t].conv, "error")
  /\ Ends(t)
  /\ UNCHANGED offers

(* No provider answered, or recognition raised.                            *)
SearchFails(t) ==
  /\ update[t].pc = "search"
  /\ LET c == update[t].conv
     IN Enter(c, "ERROR", "error")
  /\ Ends(t)
  /\ UNCHANGED offers

(* Recognition rejected every candidate.                                   *)
NothingFound(t) ==
  /\ update[t].pc = "search"
  /\ Enter(update[t].conv, "SEARCH_INPUT", "no match")
  /\ Ends(t)
  /\ UNCHANGED offers

(* create_confirmation stores the token before the transition is tried.    *)
Found(t, o) ==
  /\ update[t].pc = "search"
  /\ offers[o].state = "unused"
  /\ offers' = [offers EXCEPT ![o] = [state |-> "open", conv |-> update[t].conv]]
  /\ Enter(update[t].conv, "DOWNLOAD_CONFIRMATION", "offer")
  /\ Ends(t)

-----------------------------------------------------------------------------
(* The buttons of an offer.                                                *)

(* _owned_confirmation                                                     *)
OwnsOffer(c, o) == offers[o].state = "open" /\ offers[o].conv = c

Drop(o) == offers' = [offers EXCEPT ![o].state = "gone"]

CancelOffer(c, o) ==
  /\ OwnsOffer(c, o)
  /\ Drop(o)
  /\ Enter(c, "IDLE", "cancelled")
  /\ UNCHANGED update

RetryOffer(c, o) ==
  /\ OwnsOffer(c, o)
  /\ Drop(o)
  /\ Enter(c, "SEARCH_INPUT", "prompt")
  /\ UNCHANGED update

(* More, and the choice of an alternative: the same token names another    *)
(* track, and the card is drawn again.  The state is not asked.            *)
BrowseOffer(c, o) ==
  /\ OwnsOffer(c, o)
  /\ Answer(c, "offer")
  /\ UNCHANGED <<offers, update>>

(* A button of a token that is gone, or of somebody else's.                *)
StaleButton(c, o) ==
  /\ offers[o].state # "unused" /\ ~OwnsOffer(c, o)
  /\ Answer(c, "invalid")
  /\ UNCHANGED <<offers, update>>

(* The confirmation's TTL is over; the state does not follow.              *)
OfferLapses(o) ==
  /\ offers[o].state = "open"
  /\ Drop(o)
  /\ UNCHANGED <<ux, update, shown>>

PressDownload(t, c, o) ==
  /\ update[t].pc = "idle"
  /\ OwnsOffer(c, o)
  /\ Runs(t, "confirm", c, o)
  /\ UNCHANGED <<ux, offers, shown>>

(* Resolution or admission raised: the offer stays.                        *)
ConfirmFails(t) ==
  /\ update[t].pc = "confirm"
  /\ Answer(update[t].conv, "error")
  /\ Ends(t)
  /\ UNCHANGED offers

(* The request waits for a first quality: the picker replaces the offer,   *)
(* and the state is not moved on.                                          *)
ConfirmAsksQuality(t) ==
  /\ update[t].pc = "confirm"
  /\ Drop(update[t].token)
  /\ Answer(update[t].conv, "quality")
  /\ Ends(t)

ConfirmQueues(t) ==
  /\ update[t].pc = "confirm"
  /\ Drop(update[t].token)
  /\ Enter(update[t].conv, "DOWNLOAD_QUEUED", "queued")
  /\ Ends(t)

(* States and confirmations live in memory.                                *)
BotRestarts ==
  /\ ux' = [c \in Conversation |-> "IDLE"]
  /\ offers' = [o \in Offer |->
       IF offers[o].state = "open" THEN [offers[o] EXCEPT !.state = "gone"] ELSE offers[o]]
  /\ update' = [t \in Update |-> NoUpdate]
  /\ UNCHANGED shown

DialogTask(t) ==
  \/ SearchFails(t) \/ NothingFound(t) \/ \E o \in Offer : Found(t, o)
  \/ ConfirmFails(t) \/ ConfirmAsksQuality(t) \/ ConfirmQueues(t)

DialogNext ==
  \/ \E c \in Conversation : OpenMenu(c) \/ Help(c) \/ BeginSearch(c) \/ Denied(c)
  \/ \E t \in Update, c \in Conversation : StartSearch(t, c)
  \/ \E t \in Update : DialogTask(t)
  \/ \E c \in Conversation, o \in Offer :
       CancelOffer(c, o) \/ RetryOffer(c, o) \/ BrowseOffer(c, o) \/ StaleButton(c, o)
  \/ \E t \in Update, c \in Conversation, o \in Offer : PressDownload(t, c, o)
  \/ \E o \in Offer : OfferLapses(o)
  \/ BotRestarts

DialogSpec == DialogInit /\ [][DialogNext]_dialogVars

-----------------------------------------------------------------------------
(* Properties.                                                             *)

(* The dialog's state is well formed.                                      *)
DialogTypeOK ==
  /\ ux \in [Conversation -> UxState]
  /\ offers \in [Offer -> [state : {"unused", "open", "gone"},
                           conv : Conversation \cup {NoChat}]]
  /\ update \in [Update -> [pc : {"idle", "search", "confirm"},
                            conv : Conversation \cup {NoChat}, token : Offer \cup {NoChat}]]
  /\ shown \in [Conversation -> {"nothing", "menu", "help", "prompt", "denied", "error",
                                 "no match", "offer", "cancelled", "invalid", "quality",
                                 "queued"}]

(* A conversation is SEARCHING only while one of its searches is running:  *)
(* from SEARCHING neither the menu nor a new search is accepted, so a      *)
(* search that ended without leaving it would lock the user out.           *)
SearchingHasSearch ==
  \A c \in Conversation :
    ux[c] = "SEARCHING" =>
      \E t \in Update : update[t].pc = "search" /\ update[t].conv = c

(* Nothing of the conversation is going on: no search or confirmation is   *)
(* running, and no offer waits for a button.                               *)
Quiet(c) ==
  /\ \A t \in Update : update[t].conv # c
  /\ \A o \in Offer : ~OwnsOffer(c, o)

(* docs/stage14-telegram-ux.md: /start displays the welcome and main menu, *)
(* /menu returns the main menu - at least to a user who is doing nothing   *)
(* else.                                                                   *)
StartShowsMenu ==
  [][\A c \in Conversation : Quiet(c) /\ OpenMenu(c) => shown'[c] = "menu"]_dialogVars
=============================================================================
