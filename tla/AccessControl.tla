---------------------------- MODULE AccessControl ----------------------------
(***************************************************************************)
(* Who may change what, and the audit of it: the users' roles              *)
(* (TelegramUserService, OwnerBootstrapService, TelegramAuthorization-     *)
(* Service, AdministratorManagementService), the desired worker count      *)
(* (RuntimeWorkerControlService over WorkerSettingsService), the deep-link *)
(* registry (DeepLinkRegistryService) and the rows OperationalAuditService *)
(* appends in the transactions that change them.                           *)
(*                                                                         *)
(* What a transaction reads before its first write may be old by then: a   *)
(* task reads in one step and writes in another.  An operator's queue tool *)
(* is a process of its own, beside the bot.                                *)
(***************************************************************************)
EXTENDS Naturals, Sequences, FiniteSets

CONSTANTS
  Person,       \* Telegram users
  Nobody,       \* no person, no link, no key
  Task,         \* handlers of the bot and requests of the internal API
  Operator,     \* runs of the operator's queue tool
  Link,         \* rows of deep_link_registry; the row names the token
  Key,          \* idempotency keys
  Fingerprint,  \* what a registration asks for
  MaxWorkers,   \* the configured maximum of the pool
  MaxTries,     \* _MAX_CONCURRENCY_ATTEMPTS, MAX_TOKEN_ATTEMPTS
  MaxAudits,    \* bound on the audit rows a subject has when a change begins
  MaxReboots   \* bound on restarts with another OWNER_ID

VARIABLES
  ownerId,     \* OWNER_ID of this run of the bot, or Nobody
  role,        \* person |-> users.role, or "none" without a row
  desired,     \* runtime_settings: the desired workers
  links,       \* link |-> its row, or NoLink
  auditLog,       \* subject |-> its audit rows, oldest first
  call,        \* task or operator |-> what it is doing
  reboots

accessVars == <<ownerId, role, desired, links, auditLog, call, reboots>>

Pool == "pool"

ASSUME AccessAssumption ==
  /\ Nobody \notin Person \cup Link \cup Key
  /\ Person \cap Link = {} /\ Pool \notin Person \cup Link
  /\ Task \cap Operator = {}
  /\ MaxWorkers \in Nat \ {0} /\ MaxTries \in Nat \ {0}

Caller == Task \cup Operator
NoLink == [status |-> "none", key |-> Nobody, print |-> Nobody]
IdleCall == [pc |-> "idle", who |-> Nobody, from |-> "none", to |-> "none",
         key |-> Nobody, print |-> Nobody, link |-> Nobody, tries |-> 0]

(* __main__: the bootstrap makes a known user with OWNER_ID the owner.     *)
Bootstrapped(roles, o) ==
  [p \in Person |-> IF p = o /\ roles[p] # "none" THEN "OWNER" ELSE roles[p]]

AccessInit ==
  /\ ownerId \in Person \cup {Nobody}
  /\ role = [p \in Person |-> "none"]
  /\ desired = 1
  /\ links = [l \in Link |-> NoLink]
  /\ auditLog = [x \in Person \cup Link \cup {Pool} |-> <<>>]
  /\ call = [t \in Caller |-> IdleCall]
  /\ reboots = 0

Restart ==
  /\ reboots < MaxReboots
  /\ reboots' = reboots + 1
  /\ ownerId' \in Person \cup {Nobody}
  /\ role' = Bootstrapped(role, ownerId')
  /\ call' = [t \in Caller |-> IF t \in Task THEN IdleCall ELSE call[t]]
  /\ UNCHANGED <<desired, links, auditLog>>

-----------------------------------------------------------------------------
(* Helpers.                                                                *)

Goes(t, pc) == call' = [call EXCEPT ![t].pc = pc]
EndsCall(t) == call' = [call EXCEPT ![t] = IdleCall]

AuthoritativeOwner(p) == ownerId = p /\ role[p] = "OWNER"
ManagesWorkers(p) == AuthoritativeOwner(p) \/ role[p] = "ADMIN"

(* The row of this change, in the transaction that makes it.               *)
Audited(x, old, new) ==
  auditLog' = [auditLog EXCEPT ![x] = Append(@, [old |-> old, new |-> new])]

(* Bound: no change begins once there are MaxAudits rows.                  *)
Room(x) == Len(auditLog[x]) < MaxAudits

(* The writer's lock was not to be had: the transaction is tried again.    *)
TriesAgainLater(t, pc) ==
  IF call[t].tries + 1 < MaxTries
  THEN call' = [call EXCEPT ![t].pc = pc, ![t].tries = @ + 1]
  ELSE EndsCall(t)

-----------------------------------------------------------------------------
(* observe_telegram_user: every update and callback starts with it.        *)

ReadUser(t, p) ==
  /\ call[t].pc = "idle"
  /\ call' = [call EXCEPT ![t] = [IdleCall EXCEPT !.pc = "observe", !.who = p, !.from = role[p]]]
  /\ UNCHANGED <<ownerId, role, desired, links, auditLog, reboots>>

(* Mutant: the row is written back as it was read.                         *)
ObservedStale(p, read) == IF p = ownerId THEN "OWNER" ELSE read

(* Only what changed is written: the role of the owner alone.              *)
Observed(p, read) == IF p = ownerId THEN "OWNER" ELSE role[p]

WriteUser(t) ==
  LET p == call[t].who
  IN /\ call[t].pc = "observe"
     /\ IF call[t].from = "none"
        THEN /\ role[p] = "none"
             /\ role' = [role EXCEPT ![p] = IF p = ownerId THEN "OWNER" ELSE "USER"]
        ELSE role' = [role EXCEPT ![p] = Observed(p, call[t].from)]
     /\ EndsCall(t)
     /\ UNCHANGED <<ownerId, desired, links, auditLog, reboots>>

(* telegram_id is unique: the second INSERT of two fails, and the handler  *)
(* with it.                                                                *)
UserExists(t) ==
  /\ call[t].pc = "observe" /\ call[t].from = "none" /\ role[call[t].who] # "none"
  /\ EndsCall(t)
  /\ UNCHANGED <<ownerId, role, desired, links, auditLog, reboots>>

-----------------------------------------------------------------------------
(* _change_role                                                            *)

Opposite(r) == IF r = "USER" THEN "ADMIN" ELSE "USER"

(* Authorized, the target read, and not the owner.                         *)
LookAtTarget(t, actor, target) ==
  /\ call[t].pc = "idle"
  /\ AuthoritativeOwner(actor)
  /\ role[target] \in {"USER", "ADMIN"} /\ target # ownerId /\ Room(target)
  /\ call' = [call EXCEPT ![t] = [IdleCall EXCEPT !.pc = "role", !.who = target,
                                    !.from = role[target], !.to = Opposite(role[target])]]
  /\ UNCHANGED <<ownerId, role, desired, links, auditLog, reboots>>

(* Mutant: the UPDATE trusts what was read.                                *)
StillAsRead(t) == TRUE

(* The UPDATE's own condition.                                             *)
StillAs(t) == role[call[t].who] = call[t].from

ChangeRole(t) ==
  LET target == call[t].who
  IN /\ call[t].pc = "role"
     /\ StillAs(t) /\ target # ownerId
     /\ role' = [role EXCEPT ![target] = call[t].to]
     /\ Audited(target, call[t].from, call[t].to)
     /\ EndsCall(t)
     /\ UNCHANGED <<ownerId, desired, links, reboots>>

(* ALREADY_ADMIN, NOT_ADMIN, TARGET_STATE_CHANGED: the answer alone.       *)
RoleWasChanged(t) ==
  /\ call[t].pc = "role" /\ ~StillAs(t)
  /\ EndsCall(t)
  /\ UNCHANGED <<ownerId, role, desired, links, auditLog, reboots>>

(* Each attempt authorizes and reads anew.                                 *)
RoleIsLocked(t) ==
  /\ call[t].pc = "role"
  /\ TriesAgainLater(t, "reread")
  /\ UNCHANGED <<ownerId, role, desired, links, auditLog, reboots>>

LookAgain(t) ==
  /\ call[t].pc = "reread"
  /\ IF role[call[t].who] = call[t].from THEN Goes(t, "role") ELSE EndsCall(t)
  /\ UNCHANGED <<ownerId, role, desired, links, auditLog, reboots>>

-----------------------------------------------------------------------------
(* The desired workers.  Inside the bot the settings lock is held from the *)
(* read to the resize; the queue tool has a lock of its own.               *)

SameProcess(t) == IF t \in Operator THEN {t} ELSE Task

(* Mutant: no lock around the read and the write.                          *)
SettingsAlwaysFree(t) == TRUE

SettingsFree(t) == \A u \in SameProcess(t) : call[u].pc # "setting"

(* Authorized; the lock is waited for.                                     *)
AskWorkers(t, actor, n) ==
  /\ t \in Task /\ call[t].pc = "idle"
  /\ ManagesWorkers(actor) /\ Room(Pool)
  /\ call' = [call EXCEPT ![t] = [IdleCall EXCEPT !.pc = "authorized", !.to = n]]
  /\ UNCHANGED <<ownerId, role, desired, links, auditLog, reboots>>

OperatorAsks(t, n) ==
  /\ t \in Operator /\ call[t].pc = "idle" /\ Room(Pool)
  /\ call' = [call EXCEPT ![t] = [IdleCall EXCEPT !.pc = "authorized", !.to = n]]
  /\ UNCHANGED <<ownerId, role, desired, links, auditLog, reboots>>

ReadDesired(t) ==
  /\ call[t].pc = "authorized" /\ SettingsFree(t)
  /\ call' = [call EXCEPT ![t].pc = "setting", ![t].from = desired]
  /\ UNCHANGED <<ownerId, role, desired, links, auditLog, reboots>>

WriteDesired(t) ==
  /\ call[t].pc = "setting"
  /\ desired' = call[t].to
  /\ IF call[t].from = call[t].to
     THEN UNCHANGED auditLog
     ELSE Audited(Pool, call[t].from, call[t].to)
  /\ EndsCall(t)
  /\ UNCHANGED <<ownerId, role, links, reboots>>

(* adjust_*_workers: BEGIN IMMEDIATE before the read.                      *)
AdjustWorkers(t, actor, n) ==
  /\ t \in Task /\ call[t].pc = "idle"
  /\ ManagesWorkers(actor) /\ SettingsFree(t) /\ Room(Pool)
  /\ n \in 1..MaxWorkers /\ (n = desired + 1 \/ desired = n + 1)
  /\ desired' = n
  /\ Audited(Pool, desired, n)
  /\ UNCHANGED <<ownerId, role, links, call, reboots>>

-----------------------------------------------------------------------------
(* Deep links.                                                             *)

Keyed(k) == {l \in Link : links[l].status # "none" /\ links[l].key = k /\ k # Nobody}

(* Mutant: whatever was registered under the key.                          *)
AnyPrint(l, f) == TRUE

SamePrint(l, f) == links[l].print = f

(* A link under this key answers the call when it is for the same item;    *)
(* IDEMPOTENCY_KEY_CONFLICT otherwise.                                     *)
Replays(t, k, f, else) ==
  IF Keyed(k) = {} THEN else
  ELSE \E l \in Keyed(k) :
         IF SamePrint(l, f)
         THEN call' = [call EXCEPT ![t] = [IdleCall EXCEPT !.pc = "answered", !.key = k,
                                             !.print = f, !.link = l]]
         ELSE EndsCall(t)

Register(t, k, f) ==
  /\ t \in Task /\ call[t].pc = "idle"
  /\ Replays(t, k, f, call' = [call EXCEPT ![t] = [IdleCall EXCEPT !.pc = "resolve", !.key = k,
                                                     !.print = f]])
  /\ UNCHANGED <<ownerId, role, desired, links, auditLog, reboots>>

(* The track was resolved; the key is looked up once more.                 *)
ReadKey(t) ==
  /\ call[t].pc = "resolve"
  /\ Replays(t, call[t].key, call[t].print, Goes(t, "insert"))
  /\ UNCHANGED <<ownerId, role, desired, links, auditLog, reboots>>

Unresolved(t) ==
  /\ call[t].pc = "resolve" /\ call[t].tries = 0
  /\ EndsCall(t)
  /\ UNCHANGED <<ownerId, role, desired, links, auditLog, reboots>>

InsertLink(t) ==
  /\ call[t].pc = "insert" /\ Keyed(call[t].key) = {}
  /\ \E l \in Link :
       /\ links[l] = NoLink
       /\ links' = [links EXCEPT ![l] = [status |-> "ACTIVE", key |-> call[t].key,
                                         print |-> call[t].print]]
       /\ Audited(l, "none", "ACTIVE")
       /\ call' = [call EXCEPT ![t].pc = "answered", ![t].link = l]
  /\ UNCHANGED <<ownerId, role, desired, reboots>>

(* The unique key, a taken token or the writer's lock.                     *)
InsertCollides(t) ==
  /\ call[t].pc = "insert"
  /\ Replays(t, call[t].key, call[t].print, TriesAgainLater(t, "resolve"))
  /\ UNCHANGED <<ownerId, role, desired, links, auditLog, reboots>>

(* One UPDATE of an ACTIVE row; a second revocation changes nothing.       *)
Revoke(l) ==
  /\ links[l].status = "ACTIVE"
  /\ links' = [links EXCEPT ![l].status = "REVOKED"]
  /\ Audited(l, "ACTIVE", "REVOKED")
  /\ UNCHANGED <<ownerId, role, desired, call, reboots>>

Respond(t) ==
  /\ call[t].pc = "answered"
  /\ EndsCall(t)
  /\ UNCHANGED <<ownerId, role, desired, links, auditLog, reboots>>

AccessNext ==
  \/ Restart
  \/ \E l \in Link : Revoke(l)
  \/ \E t \in Task :
       \/ \E p \in Person : ReadUser(t, p)
       \/ WriteUser(t) \/ UserExists(t)
       \/ \E p, q \in Person : LookAtTarget(t, p, q)
       \/ ChangeRole(t) \/ RoleWasChanged(t) \/ RoleIsLocked(t) \/ LookAgain(t)
       \/ \E p \in Person, n \in 1..MaxWorkers : AskWorkers(t, p, n) \/ AdjustWorkers(t, p, n)
       \/ \E k \in Key \cup {Nobody}, f \in Fingerprint : Register(t, k, f)
       \/ ReadKey(t) \/ Unresolved(t) \/ InsertLink(t) \/ InsertCollides(t) \/ Respond(t)
  \/ \E t \in Operator, n \in 1..MaxWorkers : OperatorAsks(t, n)
  \/ \E t \in Caller : ReadDesired(t) \/ WriteDesired(t)

AccessSpec == AccessInit /\ [][AccessNext]_accessVars

-----------------------------------------------------------------------------
(* Properties.                                                             *)

(* Roles, rows and counts are in their ranges.                             *)
AccessTypeOK ==
  /\ ownerId \in Person \cup {Nobody}
  /\ role \in [Person -> {"none", "USER", "ADMIN", "OWNER"}]
  /\ desired \in 1..MaxWorkers
  /\ links \in [Link -> [status : {"none", "ACTIVE", "REVOKED"},
                         key : Key \cup {Nobody}, print : Fingerprint \cup {Nobody}]]

Started(x) == IF x = Pool THEN 1 ELSE IF x \in Link THEN "none" ELSE "USER"
Now(x) == IF x = Pool THEN desired ELSE IF x \in Link THEN links[x].status ELSE role[x]
LastAudited(x) == IF auditLog[x] = <<>> THEN Started(x) ELSE auditLog[x][Len(auditLog[x])].new

(* The audit rows of a subject are a history: each starts from the value   *)
(* the one before left, changes it, and the last one left the value of     *)
(* today.                                                                  *)
History(x) ==
  /\ \A i \in 1..Len(auditLog[x]) :
       /\ auditLog[x][i].old = IF i = 1 THEN Started(x) ELSE auditLog[x][i - 1].new
       /\ auditLog[x][i].old # auditLog[x][i].new
  /\ (x \in Person /\ role[x] \in {"none", "OWNER"}) \/ Now(x) = LastAudited(x)

(* Roles and links: whatever is read between two others' writes, every     *)
(* transition has its row and no row is without its transition.            *)
AuditIsHistory == \A x \in Person \cup Link : History(x)

(* docs/production.md says it of the desired workers as well.              *)
WorkerAuditIsHistory == History(Pool)

(* A registration answers with a link for the item it asked for, and all   *)
(* registrations under a key with the same one.                            *)
AnswersOwnLink ==
  \A t \in Task :
    call[t].pc = "answered" =>
      /\ links[call[t].link].print = call[t].print
      /\ links[call[t].link].key = call[t].key
      /\ Cardinality(Keyed(call[t].key)) <= 1
=============================================================================
