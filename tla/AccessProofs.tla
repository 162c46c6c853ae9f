---------------------------- MODULE AccessProofs -----------------------------
(***************************************************************************)
(* The inductive invariant of AccessControl and its preservation: what a   *)
(* handler holds between its read and its write, and audit rows that are a *)
(* history; ServiceProofs states the theorems.                             *)
(***************************************************************************)
EXTENDS AccessControl, TLAPS, FiniteSetTheorems, SequenceTheorems

Role == {"none", "USER", "ADMIN", "OWNER"}
LinkRecord == [status : {"none", "ACTIVE", "REVOKED"},
               key : Key \cup {Nobody}, print : Fingerprint \cup {Nobody}]
AuditValue == Role \cup {"ACTIVE", "REVOKED"} \cup 1..MaxWorkers
AuditRow == [old : AuditValue, new : AuditValue]
Subject == Person \cup Link \cup {Pool}
CallPc == {"idle", "observe", "role", "reread", "authorized", "setting", "resolve", "insert",
           "answered"}
CallRecord == [pc : CallPc, who : Person \cup {Nobody}, from : AuditValue, to : AuditValue,
               key : Key \cup {Nobody}, print : Fingerprint \cup {Nobody},
               link : Link \cup {Nobody}, tries : Nat]

AccessStates ==
  /\ ownerId \in Person \cup {Nobody}
  /\ role \in [Person -> Role]
  /\ desired \in 1..MaxWorkers
  /\ links \in [Link -> LinkRecord]
  /\ auditLog \in [Subject -> Seq(AuditRow)]
  /\ call \in [Caller -> CallRecord]

(* What a call x has read or was asked, with the links' rows as they are.  *)
Knows(x, rows) ==
  /\ x.pc \in {"observe", "role", "reread"} => x.who \in Person
  /\ x.pc \in {"role", "reread"} => x.from \in {"USER", "ADMIN"} /\ x.to = Opposite(x.from)
  /\ x.pc \in {"authorized", "setting"} => x.to \in 1..MaxWorkers
  /\ x.pc = "setting" => x.from \in 1..MaxWorkers
  /\ x.pc = "answered" =>
       /\ x.link \in Link
       /\ rows[x.link].status # "none"
       /\ rows[x.link].print = x.print /\ rows[x.link].key = x.key

(* A user without a row has no history, and a key at most one link.        *)
UnknownIsNew == \A p \in Person : role[p] = "none" => auditLog[p] = <<>>
OneLinkPerKey ==
  \A l, m \in Link :
    /\ links[l].status # "none" /\ links[m].status # "none"
    /\ links[l].key = links[m].key /\ links[l].key # Nobody
    => l = m

AccessInv ==
  /\ AccessStates
  /\ \A t \in Caller : Knows(call[t], links)
  /\ AuditIsHistory
  /\ UnknownIsNew
  /\ OneLinkPerKey

(* While no operator's tool runs: whoever is between the read and the      *)
(* write of the setting is alone there and has read what still stands.     *)
WorkersInv ==
  /\ \A t, u \in Task : call[t].pc = "setting" /\ call[u].pc = "setting" => t = u
  /\ \A t \in Task : call[t].pc = "setting" => call[t].from = desired
  /\ WorkerAuditIsHistory

NoOperator == \A t \in Operator : call[t].pc = "idle"

-----------------------------------------------------------------------------
(* Histories: a row that starts from the last value and changes it makes a *)
(* longer history, which ends in the row's value.                          *)
Chain(s, start) ==
  \A i \in 1..Len(s) :
    /\ s[i].old = IF i = 1 THEN start ELSE s[i - 1].new
    /\ s[i].old # s[i].new
LastOf(s, start) == IF s = <<>> THEN start ELSE s[Len(s)].new

LEMMA ChainGrows ==
  ASSUME NEW s \in Seq(AuditRow), NEW start, NEW old \in AuditValue, NEW new \in AuditValue,
         Chain(s, start), LastOf(s, start) = old, old # new
  PROVE  /\ Append(s, [old |-> old, new |-> new]) \in Seq(AuditRow)
         /\ Chain(Append(s, [old |-> old, new |-> new]), start)
         /\ LastOf(Append(s, [old |-> old, new |-> new]), start) = new
<1> DEFINE row == [old |-> old, new |-> new]
           t == Append(s, row)
<1>1. row \in AuditRow /\ row.old = old /\ row.new = new BY DEF AuditRow
<1> HIDE DEF row
<1>2. /\ t \in Seq(AuditRow) /\ Len(t) = Len(s) + 1 /\ t[Len(s) + 1] = row
      /\ \A i \in 1..Len(s) : t[i] = s[i]
      /\ Len(s) \in Nat
  BY <1>1
<1>3. t # <<>> BY <1>2
<1> HIDE DEF t
<1>4. LastOf(t, start) = new BY <1>1, <1>2, <1>3 DEF LastOf
<1>5. ASSUME NEW i \in 1..Len(t)
      PROVE  t[i].old = (IF i = 1 THEN start ELSE t[i - 1].new) /\ t[i].old # t[i].new
  <2>1. CASE i \in 1..Len(s)
    <3>1. i # 1 => i - 1 \in 1..Len(s) BY <1>2, <2>1
    <3> QED BY <1>2, <2>1, <3>1 DEF Chain
  <2>2. CASE i = Len(s) + 1
    <3>1. t[i].old = old /\ t[i].old # t[i].new BY <1>1, <1>2, <2>2
    <3>2. CASE s = <<>>
      <4>1. i = 1 /\ old = start BY <1>2, <2>2, <3>2 DEF LastOf
      <4> QED BY <3>1, <4>1
    <3>3. CASE s # <<>>
      <4>1. Len(s) # 0 BY <3>3
      <4>2. Len(s) \in 1..Len(s) /\ i # 1 /\ i - 1 = Len(s) BY <1>2, <2>2, <4>1
      <4>3. t[i - 1].new = s[Len(s)].new BY <1>2, <4>2
      <4>4. old = s[Len(s)].new BY <3>3 DEF LastOf
      <4> QED BY <3>1, <4>2, <4>3, <4>4
    <3> QED BY <3>2, <3>3
  <2> QED BY <1>2, <2>1, <2>2
<1>6. Chain(t, start) BY <1>5 DEF Chain
<1> QED BY <1>2, <1>4, <1>6 DEF t, row

LEMMA EmptyChain == ASSUME NEW start PROVE Chain(<<>>, start) /\ LastOf(<<>>, start) = start
BY DEF Chain, LastOf

LEMMA HistoryIs ==
  ASSUME NEW x \in Subject
  PROVE  History(x) <=> /\ Chain(auditLog[x], Started(x))
                        /\ \/ x \in Person /\ role[x] \in {"none", "OWNER"}
                           \/ Now(x) = LastOf(auditLog[x], Started(x))
BY DEF History, Chain, LastAudited, LastOf

LEMMA HistoryNext ==
  ASSUME NEW x \in Subject
  PROVE  History(x)' <=> /\ Chain(auditLog'[x], Started(x))
                         /\ \/ x \in Person /\ role'[x] \in {"none", "OWNER"}
                            \/ Now(x)' = LastOf(auditLog'[x], Started(x))
BY DEF History, Chain, LastAudited, LastOf, Started

LEMMA SubjectsDiffer ==
  /\ \A x \in Person : x # Pool /\ x \notin Link
  /\ \A x \in Link : x # Pool /\ x \notin Person
  /\ Pool \in Subject /\ Pool \notin Person /\ Pool \notin Link
BY AccessAssumption DEF Subject

-----------------------------------------------------------------------------
LEMMA AccessInvImplies == AccessInv => AccessTypeOK /\ AuditIsHistory /\ AnswersOwnLink
<1> SUFFICES ASSUME AccessInv PROVE AccessTypeOK /\ AuditIsHistory /\ AnswersOwnLink OBVIOUS
<1>1. AccessTypeOK BY DEF AccessInv, AccessStates, AccessTypeOK, Role, LinkRecord
<1>2. ASSUME NEW k PROVE Cardinality(Keyed(k)) <= 1
  <2>1. CASE Keyed(k) = {} BY <2>1, FS_EmptySet
  <2>2. CASE Keyed(k) # {}
    <3>1. PICK l : l \in Keyed(k) BY <2>2
    <3>2. Keyed(k) = {l}
      BY <3>1 DEF Keyed, AccessInv, OneLinkPerKey
    <3>3. Cardinality({l}) = 1 BY FS_Singleton
    <3> QED BY <3>2, <3>3
  <2> QED BY <2>1, <2>2
<1>3. AnswersOwnLink BY <1>2 DEF AccessInv, Knows, AnswersOwnLink, Caller
<1> QED BY <1>1, <1>3 DEF AccessInv

LEMMA IdleCallType == IdleCall \in CallRecord /\ IdleCall.pc = "idle"
BY DEF IdleCall, CallRecord, CallPc, AuditValue, Role

LEMMA AccessInitInv == AccessInit => AccessInv /\ WorkersInv /\ NoOperator
<1> SUFFICES ASSUME AccessInit PROVE AccessInv /\ WorkersInv /\ NoOperator OBVIOUS
<1>1. AccessStates
  BY IdleCallType, AccessAssumption
  DEF AccessInit, AccessStates, Role, NoLink, LinkRecord, Subject
<1>2. \A t \in Caller : Knows(call[t], links) BY IdleCallType DEF AccessInit, Knows
<1>3. ASSUME NEW x \in Subject PROVE History(x)
  <2>1. auditLog[x] = <<>> BY DEF AccessInit, Subject
  <2>2. Chain(auditLog[x], Started(x)) /\ LastOf(auditLog[x], Started(x)) = Started(x)
    BY <2>1, EmptyChain
  <2>3. x \notin Person => Now(x) = Started(x)
    BY DEF AccessInit, Now, Started, NoLink, Subject
  <2>4. x \in Person => role[x] = "none" BY DEF AccessInit
  <2> QED BY <2>2, <2>3, <2>4, HistoryIs
<1>4. AuditIsHistory BY <1>3 DEF AuditIsHistory, Subject
<1>5. UnknownIsNew BY DEF AccessInit, UnknownIsNew
<1>6. OneLinkPerKey BY DEF AccessInit, OneLinkPerKey, NoLink
<1>7. WorkersInv
  BY <1>3, IdleCallType DEF AccessInit, WorkersInv, WorkerAuditIsHistory, Caller, Subject
<1>8. NoOperator BY IdleCallType DEF AccessInit, NoOperator, Caller
<1> QED BY <1>1, <1>2, <1>4, <1>5, <1>6, <1>7, <1>8 DEF AccessInv

LEMMA CallUpdates ==
  ASSUME NEW x \in CallRecord, NEW pc \in CallPc
  PROVE  /\ [x EXCEPT !.pc = pc] \in CallRecord
         /\ \A n \in Nat : [x EXCEPT !.pc = pc, !.tries = n] \in CallRecord
         /\ \A v \in AuditValue :
              /\ [x EXCEPT !.pc = pc, !.from = v] \in CallRecord
              /\ [x EXCEPT !.pc = pc, !.to = v] \in CallRecord
              /\ \A p \in Person :
                   /\ [x EXCEPT !.pc = pc, !.who = p, !.from = v] \in CallRecord
                   /\ \A w \in AuditValue :
                        [x EXCEPT !.pc = pc, !.who = p, !.from = v, !.to = w] \in CallRecord
         /\ \A l \in Link : [x EXCEPT !.pc = pc, !.link = l] \in CallRecord
         /\ \A k \in Key \cup {Nobody}, f \in Fingerprint \cup {Nobody} :
              [x EXCEPT !.pc = pc, !.key = k, !.print = f] \in CallRecord
BY DEF CallRecord

(* The other calls keep what they know as long as links stay what they     *)
(* are.                                                                    *)
LEMMA CallsKnow ==
  ASSUME AccessInv, NEW t \in Caller, NEW x \in CallRecord, call' = [call EXCEPT ![t] = x],
         Knows(x, links'),
         \A l \in Link : links[l].status # "none" =>
           /\ links'[l].status # "none"
           /\ links'[l].print = links[l].print /\ links'[l].key = links[l].key
  PROVE  call' \in [Caller -> CallRecord] /\ \A u \in Caller : Knows(call'[u], links')
<1>1. call \in [Caller -> CallRecord] /\ call' \in [Caller -> CallRecord]
  BY DEF AccessInv, AccessStates
<1>2. ASSUME NEW u \in Caller PROVE Knows(call'[u], links')
  <2>1. CASE u = t BY <1>1, <2>1
  <2>2. CASE u # t
    <3>1. call'[u] = call[u] BY <1>1, <2>2
    <3>2. Knows(call[u], links) BY DEF AccessInv
    <3> QED BY <3>1, <3>2 DEF Knows
  <2> QED BY <2>1, <2>2
<1> QED BY <1>1, <1>2

LEMMA CallOnly ==
  ASSUME AccessInv, NEW t \in Caller, NEW x \in CallRecord, call' = [call EXCEPT ![t] = x],
         Knows(x, links), UNCHANGED <<ownerId, role, desired, links, auditLog>>
  PROVE  AccessInv'
<1>1. call' \in [Caller -> CallRecord] /\ \A u \in Caller : Knows(call'[u], links')
  BY CallsKnow
<1>2. AccessStates' BY <1>1 DEF AccessInv, AccessStates
<1>3. AuditIsHistory'
  BY DEF AccessInv, AuditIsHistory, History, Now, LastAudited, Started
<1>4. UnknownIsNew' /\ OneLinkPerKey' BY DEF AccessInv, UnknownIsNew, OneLinkPerKey
<1> QED BY <1>1, <1>2, <1>3, <1>4 DEF AccessInv

LEMMA EndsOnly ==
  ASSUME AccessInv, NEW t \in Caller, EndsCall(t),
         UNCHANGED <<ownerId, role, desired, links, auditLog>>
  PROVE  AccessInv'
<1>1. Knows(IdleCall, links) BY IdleCallType DEF Knows
<1> QED BY <1>1, IdleCallType, CallOnly DEF EndsCall

(* A transition to a pc that asks for no more than the call knows already. *)
LEMMA GoesOnly ==
  ASSUME AccessInv, NEW t \in Caller, NEW pc \in CallPc, pc # "answered",
         \/ call[t].pc = "resolve" /\ pc = "insert"
         \/ call[t].pc = "reread" /\ pc = "role",
         Goes(t, pc), UNCHANGED <<ownerId, role, desired, links, auditLog>>
  PROVE  AccessInv'
<1> DEFINE x == [call[t] EXCEPT !.pc = pc]
<1>1. call[t] \in CallRecord /\ Knows(call[t], links) BY DEF AccessInv, AccessStates
<1>2. x \in CallRecord BY <1>1, CallUpdates
<1>3. Knows(x, links) BY <1>1 DEF Knows, CallRecord
<1>4. call' = [call EXCEPT ![t] = x] BY DEF Goes, AccessInv, AccessStates
<1> HIDE DEF x
<1> QED BY <1>2, <1>3, <1>4, CallOnly

LEMMA TriesOnly ==
  ASSUME AccessInv, NEW t \in Caller, NEW pc \in CallPc,
         \/ call[t].pc = "insert" /\ pc = "resolve"
         \/ call[t].pc = "role" /\ pc = "reread",
         TriesAgainLater(t, pc), UNCHANGED <<ownerId, role, desired, links, auditLog>>
  PROVE  AccessInv'
<1> DEFINE n == call[t].tries + 1
           x == [call[t] EXCEPT !.pc = pc, !.tries = n]
<1>1. call[t] \in CallRecord /\ Knows(call[t], links) BY DEF AccessInv, AccessStates
<1>2. n \in Nat BY <1>1 DEF CallRecord
<1>3. Knows(x, links) BY <1>1 DEF Knows, CallRecord
<1>4. CASE call' = [call EXCEPT ![t].pc = pc, ![t].tries = @ + 1]
  <2>1. call' = [call EXCEPT ![t] = x] BY <1>4 DEF AccessInv, AccessStates
  <2> HIDE DEF n
  <2>2. x \in CallRecord BY <1>1, <1>2, CallUpdates
  <2> HIDE DEF x
  <2> QED BY <1>3, <2>1, <2>2, CallOnly
<1>5. CASE EndsCall(t) BY <1>5, EndsOnly
<1> QED BY <1>4, <1>5 DEF TriesAgainLater

LEMMA RoleInAudit == Role \subseteq AuditValue /\ 1..MaxWorkers \subseteq AuditValue
BY DEF AuditValue

-----------------------------------------------------------------------------
(* The users and their roles.                                              *)

LEMMA ReadUserInv ==
  ASSUME AccessInv, NEW t \in Caller, NEW p \in Person, ReadUser(t, p)
  PROVE  AccessInv'
<1> DEFINE x == [IdleCall EXCEPT !.pc = "observe", !.who = p, !.from = role[p]]
<1>1. role[p] \in AuditValue BY RoleInAudit DEF AccessInv, AccessStates
<1>2. x \in CallRecord BY <1>1, IdleCallType, CallUpdates DEF CallPc
<1>3. Knows(x, links) BY IdleCallType DEF Knows, IdleCall
<1>4. call' = [call EXCEPT ![t] = x] BY DEF ReadUser
<1> HIDE DEF x
<1> QED BY <1>2, <1>3, <1>4, CallOnly DEF ReadUser

LEMMA LookAtTargetInv ==
  ASSUME AccessInv, NEW t \in Caller, NEW p, NEW q \in Person, LookAtTarget(t, p, q)
  PROVE  AccessInv'
<1> DEFINE v == role[q]
           w == Opposite(role[q])
           x == [IdleCall EXCEPT !.pc = "role", !.who = q, !.from = v, !.to = w]
<1>1. v \in {"USER", "ADMIN"} /\ w = Opposite(v) /\ v \in AuditValue /\ w \in AuditValue
  BY DEF LookAtTarget, Opposite, AuditValue, Role
<1>2. call' = [call EXCEPT ![t] = x] BY DEF LookAtTarget
<1> HIDE DEF v, w
<1>3. x \in CallRecord BY <1>1, IdleCallType, CallUpdates DEF CallPc
<1>4. Knows(x, links) BY <1>1, IdleCallType DEF Knows, IdleCall
<1> HIDE DEF x
<1> QED BY <1>2, <1>3, <1>4, CallOnly DEF LookAtTarget

(* A role that changes for a reason other than an administrator's: a new   *)
(* user, or the owner.                                                     *)
LEMMA PromotesInv ==
  ASSUME AccessInv, role' \in [Person -> Role], ownerId' \in Person \cup {Nobody},
         \A p \in Person : \/ role'[p] = role[p]
                           \/ role'[p] = "OWNER"
                           \/ role[p] = "none" /\ role'[p] = "USER",
         call' \in [Caller -> CallRecord], \A u \in Caller : Knows(call'[u], links),
         UNCHANGED <<desired, links, auditLog>>
  PROVE  AccessInv'
<1>1. AccessStates' BY DEF AccessInv, AccessStates
<1>2. ASSUME NEW x \in Person \cup Link PROVE History(x)'
  <2>1. History(x) /\ x \in Subject BY DEF AccessInv, AuditIsHistory, Subject
  <2>2. CASE x \in Link
    <3>1. Now(x)' = Now(x) /\ x \notin Person BY <2>2, SubjectsDiffer DEF Now
    <3> QED BY <2>1, <3>1, HistoryIs, HistoryNext
  <2>3. CASE x \in Person /\ role'[x] = role[x]
    <3>1. Now(x)' = Now(x) BY <2>3, SubjectsDiffer DEF Now
    <3> QED BY <2>1, <2>3, <3>1, HistoryIs, HistoryNext
  <2>4. CASE x \in Person /\ role'[x] = "OWNER"
    BY <2>1, <2>4, HistoryIs, HistoryNext
  <2>5. CASE x \in Person /\ role[x] = "none" /\ role'[x] = "USER"
    <3>1. auditLog'[x] = <<>> BY <2>5 DEF AccessInv, UnknownIsNew
    <3>2. Now(x)' = "USER" /\ Started(x) = "USER" BY <2>5, SubjectsDiffer DEF Now, Started
    <3> QED BY <2>1, <3>1, <3>2, EmptyChain, HistoryNext
  <2> QED BY <2>2, <2>3, <2>4, <2>5
<1>3. AuditIsHistory' BY <1>2 DEF AuditIsHistory
<1>4. UnknownIsNew' BY DEF AccessInv, UnknownIsNew
<1>5. OneLinkPerKey' BY DEF AccessInv, OneLinkPerKey
<1> QED BY <1>1, <1>3, <1>4, <1>5 DEF AccessInv

LEMMA WriteUserInv ==
  ASSUME AccessInv, NEW t \in Caller, WriteUser(t)
  PROVE  AccessInv'
<1> DEFINE p == call[t].who
<1>1. p \in Person /\ role \in [Person -> Role] /\ ownerId \in Person \cup {Nobody}
  BY DEF AccessInv, AccessStates, Knows, WriteUser
<1>3. /\ role' \in [Person -> Role]
      /\ \A q \in Person : \/ role'[q] = role[q]
                           \/ role'[q] = "OWNER"
                           \/ role[q] = "none" /\ role'[q] = "USER"
  <2>1. CASE call[t].from = "none"
    <3>1. /\ role[p] = "none"
          /\ role' = [role EXCEPT ![p] = IF p = ownerId THEN "OWNER" ELSE "USER"]
      BY <2>1 DEF WriteUser
    <3> QED BY <1>1, <3>1 DEF Role
  <2>2. CASE call[t].from # "none"
    <3>1. role' = [role EXCEPT ![p] = Observed(p, call[t].from)]
      BY <2>2 DEF WriteUser
    <3> QED BY <1>1, <3>1 DEF Observed, Role
  <2> QED BY <2>1, <2>2
<1>4. Knows(IdleCall, links) BY IdleCallType DEF Knows
<1>5. call' = [call EXCEPT ![t] = IdleCall] /\ UNCHANGED <<ownerId, desired, links, auditLog>>
  BY DEF WriteUser, EndsCall
<1>6. call' \in [Caller -> CallRecord] /\ \A u \in Caller : Knows(call'[u], links')
  BY <1>4, <1>5, IdleCallType, CallsKnow
<1> QED BY <1>1, <1>3, <1>5, <1>6, PromotesInv

LEMMA RestartInv == AccessInv /\ Restart => AccessInv'
<1> SUFFICES ASSUME AccessInv, Restart PROVE AccessInv' OBVIOUS
<1>1. role \in [Person -> Role] /\ call \in [Caller -> CallRecord]
  BY DEF AccessInv, AccessStates
<1>2. /\ role' \in [Person -> Role]
      /\ \A p \in Person : role'[p] = role[p] \/ role'[p] = "OWNER"
  BY <1>1 DEF Restart, Bootstrapped, Role
<1>3. /\ call' \in [Caller -> CallRecord]
      /\ \A u \in Caller : call'[u] = call[u] \/ call'[u] = IdleCall
  BY <1>1, IdleCallType DEF Restart
<1>4. Knows(IdleCall, links) BY IdleCallType DEF Knows
<1>5. \A u \in Caller : Knows(call'[u], links) BY <1>3, <1>4 DEF AccessInv
<1> QED BY <1>2, <1>3, <1>5, PromotesInv DEF Restart

(* Audited rows: the subject's history grows, the others' stay.            *)
LEMMA AuditedGrows ==
  ASSUME AccessInv, NEW x \in Subject, NEW old \in AuditValue, NEW new \in AuditValue,
         old # new, Chain(auditLog[x], Started(x)), LastOf(auditLog[x], Started(x)) = old,
         Audited(x, old, new)
  PROVE  /\ auditLog' \in [Subject -> Seq(AuditRow)]
         /\ Chain(auditLog'[x], Started(x)) /\ LastOf(auditLog'[x], Started(x)) = new
         /\ \A y \in Subject : y # x => auditLog'[y] = auditLog[y]
<1>1. auditLog \in [Subject -> Seq(AuditRow)] BY DEF AccessInv, AccessStates
<1>2. auditLog[x] \in Seq(AuditRow) BY <1>1
<1> DEFINE s == auditLog[x]
           row == [old |-> old, new |-> new]
<1>3. Append(s, row) \in Seq(AuditRow) /\ Chain(Append(s, row), Started(x))
      /\ LastOf(Append(s, row), Started(x)) = new
  BY <1>2, ChainGrows
<1>4. auditLog' = [auditLog EXCEPT ![x] = Append(s, row)] BY DEF Audited
<1> HIDE DEF s, row
<1>5. auditLog'[x] = Append(s, row) BY <1>1, <1>4
<1> QED BY <1>1, <1>3, <1>4, <1>5

LEMMA ChangeRoleInv ==
  ASSUME AccessInv, NEW t \in Caller, ChangeRole(t)
  PROVE  AccessInv'
<1> DEFINE p == call[t].who
           old == call[t].from
           new == call[t].to
<1>1. /\ p \in Person /\ role \in [Person -> Role] /\ p \in Subject
      /\ old \in {"USER", "ADMIN"} /\ new = Opposite(old) /\ role[p] = old
      /\ role' = [role EXCEPT ![p] = new] /\ Audited(p, old, new) /\ EndsCall(t)
      /\ UNCHANGED <<ownerId, desired, links>>
  BY DEF AccessInv, AccessStates, Knows, ChangeRole, StillAs, Subject
<1>2. /\ new \in {"USER", "ADMIN"} /\ old # new /\ old \in AuditValue /\ new \in AuditValue
      /\ new \in Role
  BY <1>1 DEF Opposite, AuditValue, Role
<1> HIDE DEF old, new
<1>3. History(p) /\ Now(p) = old
  BY <1>1, SubjectsDiffer DEF AccessInv, AuditIsHistory, Now
<1>4. Chain(auditLog[p], Started(p)) /\ LastOf(auditLog[p], Started(p)) = old
  BY <1>1, <1>3, HistoryIs
<1>5. /\ auditLog' \in [Subject -> Seq(AuditRow)]
      /\ Chain(auditLog'[p], Started(p)) /\ LastOf(auditLog'[p], Started(p)) = new
      /\ \A y \in Subject : y # p => auditLog'[y] = auditLog[y]
  BY <1>1, <1>2, <1>4, AuditedGrows
<1>6. Knows(IdleCall, links) BY IdleCallType DEF Knows
<1>7. call' \in [Caller -> CallRecord] /\ \A u \in Caller : Knows(call'[u], links')
  BY <1>1, <1>6, IdleCallType, CallsKnow DEF EndsCall
<1>8. /\ role' \in [Person -> Role] /\ role'[p] = new
      /\ \A q \in Person : q # p => role'[q] = role[q]
  BY <1>1, <1>2
<1>9. AccessStates' BY <1>1, <1>5, <1>7, <1>8 DEF AccessInv, AccessStates
<1>10. ASSUME NEW x \in Person \cup Link PROVE History(x)'
  <2>1. History(x) /\ x \in Subject BY DEF AccessInv, AuditIsHistory, Subject
  <2>2. CASE x = p
    <3>1. Now(x)' = new BY <1>1, <1>8, <2>2, SubjectsDiffer DEF Now
    <3> QED BY <1>5, <2>1, <2>2, <3>1, HistoryNext
  <2>3. CASE x # p
    <3>1. Now(x)' = Now(x) /\ auditLog'[x] = auditLog[x]
      BY <1>1, <1>5, <1>8, <2>1, <2>3, SubjectsDiffer DEF Now
    <3>2. x \in Person => role'[x] = role[x] BY <1>8, <2>3
    <3> QED BY <2>1, <3>1, <3>2, HistoryIs, HistoryNext
  <2> QED BY <2>2, <2>3
<1>11. AuditIsHistory' BY <1>10 DEF AuditIsHistory
<1>12. UnknownIsNew'
  BY <1>2, <1>5, <1>8 DEF AccessInv, UnknownIsNew, Subject
<1>13. OneLinkPerKey' BY <1>1 DEF AccessInv, OneLinkPerKey
<1> QED BY <1>7, <1>9, <1>11, <1>12, <1>13 DEF AccessInv

-----------------------------------------------------------------------------
(* The desired workers: no other subject is touched.                       *)

LEMMA SettingInv ==
  ASSUME AccessInv, desired' \in 1..MaxWorkers, call' \in [Caller -> CallRecord],
         \A u \in Caller : Knows(call'[u], links),
         auditLog' \in [Subject -> Seq(AuditRow)],
         \A y \in Subject : y # Pool => auditLog'[y] = auditLog[y],
         UNCHANGED <<ownerId, role, links>>
  PROVE  AccessInv'
<1>1. AccessStates' BY DEF AccessInv, AccessStates
<1>2. ASSUME NEW x \in Person \cup Link PROVE History(x)'
  <2>1. History(x) /\ x \in Subject /\ x # Pool
    BY SubjectsDiffer DEF AccessInv, AuditIsHistory, Subject
  <2>2. Now(x)' = Now(x) /\ auditLog'[x] = auditLog[x] BY <2>1 DEF Now
  <2> QED BY <2>1, <2>2, HistoryIs, HistoryNext
<1>3. AuditIsHistory' BY <1>2 DEF AuditIsHistory
<1>4. UnknownIsNew' BY SubjectsDiffer DEF AccessInv, UnknownIsNew, Subject
<1>5. OneLinkPerKey' BY DEF AccessInv, OneLinkPerKey
<1> QED BY <1>1, <1>3, <1>4, <1>5 DEF AccessInv

LEMMA AuditedType ==
  ASSUME AccessInv, NEW x \in Subject, NEW old \in AuditValue, NEW new \in AuditValue,
         Audited(x, old, new)
  PROVE  /\ auditLog' \in [Subject -> Seq(AuditRow)]
         /\ \A y \in Subject : y # x => auditLog'[y] = auditLog[y]
<1> DEFINE row == [old |-> old, new |-> new]
<1>1. auditLog \in [Subject -> Seq(AuditRow)] BY DEF AccessInv, AccessStates
<1>2. row \in AuditRow BY DEF AuditRow
<1>3. auditLog' = [auditLog EXCEPT ![x] = Append(@, row)] BY DEF Audited
<1> HIDE DEF row
<1>4. Append(auditLog[x], row) \in Seq(AuditRow) BY <1>1, <1>2
<1> QED BY <1>1, <1>3, <1>4

LEMMA AskInv ==
  ASSUME AccessInv, NEW t \in Caller, NEW n \in 1..MaxWorkers,
         call' = [call EXCEPT ![t] = [IdleCall EXCEPT !.pc = "authorized", !.to = n]],
         UNCHANGED <<ownerId, role, desired, links, auditLog>>
  PROVE  AccessInv'
<1> DEFINE x == [IdleCall EXCEPT !.pc = "authorized", !.to = n]
<1>1. n \in AuditValue BY RoleInAudit
<1>2. x \in CallRecord BY <1>1, IdleCallType, CallUpdates DEF CallPc
<1>3. Knows(x, links) BY IdleCallType DEF Knows, IdleCall
<1>4. call' = [call EXCEPT ![t] = x] OBVIOUS
<1> HIDE DEF x
<1> QED BY <1>2, <1>3, <1>4, CallOnly

LEMMA ReadDesiredInv ==
  ASSUME AccessInv, NEW t \in Caller, ReadDesired(t)
  PROVE  AccessInv'
<1> DEFINE x == [call[t] EXCEPT !.pc = "setting", !.from = desired]
<1>1. /\ call[t] \in CallRecord /\ Knows(call[t], links) /\ desired \in 1..MaxWorkers
      /\ call[t].pc = "authorized"
  BY DEF AccessInv, AccessStates, ReadDesired
<1>2. x \in CallRecord BY <1>1, RoleInAudit, CallUpdates DEF CallPc
<1>3. Knows(x, links) BY <1>1 DEF Knows, CallRecord
<1>4. call' = [call EXCEPT ![t] = x] BY DEF ReadDesired, AccessInv, AccessStates
<1> HIDE DEF x
<1> QED BY <1>2, <1>3, <1>4, CallOnly DEF ReadDesired

LEMMA WriteDesiredInv ==
  ASSUME AccessInv, NEW t \in Caller, WriteDesired(t)
  PROVE  AccessInv'
<1>1. /\ call[t].to \in 1..MaxWorkers /\ call[t].from \in 1..MaxWorkers
      /\ auditLog \in [Subject -> Seq(AuditRow)]
  BY DEF AccessInv, AccessStates, Knows, WriteDesired
<1>2. call[t].to \in AuditValue /\ call[t].from \in AuditValue BY <1>1, RoleInAudit
<1>3. /\ auditLog' \in [Subject -> Seq(AuditRow)]
      /\ \A y \in Subject : y # Pool => auditLog'[y] = auditLog[y]
  BY <1>1, <1>2, AuditedType, SubjectsDiffer DEF WriteDesired
<1>4. Knows(IdleCall, links) BY IdleCallType DEF Knows
<1>5. call' \in [Caller -> CallRecord] /\ \A u \in Caller : Knows(call'[u], links')
  BY <1>4, IdleCallType, CallsKnow DEF WriteDesired, EndsCall
<1> QED BY <1>1, <1>3, <1>5, SettingInv DEF WriteDesired

LEMMA AdjustWorkersInv ==
  ASSUME AccessInv, NEW t \in Caller, NEW p, NEW n, AdjustWorkers(t, p, n)
  PROVE  AccessInv'
<1>1. /\ n \in 1..MaxWorkers /\ desired \in 1..MaxWorkers /\ Audited(Pool, desired, n)
      /\ desired' = n /\ UNCHANGED <<ownerId, role, links, call>>
      /\ call \in [Caller -> CallRecord]
  BY DEF AccessInv, AccessStates, AdjustWorkers
<1>2. n \in AuditValue /\ desired \in AuditValue BY <1>1, RoleInAudit
<1>3. /\ auditLog' \in [Subject -> Seq(AuditRow)]
      /\ \A y \in Subject : y # Pool => auditLog'[y] = auditLog[y]
  BY <1>1, <1>2, AuditedType, SubjectsDiffer
<1>4. \A u \in Caller : Knows(call'[u], links) BY <1>1 DEF AccessInv
<1> QED BY <1>1, <1>3, <1>4, SettingInv

-----------------------------------------------------------------------------
(* The deep links.                                                         *)

LEMMA ReplaysInv ==
  ASSUME AccessInv, NEW t \in Caller, NEW k \in Key \cup {Nobody},
         NEW f \in Fingerprint \cup {Nobody}, NEW l \in Keyed(k),
         IF SamePrint(l, f)
         THEN call' = [call EXCEPT ![t] = [IdleCall EXCEPT !.pc = "answered", !.key = k,
                                             !.print = f, !.link = l]]
         ELSE EndsCall(t),
         UNCHANGED <<ownerId, role, desired, links, auditLog>>
  PROVE  AccessInv'
<1>1. CASE SamePrint(l, f)
  <2> DEFINE x == [IdleCall EXCEPT !.pc = "answered", !.key = k, !.print = f, !.link = l]
  <2>1. l \in Link /\ links[l].status # "none" /\ links[l].key = k /\ links[l].print = f
    BY <1>1 DEF Keyed, SamePrint
  <2>2. x \in CallRecord BY <2>1, IdleCallType DEF IdleCall, CallRecord, CallPc
  <2>3. Knows(x, links) BY <2>1, IdleCallType DEF Knows, IdleCall
  <2>4. call' = [call EXCEPT ![t] = x] BY <1>1
  <2> HIDE DEF x
  <2> QED BY <2>2, <2>3, <2>4, CallOnly
<1>2. CASE ~SamePrint(l, f) BY <1>2, EndsOnly
<1> QED BY <1>1, <1>2

LEMMA RegisterInv ==
  ASSUME AccessInv, NEW t \in Caller, NEW k \in Key \cup {Nobody}, NEW f \in Fingerprint,
         Register(t, k, f)
  PROVE  AccessInv'
<1> DEFINE x == [IdleCall EXCEPT !.pc = "resolve", !.key = k, !.print = f]
<1>1. CASE Keyed(k) = {}
  <2>1. x \in CallRecord BY IdleCallType, CallUpdates DEF CallPc
  <2>2. Knows(x, links) BY IdleCallType DEF Knows, IdleCall
  <2>3. call' = [call EXCEPT ![t] = x] BY <1>1 DEF Register, Replays
  <2> HIDE DEF x
  <2> QED BY <2>1, <2>2, <2>3, CallOnly DEF Register
<1>2. CASE Keyed(k) # {} BY <1>2, ReplaysInv DEF Register, Replays
<1> QED BY <1>1, <1>2

LEMMA ReadKeyInv ==
  ASSUME AccessInv, NEW t \in Caller, ReadKey(t)
  PROVE  AccessInv'
<1>1. /\ call[t].key \in Key \cup {Nobody} /\ call[t].print \in Fingerprint \cup {Nobody}
      /\ call[t].pc = "resolve" /\ "insert" \in CallPc
      /\ UNCHANGED <<ownerId, role, desired, links, auditLog>>
  BY DEF AccessInv, AccessStates, CallRecord, ReadKey, CallPc
<1>2. CASE Keyed(call[t].key) = {}
  <2>1. Goes(t, "insert") BY <1>2 DEF ReadKey, Replays
  <2> QED BY <1>1, <2>1, GoesOnly
<1>3. CASE Keyed(call[t].key) # {}
  BY <1>1, <1>3, ReplaysInv DEF ReadKey, Replays
<1> QED BY <1>2, <1>3

LEMMA InsertCollidesInv ==
  ASSUME AccessInv, NEW t \in Caller, InsertCollides(t)
  PROVE  AccessInv'
<1>1. /\ call[t].key \in Key \cup {Nobody} /\ call[t].print \in Fingerprint \cup {Nobody}
      /\ call[t].pc = "insert" /\ "resolve" \in CallPc
      /\ UNCHANGED <<ownerId, role, desired, links, auditLog>>
  BY DEF AccessInv, AccessStates, CallRecord, InsertCollides, CallPc
<1>2. CASE Keyed(call[t].key) = {}
  <2>1. TriesAgainLater(t, "resolve") BY <1>2 DEF InsertCollides, Replays
  <2> QED BY <1>1, <2>1, TriesOnly
<1>3. CASE Keyed(call[t].key) # {}
  BY <1>1, <1>3, ReplaysInv DEF InsertCollides, Replays
<1> QED BY <1>2, <1>3

(* A link's row and its audit row change together.                         *)
LEMMA LinkChangesInv ==
  ASSUME AccessInv, NEW l \in Link, NEW row \in LinkRecord, row.status # links[l].status,
         row.status # "none",
         links' = [links EXCEPT ![l] = row], Audited(l, links[l].status, row.status),
         call' \in [Caller -> CallRecord], \A u \in Caller : Knows(call'[u], links'),
         \A m \in Link : m # l /\ links[m].status # "none" /\ links[m].key = row.key
                         => row.key = Nobody,
         UNCHANGED <<ownerId, role, desired>>
  PROVE  AccessInv'
<1>1. /\ links \in [Link -> LinkRecord] /\ l \in Subject
      /\ links[l].status \in AuditValue /\ row.status \in AuditValue
  BY DEF AccessInv, AccessStates, LinkRecord, AuditValue, Role, Subject
<1>2. History(l) /\ Now(l) = links[l].status /\ l \notin Person
  BY SubjectsDiffer DEF AccessInv, AuditIsHistory, Now
<1>3. Chain(auditLog[l], Started(l)) /\ LastOf(auditLog[l], Started(l)) = links[l].status
  BY <1>1, <1>2, HistoryIs
<1>4. /\ auditLog' \in [Subject -> Seq(AuditRow)]
      /\ Chain(auditLog'[l], Started(l)) /\ LastOf(auditLog'[l], Started(l)) = row.status
      /\ \A y \in Subject : y # l => auditLog'[y] = auditLog[y]
  BY <1>1, <1>3, AuditedGrows
<1>5. /\ links' \in [Link -> LinkRecord] /\ links'[l] = row
      /\ \A m \in Link : m # l => links'[m] = links[m]
  BY <1>1
<1>6. AccessStates' BY <1>4, <1>5 DEF AccessInv, AccessStates
<1>7. ASSUME NEW x \in Person \cup Link PROVE History(x)'
  <2>1. History(x) /\ x \in Subject BY DEF AccessInv, AuditIsHistory, Subject
  <2>2. CASE x = l
    <3>1. Now(x)' = row.status BY <1>5, <2>2, SubjectsDiffer DEF Now
    <3> QED BY <1>4, <2>1, <2>2, <3>1, HistoryNext
  <2>3. CASE x # l
    <3>1. Now(x)' = Now(x) /\ auditLog'[x] = auditLog[x]
      BY <1>4, <1>5, <2>1, <2>3, SubjectsDiffer DEF Now
    <3> QED BY <2>1, <3>1, HistoryIs, HistoryNext
  <2> QED BY <2>2, <2>3
<1>8. AuditIsHistory' BY <1>7 DEF AuditIsHistory
<1>9. UnknownIsNew' BY <1>2, <1>4 DEF AccessInv, UnknownIsNew, Subject
<1>10. OneLinkPerKey' BY <1>5 DEF AccessInv, OneLinkPerKey
<1> QED BY <1>6, <1>8, <1>9, <1>10 DEF AccessInv

LEMMA InsertLinkInv ==
  ASSUME AccessInv, NEW t \in Caller, InsertLink(t)
  PROVE  AccessInv'
<1>1. PICK l \in Link :
       /\ links[l] = NoLink
       /\ links' = [links EXCEPT ![l] = [status |-> "ACTIVE", key |-> call[t].key,
                                         print |-> call[t].print]]
       /\ Audited(l, "none", "ACTIVE")
       /\ call' = [call EXCEPT ![t].pc = "answered", ![t].link = l]
  BY DEF InsertLink
<1> DEFINE row == [status |-> "ACTIVE", key |-> call[t].key, print |-> call[t].print]
           x == [call[t] EXCEPT !.pc = "answered", !.link = l]
<1>2. call[t] \in CallRecord /\ links \in [Link -> LinkRecord] /\ Keyed(call[t].key) = {}
      /\ UNCHANGED <<ownerId, role, desired>>
  BY DEF AccessInv, AccessStates, InsertLink
<1>3. row \in LinkRecord /\ row.status = "ACTIVE" /\ row.key = call[t].key
      /\ row.print = call[t].print /\ links[l].status = "none"
  BY <1>1, <1>2 DEF LinkRecord, CallRecord, NoLink
<1>4. links' = [links EXCEPT ![l] = row] BY <1>1
<1> HIDE DEF row
<1>5. links'[l] = row BY <1>2, <1>4
<1>6. /\ x \in CallRecord /\ x.pc = "answered" /\ x.link = l /\ x.key = call[t].key
      /\ x.print = call[t].print
  <2>1. x \in CallRecord BY <1>2, CallUpdates DEF CallPc
  <2> QED BY <1>2, <2>1 DEF CallRecord
<1>7. call' = [call EXCEPT ![t] = x] BY <1>1 DEF AccessInv, AccessStates
<1> HIDE DEF x
<1>8. Knows(x, links') BY <1>3, <1>5, <1>6 DEF Knows
<1>9. \A m \in Link : links[m].status # "none" =>
           /\ links'[m].status # "none"
           /\ links'[m].print = links[m].print /\ links'[m].key = links[m].key
  BY <1>2, <1>3, <1>4
<1>10. call' \in [Caller -> CallRecord] /\ \A u \in Caller : Knows(call'[u], links')
  BY <1>6, <1>7, <1>8, <1>9, CallsKnow
<1>11. \A m \in Link : m # l /\ links[m].status # "none" /\ links[m].key = row.key
                       => row.key = Nobody
  BY <1>2, <1>3 DEF Keyed
<1>12. Audited(l, links[l].status, row.status) BY <1>1, <1>3
<1> QED BY <1>2, <1>3, <1>4, <1>10, <1>11, <1>12, LinkChangesInv

LEMMA RevokeInv ==
  ASSUME AccessInv, NEW l \in Link, Revoke(l)
  PROVE  AccessInv'
<1> DEFINE row == [links[l] EXCEPT !.status = "REVOKED"]
<1>1. /\ links \in [Link -> LinkRecord] /\ call \in [Caller -> CallRecord]
      /\ links[l].status = "ACTIVE" /\ UNCHANGED <<ownerId, role, desired, call>>
  BY DEF AccessInv, AccessStates, Revoke
<1>2. row \in LinkRecord /\ row.status = "REVOKED" /\ row.key = links[l].key
      /\ row.print = links[l].print
  BY <1>1 DEF LinkRecord
<1>3. links' = [links EXCEPT ![l] = row] BY <1>1 DEF Revoke
<1> HIDE DEF row
<1>4. Audited(l, links[l].status, row.status) BY <1>1, <1>2 DEF Revoke
<1>5. /\ links'[l] = row /\ \A m \in Link : m # l => links'[m] = links[m]
  BY <1>1, <1>3
<1>6. ASSUME NEW u \in Caller PROVE Knows(call'[u], links')
  <2>1. Knows(call[u], links) /\ call'[u] = call[u] BY <1>1 DEF AccessInv
  <2> QED BY <1>2, <1>5, <2>1 DEF Knows
<1>7. \A m \in Link : m # l /\ links[m].status # "none" /\ links[m].key = row.key
                      => row.key = Nobody
  BY <1>1, <1>2 DEF AccessInv, OneLinkPerKey
<1> QED BY <1>1, <1>2, <1>3, <1>4, <1>6, <1>7, LinkChangesInv

-----------------------------------------------------------------------------
LEMMA AccessNextInv == AccessInv /\ [AccessNext]_accessVars => AccessInv'
<1> SUFFICES ASSUME AccessInv, [AccessNext]_accessVars PROVE AccessInv' OBVIOUS
<1>1. CASE UNCHANGED accessVars
  BY <1>1 DEF accessVars, AccessInv, AccessStates, AuditIsHistory, History, Now, LastAudited,
              Started, UnknownIsNew, OneLinkPerKey
<1>2. CASE Restart BY <1>2, RestartInv
<1>3. CASE \E l \in Link : Revoke(l) BY <1>3, RevokeInv
<1>4. ASSUME NEW t \in Task,
       \/ \E p \in Person : ReadUser(t, p)
       \/ WriteUser(t) \/ UserExists(t)
       \/ \E p, q \in Person : LookAtTarget(t, p, q)
       \/ ChangeRole(t) \/ RoleWasChanged(t) \/ RoleIsLocked(t) \/ LookAgain(t)
       \/ \E p \in Person, n \in 1..MaxWorkers : AskWorkers(t, p, n) \/ AdjustWorkers(t, p, n)
       \/ \E k \in Key \cup {Nobody}, f \in Fingerprint : Register(t, k, f)
       \/ ReadKey(t) \/ Unresolved(t) \/ InsertLink(t) \/ InsertCollides(t) \/ Respond(t)
      PROVE AccessInv'
  <2>0. t \in Caller /\ {"role", "reread"} \subseteq CallPc BY DEF Caller, CallPc
  <2>1. CASE \E p \in Person : ReadUser(t, p) BY <2>0, <2>1, ReadUserInv
  <2>2. CASE WriteUser(t) BY <2>0, <2>2, WriteUserInv
  <2>3. CASE UserExists(t) BY <2>0, <2>3, EndsOnly DEF UserExists
  <2>4. CASE \E p, q \in Person : LookAtTarget(t, p, q) BY <2>0, <2>4, LookAtTargetInv
  <2>5. CASE ChangeRole(t) BY <2>0, <2>5, ChangeRoleInv
  <2>6. CASE RoleWasChanged(t) BY <2>0, <2>6, EndsOnly DEF RoleWasChanged
  <2>7. CASE RoleIsLocked(t) BY <2>0, <2>7, TriesOnly DEF RoleIsLocked
  <2>8. CASE LookAgain(t) BY <2>0, <2>8, GoesOnly, EndsOnly DEF LookAgain
  <2>9. CASE \E p \in Person, n \in 1..MaxWorkers : AskWorkers(t, p, n)
    BY <2>0, <2>9, AskInv DEF AskWorkers
  <2>10. CASE \E p \in Person, n \in 1..MaxWorkers : AdjustWorkers(t, p, n)
    BY <2>0, <2>10, AdjustWorkersInv
  <2>11. CASE \E k \in Key \cup {Nobody}, f \in Fingerprint : Register(t, k, f)
    BY <2>0, <2>11, RegisterInv
  <2>12. CASE ReadKey(t) BY <2>0, <2>12, ReadKeyInv
  <2>13. CASE Unresolved(t) BY <2>0, <2>13, EndsOnly DEF Unresolved
  <2>14. CASE InsertLink(t) BY <2>0, <2>14, InsertLinkInv
  <2>15. CASE InsertCollides(t) BY <2>0, <2>15, InsertCollidesInv
  <2>16. CASE Respond(t) BY <2>0, <2>16, EndsOnly DEF Respond
  <2> QED BY <1>4, <2>1, <2>2, <2>3, <2>4, <2>5, <2>6, <2>7, <2>8, <2>9, <2>10, <2>11,
             <2>12, <2>13, <2>14, <2>15, <2>16
<1>5. CASE \E t \in Operator, n \in 1..MaxWorkers : OperatorAsks(t, n)
  BY <1>5, AskInv DEF OperatorAsks, Caller
<1>6. CASE \E t \in Caller : ReadDesired(t) \/ WriteDesired(t)
  BY <1>6, ReadDesiredInv, WriteDesiredInv
<1> QED BY <1>1, <1>2, <1>3, <1>4, <1>5, <1>6 DEF AccessNext

-----------------------------------------------------------------------------
(* The history of the desired workers.                                     *)

LEMMA NotSetting ==
  ASSUME AccessInv, WorkersInv, desired' = desired, auditLog'[Pool] = auditLog[Pool],
         \A u \in Task : call'[u].pc = "setting" => call'[u] = call[u]
  PROVE  WorkersInv'
<1>1. Now(Pool)' = Now(Pool) BY DEF Now
<1>2. WorkerAuditIsHistory'
  BY <1>1, SubjectsDiffer, HistoryIs, HistoryNext DEF WorkersInv, WorkerAuditIsHistory
<1> QED BY <1>2 DEF WorkersInv

LEMMA TaskStepNotSetting ==
  ASSUME AccessInv, WorkersInv, NEW t \in Task, NEW x, x.pc # "setting",
         call' = [call EXCEPT ![t] = x], desired' = desired, auditLog'[Pool] = auditLog[Pool]
  PROVE  WorkersInv'
<1>1. \A u \in Task : u # t => call'[u] = call[u] OBVIOUS
<1>2. call'[t] = x BY DEF AccessInv, AccessStates, Caller
<1> QED BY <1>1, <1>2, NotSetting

LEMMA EndsNotSetting ==
  ASSUME AccessInv, WorkersInv, NEW t \in Task, EndsCall(t),
         desired' = desired, auditLog'[Pool] = auditLog[Pool]
  PROVE  WorkersInv'
BY IdleCallType, TaskStepNotSetting DEF EndsCall

LEMMA GoesNotSetting ==
  ASSUME AccessInv, WorkersInv, NEW t \in Task, NEW pc, pc # "setting",
         Goes(t, pc) \/ TriesAgainLater(t, pc),
         desired' = desired, auditLog'[Pool] = auditLog[Pool]
  PROVE  WorkersInv'
<1>1. call \in [Caller -> CallRecord] /\ t \in Caller BY DEF AccessInv, AccessStates, Caller
<1>2. CASE Goes(t, pc)
  <2> DEFINE x == [call[t] EXCEPT !.pc = pc]
  <2>1. x.pc # "setting" BY <1>1 DEF CallRecord
  <2>2. call' = [call EXCEPT ![t] = x] BY <1>2 DEF Goes
  <2> HIDE DEF x
  <2> QED BY <2>1, <2>2, TaskStepNotSetting
<1>3. CASE TriesAgainLater(t, pc) /\ call[t].tries + 1 < MaxTries
  <2> DEFINE x == [call[t] EXCEPT !.pc = pc, !.tries = @ + 1]
  <2>1. x.pc # "setting" BY <1>1 DEF CallRecord
  <2>2. call' = [call EXCEPT ![t] = x] BY <1>1, <1>3 DEF TriesAgainLater
  <2> HIDE DEF x
  <2> QED BY <2>1, <2>2, TaskStepNotSetting
<1>4. CASE TriesAgainLater(t, pc) /\ ~(call[t].tries + 1 < MaxTries)
  BY <1>4, EndsNotSetting DEF TriesAgainLater
<1> QED BY <1>2, <1>3, <1>4

LEMMA ReplaysNotSetting ==
  ASSUME AccessInv, WorkersInv, NEW t \in Task, NEW k, NEW f, NEW l \in Keyed(k),
         IF SamePrint(l, f)
         THEN call' = [call EXCEPT ![t] = [IdleCall EXCEPT !.pc = "answered", !.key = k,
                                             !.print = f, !.link = l]]
         ELSE EndsCall(t),
         desired' = desired, auditLog'[Pool] = auditLog[Pool]
  PROVE  WorkersInv'
<1>1. CASE SamePrint(l, f)
  <2> DEFINE x == [IdleCall EXCEPT !.pc = "answered", !.key = k, !.print = f, !.link = l]
  <2>1. x.pc # "setting" BY DEF IdleCall
  <2>2. call' = [call EXCEPT ![t] = x] BY <1>1
  <2> HIDE DEF x
  <2> QED BY <2>1, <2>2, TaskStepNotSetting
<1>2. CASE ~SamePrint(l, f) BY <1>2, EndsNotSetting
<1> QED BY <1>1, <1>2

LEMMA ReadDesiredWorkers ==
  ASSUME AccessInv, WorkersInv, NEW t \in Task, ReadDesired(t), Task \cap Operator = {}
  PROVE  WorkersInv'
<1>1. /\ call \in [Caller -> CallRecord] /\ t \in Caller /\ t \notin Operator
      /\ call' = [call EXCEPT ![t].pc = "setting", ![t].from = desired]
      /\ desired' = desired /\ auditLog' = auditLog
      /\ \A u \in Task : call[u].pc # "setting"
  BY DEF AccessInv, AccessStates, Caller, ReadDesired, SettingsFree, SameProcess
<1> DEFINE x == [call[t] EXCEPT !.pc = "setting", !.from = desired]
<1>2. x.from = desired /\ call' = [call EXCEPT ![t] = x]
  BY <1>1 DEF CallRecord
<1> HIDE DEF x
<1>3. call'[t] = x /\ \A u \in Task : u # t => call'[u] = call[u]
  BY <1>1, <1>2 DEF Caller
<1>4. Now(Pool)' = Now(Pool) /\ auditLog'[Pool] = auditLog[Pool] BY <1>1 DEF Now
<1>5. WorkerAuditIsHistory'
  BY <1>4, SubjectsDiffer, HistoryIs, HistoryNext DEF WorkersInv, WorkerAuditIsHistory
<1>6. \A u, v \in Task : call'[u].pc = "setting" /\ call'[v].pc = "setting" => u = v
  BY <1>1, <1>3
<1>7. \A u \in Task : call'[u].pc = "setting" => call'[u].from = desired'
  BY <1>1, <1>2, <1>3
<1> QED BY <1>5, <1>6, <1>7 DEF WorkersInv

(* The setting changes by a row from the value it had.                     *)
LEMMA PoolHistoryGrows ==
  ASSUME AccessInv, WorkersInv, NEW n \in 1..MaxWorkers, n # desired,
         Audited(Pool, desired, n), desired' = n
  PROVE  WorkerAuditIsHistory'
<1>1. desired \in AuditValue /\ n \in AuditValue
  BY RoleInAudit DEF AccessInv, AccessStates
<1>2. Now(Pool) = desired /\ Now(Pool)' = n BY DEF Now
<1>3. Chain(auditLog[Pool], Started(Pool)) /\ LastOf(auditLog[Pool], Started(Pool)) = desired
  BY <1>2, SubjectsDiffer, HistoryIs DEF WorkersInv, WorkerAuditIsHistory
<1>4. Chain(auditLog'[Pool], Started(Pool)) /\ LastOf(auditLog'[Pool], Started(Pool)) = n
  BY <1>1, <1>3, SubjectsDiffer, AuditedGrows
<1> QED BY <1>2, <1>4, SubjectsDiffer, HistoryNext DEF WorkerAuditIsHistory

LEMMA WriteDesiredWorkers ==
  ASSUME AccessInv, WorkersInv, NEW t \in Task, WriteDesired(t)
  PROVE  WorkersInv'
<1>1. /\ call \in [Caller -> CallRecord] /\ t \in Caller /\ call[t].pc = "setting"
      /\ call[t].from = desired /\ call[t].to \in 1..MaxWorkers /\ desired' = call[t].to
      /\ call' = [call EXCEPT ![t] = IdleCall]
  BY DEF AccessInv, AccessStates, Knows, Caller, WriteDesired, EndsCall, WorkersInv
<1>2. \A u \in Task : call'[u].pc # "setting"
  <2> SUFFICES ASSUME NEW u \in Task PROVE call'[u].pc # "setting" OBVIOUS
  <2>1. CASE u = t BY <1>1, <2>1, IdleCallType
  <2>2. CASE u # t BY <1>1, <2>2 DEF WorkersInv
  <2> QED BY <2>1, <2>2
<1>3. WorkerAuditIsHistory'
  <2>1. CASE call[t].from = call[t].to
    <3>1. auditLog' = auditLog /\ desired' = desired BY <1>1, <2>1 DEF WriteDesired
    <3>2. Now(Pool)' = Now(Pool) BY <3>1 DEF Now
    <3> QED BY <3>1, <3>2, SubjectsDiffer, HistoryIs, HistoryNext
            DEF WorkersInv, WorkerAuditIsHistory
  <2>2. CASE call[t].from # call[t].to
    <3> DEFINE n == call[t].to
    <3>1. /\ n \in 1..MaxWorkers /\ n # desired /\ Audited(Pool, desired, n) /\ desired' = n
      BY <1>1, <2>2 DEF WriteDesired
    <3> HIDE DEF n
    <3> QED BY <3>1, PoolHistoryGrows
  <2> QED BY <2>1, <2>2
<1> QED BY <1>2, <1>3 DEF WorkersInv

LEMMA AdjustWorkersWorkers ==
  ASSUME AccessInv, WorkersInv, NEW t \in Task, NEW p, NEW n, AdjustWorkers(t, p, n),
         Task \cap Operator = {}
  PROVE  WorkersInv'
<1>1. /\ n \in 1..MaxWorkers /\ desired \in 1..MaxWorkers
      /\ n = desired + 1 \/ desired = n + 1
      /\ Audited(Pool, desired, n) /\ desired' = n /\ call' = call
      /\ \A u \in Task : call[u].pc # "setting"
  BY DEF AccessInv, AccessStates, AdjustWorkers, SettingsFree, SameProcess
<1>2. n # desired BY <1>1
<1>3. WorkerAuditIsHistory' BY <1>1, <1>2, PoolHistoryGrows
<1> QED BY <1>1, <1>3 DEF WorkersInv

LEMMA WorkersNextInv ==
  AccessInv /\ WorkersInv /\ NoOperator /\ [AccessNext]_accessVars /\ NoOperator'
    => WorkersInv'
<1> SUFFICES ASSUME AccessInv, WorkersInv, NoOperator, [AccessNext]_accessVars, NoOperator'
             PROVE  WorkersInv'
  OBVIOUS
<1>0. call \in [Caller -> CallRecord] /\ Task \cap Operator = {}
  BY AccessAssumption DEF AccessInv, AccessStates
<1>1. CASE UNCHANGED accessVars
  BY <1>1, NotSetting DEF accessVars
<1>2. CASE Restart
  <2>1. \A u \in Task : call'[u] = IdleCall BY <1>2 DEF Restart, Caller
  <2> QED BY <1>2, <2>1, IdleCallType, NotSetting DEF Restart
<1>3. CASE \E l \in Link : Revoke(l)
  <2>1. PICK l \in Link : Revoke(l) BY <1>3
  <2>2. auditLog'[Pool] = auditLog[Pool] BY <2>1, SubjectsDiffer DEF Revoke, Audited
  <2> QED BY <2>1, <2>2, NotSetting DEF Revoke
<1>4. ASSUME NEW t \in Task,
       \/ \E p \in Person : ReadUser(t, p)
       \/ WriteUser(t) \/ UserExists(t)
       \/ \E p, q \in Person : LookAtTarget(t, p, q)
       \/ ChangeRole(t) \/ RoleWasChanged(t) \/ RoleIsLocked(t) \/ LookAgain(t)
       \/ \E p \in Person, n \in 1..MaxWorkers : AskWorkers(t, p, n) \/ AdjustWorkers(t, p, n)
       \/ \E k \in Key \cup {Nobody}, f \in Fingerprint : Register(t, k, f)
       \/ ReadKey(t) \/ Unresolved(t) \/ InsertLink(t) \/ InsertCollides(t) \/ Respond(t)
      PROVE WorkersInv'
  <2>1. ASSUME NEW p \in Person, ReadUser(t, p) PROVE WorkersInv'
    <3> DEFINE x == [IdleCall EXCEPT !.pc = "observe", !.who = p, !.from = role[p]]
    <3>1. x.pc # "setting" BY DEF IdleCall
    <3>2. call' = [call EXCEPT ![t] = x] BY <2>1 DEF ReadUser
    <3> HIDE DEF x
    <3> QED BY <2>1, <3>1, <3>2, TaskStepNotSetting DEF ReadUser
  <2>2. CASE WriteUser(t) BY <2>2, EndsNotSetting DEF WriteUser
  <2>3. CASE UserExists(t) BY <2>3, EndsNotSetting DEF UserExists
  <2>4. ASSUME NEW p \in Person, NEW q \in Person, LookAtTarget(t, p, q) PROVE WorkersInv'
    <3> DEFINE x == [IdleCall EXCEPT !.pc = "role", !.who = q,
                                    !.from = role[q], !.to = Opposite(role[q])]
    <3>1. x.pc # "setting" BY DEF IdleCall
    <3>2. call' = [call EXCEPT ![t] = x] BY <2>4 DEF LookAtTarget
    <3> HIDE DEF x
    <3> QED BY <2>4, <3>1, <3>2, TaskStepNotSetting DEF LookAtTarget
  <2>5. CASE ChangeRole(t)
    <3>1. call[t].who \in Person
      BY <2>5 DEF AccessInv, Knows, ChangeRole, Caller
    <3>2. auditLog'[Pool] = auditLog[Pool]
      BY <2>5, <3>1, SubjectsDiffer DEF ChangeRole, Audited
    <3> QED BY <2>5, <3>2, EndsNotSetting DEF ChangeRole
  <2>6. CASE RoleWasChanged(t) BY <2>6, EndsNotSetting DEF RoleWasChanged
  <2>7. CASE RoleIsLocked(t) BY <2>7, GoesNotSetting DEF RoleIsLocked
  <2>8. CASE LookAgain(t) BY <2>8, GoesNotSetting, EndsNotSetting DEF LookAgain
  <2>9. ASSUME NEW p \in Person, NEW n \in 1..MaxWorkers, AskWorkers(t, p, n) PROVE WorkersInv'
    <3> DEFINE x == [IdleCall EXCEPT !.pc = "authorized", !.to = n]
    <3>1. x.pc # "setting" BY DEF IdleCall
    <3>2. call' = [call EXCEPT ![t] = x] BY <2>9 DEF AskWorkers
    <3> HIDE DEF x
    <3> QED BY <2>9, <3>1, <3>2, TaskStepNotSetting DEF AskWorkers
  <2>10. CASE \E p \in Person, n \in 1..MaxWorkers : AdjustWorkers(t, p, n)
    BY <1>0, <2>10, AdjustWorkersWorkers
  <2>11. ASSUME NEW k \in Key \cup {Nobody}, NEW f \in Fingerprint, Register(t, k, f)
         PROVE  WorkersInv'
    <3>1. CASE Keyed(k) = {}
      <4> DEFINE x == [IdleCall EXCEPT !.pc = "resolve", !.key = k, !.print = f]
      <4>1. x.pc # "setting" BY DEF IdleCall
      <4>2. call' = [call EXCEPT ![t] = x] BY <2>11, <3>1 DEF Register, Replays
      <4> HIDE DEF x
      <4> QED BY <2>11, <4>1, <4>2, TaskStepNotSetting DEF Register
    <3>2. CASE Keyed(k) # {} BY <2>11, <3>2, ReplaysNotSetting DEF Register, Replays
    <3> QED BY <3>1, <3>2
  <2>12. CASE ReadKey(t)
    <3>1. CASE Keyed(call[t].key) = {} BY <2>12, <3>1, GoesNotSetting DEF ReadKey, Replays
    <3>2. CASE Keyed(call[t].key) # {} BY <2>12, <3>2, ReplaysNotSetting DEF ReadKey, Replays
    <3> QED BY <3>1, <3>2
  <2>13. CASE Unresolved(t) BY <2>13, EndsNotSetting DEF Unresolved
  <2>14. CASE InsertLink(t)
    <3>1. PICK l \in Link : /\ Audited(l, "none", "ACTIVE")
                            /\ call' = [call EXCEPT ![t].pc = "answered", ![t].link = l]
      BY <2>14 DEF InsertLink
    <3> DEFINE x == [call[t] EXCEPT !.pc = "answered", !.link = l]
    <3>2. x.pc # "setting" /\ call' = [call EXCEPT ![t] = x]
      BY <1>0, <3>1 DEF Caller, CallRecord
    <3>3. auditLog'[Pool] = auditLog[Pool] BY <3>1, SubjectsDiffer DEF Audited
    <3> HIDE DEF x
    <3> QED BY <2>14, <3>2, <3>3, TaskStepNotSetting DEF InsertLink
  <2>15. CASE InsertCollides(t)
    <3>1. CASE Keyed(call[t].key) = {} BY <2>15, <3>1, GoesNotSetting DEF InsertCollides, Replays
    <3>2. CASE Keyed(call[t].key) # {}
      BY <2>15, <3>2, ReplaysNotSetting DEF InsertCollides, Replays
    <3> QED BY <3>1, <3>2
  <2>16. CASE Respond(t) BY <2>16, EndsNotSetting DEF Respond
  <2> QED BY <1>4, <2>1, <2>2, <2>3, <2>4, <2>5, <2>6, <2>7, <2>8, <2>9, <2>10, <2>11,
             <2>12, <2>13, <2>14, <2>15, <2>16
<1>5. ASSUME NEW t \in Operator, NEW n \in 1..MaxWorkers, OperatorAsks(t, n) PROVE WorkersInv'
  <2>1. call'[t].pc = "authorized" BY <1>0, <1>5 DEF OperatorAsks, Caller, IdleCall
  <2> QED BY <2>1 DEF NoOperator
<1>6. ASSUME NEW t \in Caller, ReadDesired(t) \/ WriteDesired(t) PROVE WorkersInv'
  <2>1. t \in Task BY <1>6 DEF Caller, NoOperator, ReadDesired, WriteDesired
  <2> QED BY <1>0, <1>6, <2>1, ReadDesiredWorkers, WriteDesiredWorkers
<1> QED BY <1>1, <1>2, <1>3, <1>4, <1>5, <1>6 DEF AccessNext
==============================================================================
