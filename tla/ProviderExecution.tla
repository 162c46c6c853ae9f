-------------------------- MODULE ProviderExecution --------------------------
(***************************************************************************)
(* One download job over the ranked candidates and the accounts of their   *)
(* providers (Stage25DownloadExecutor), the audit rows of its attempts     *)
(* (ProviderResolutionRepository) and the durable health of the accounts   *)
(* (ProviderAccountSelector).  Jobs run side by side and share both.       *)
(*                                                                         *)
(* The pipeline below an attempt is MediaPipeline: here it is one call     *)
(* that returns a file or one of the failure codes.                        *)
(***************************************************************************)
EXTENDS Naturals, Sequences, FiniteSets

CONSTANTS
  Download,       \* download jobs under execution
  MediaSource,         \* providers
  Account,
  HeldAt,         \* account |-> its provider
  NoAccount,      \* an attempt of an accountless provider
  Rankings,       \* what the ranker may return: sequences of providers
  MaxRecords      \* lifecycle records made for the track

ASSUME ExecutionAssumption ==
  /\ HeldAt \in [Account -> MediaSource]
  /\ NoAccount \notin Account
  /\ Rankings \subseteq Seq(MediaSource)
  /\ MaxRecords \in Nat

VARIABLES
  run,       \* job |-> its execution
  latest,    \* the newest lifecycle record of the track, 0 when it has none
  audit,     \* job |-> the attempts recorded for its present execution, in order
  health     \* account |-> its account_health row

execVars == <<run, latest, audit, health>>

AccountLocal == {"AUTH_REQUIRED", "PROVIDER_RATE_LIMITED"}
ProviderFallback == {"MEDIA_UNAVAILABLE", "NETWORK"}
NoFallback == {"TRANSCODE_FAILED", "PROVIDER_ERROR"}
FailureCodes == AccountLocal \cup ProviderFallback \cup NoFallback
Temporary == {"NETWORK", "PROVIDER_RATE_LIMITED"}
MediaCodes == {"MEDIA_UNAVAILABLE", "TRANSCODE_FAILED"}

NoRun == [pc |-> "idle", ranked |-> <<>>, at |-> 0, held |-> {}, tried |-> {},
          account |-> NoAccount, code |-> "NONE", temporary |-> FALSE]
NewHealth == [state |-> "HEALTHY", cooling |-> FALSE]

Held(p) == {a \in Account : HeldAt[a] = p}
Current(d) == run[d].ranked[run[d].at]
Set(d, r) == run' = [run EXCEPT ![d] = r]

ExecInit ==
  /\ run = [d \in Download |-> NoRun]
  /\ latest = 0
  /\ audit = [d \in Download |-> <<>>]
  /\ health = [a \in Account |-> NewHealth]

-----------------------------------------------------------------------------

(* A download of the same track is admitted, for anybody.                  *)
NewRecord ==
  /\ latest < MaxRecords
  /\ latest' = latest + 1
  /\ UNCHANGED <<run, audit, health>>

(* download() up to the loop.                                              *)
Identify(d) ==
  /\ run[d].pc = "idle"
  /\ \E ranked \in Rankings :
       LET fresh == [NoRun EXCEPT !.ranked = ranked]
       IN Set(d, IF ranked = <<>> \/ latest = 0
                 THEN [fresh EXCEPT !.pc = "raised", !.code = "NO_AVAILABLE_PROVIDER"]
                 ELSE [fresh EXCEPT !.pc = "candidate", !.at = 1])
  /\ UNCHANGED <<latest, audit, health>>

Exhausted(r) ==
  [r EXCEPT !.pc = "raised",
            !.code = IF r.temporary THEN "PROVIDER_TEMPORARY"
                     ELSE IF r.code = "NONE" THEN "NO_AVAILABLE_PROVIDER" ELSE r.code]

NextCandidate(r) ==
  IF r.at = Len(r.ranked) THEN Exhausted(r)
  ELSE [r EXCEPT !.pc = "candidate", !.at = @ + 1, !.held = {}, !.tried = {},
                 !.account = NoAccount]

(* The child lists the accounts; if it cannot, the worker sees an error it *)
(* does not expect.                                                        *)
ListAccounts(d) ==
  /\ run[d].pc = "candidate"
  /\ \/ Set(d, [run[d] EXCEPT !.pc = "choose", !.held = Held(Current(d)), !.tried = {}])
     \/ Set(d, [run[d] EXCEPT !.pc = "raised", !.code = "INTERNAL"])
  /\ UNCHANGED <<latest, audit, health>>

Usable(a) == health[a].state # "AUTH_FAILED" /\ ~health[a].cooling

(* Mutant: the accounts that were tried are not remembered.                *)
AnyHeld(d) == run[d].held

Untried(d) == run[d].held \ run[d].tried

Eligible(d) ==
  IF run[d].held = {} THEN {NoAccount} \ run[d].tried ELSE {a \in Untried(d) : Usable(a)}

ChooseAccount(d) ==
  /\ run[d].pc = "choose"
  /\ \/ \E a \in Eligible(d) :
          Set(d, [run[d] EXCEPT !.pc = "start", !.account = a, !.tried = @ \cup {a}])
     \/ Eligible(d) = {} /\ Set(d, NextCandidate(run[d]))
  /\ UNCHANGED <<latest, audit, health>>

StartAttempt(d) ==
  /\ run[d].pc = "start"
  /\ audit' = [audit EXCEPT ![d] = Append(@, [candidate |-> run[d].at,
                                              account |-> run[d].account,
                                              status |-> "STARTED"])]
  /\ Set(d, [run[d] EXCEPT !.pc = "download"])
  /\ UNCHANGED <<latest, health>>

(* The pipeline answers: OK, or a code.                                    *)
Pipeline(d) ==
  /\ run[d].pc = "download"
  /\ \E code \in FailureCodes \cup {"OK"} :
       Set(d, [run[d] EXCEPT !.pc = "finish", !.code = code,
                             !.temporary = @ \/ code \in Temporary])
  /\ UNCHANGED <<latest, audit, health>>

(* fallback_decision().  Another provider counts even when it was tried.   *)
Decision(d) ==
  LET another == \E i \in 1..Len(run[d].ranked) : run[d].ranked[i] # Current(d)
  IN IF run[d].code \in AccountLocal /\ Untried(d) # {} THEN "NEXT_ACCOUNT"
     ELSE IF run[d].code \in ProviderFallback /\ another THEN "NEXT_PROVIDER"
     ELSE "STOP"

(* Mutant: an attempt that failed without stopping the job is not closed.  *)
StatusOnlyAtTheEnd(d) ==
  IF run[d].code = "OK" THEN "SUCCEEDED"
  ELSE IF Decision(d) = "STOP" THEN "FAILED" ELSE "STARTED"

FinishStatus(d) == IF run[d].code = "OK" THEN "SUCCEEDED" ELSE "FAILED"

FinishAttempt(d) ==
  /\ run[d].pc = "finish"
  /\ audit' = [audit EXCEPT ![d][Len(audit[d])].status = FinishStatus(d)]
  /\ Set(d, [run[d] EXCEPT !.pc = "health"])
  /\ UNCHANGED <<latest, health>>

(* Mutant: any failure is recorded as a fresh row.                         *)
RecordedAfresh(h, code) ==
  CASE code = "OK" -> NewHealth
    [] code = "AUTH_REQUIRED" -> [h EXCEPT !.state = "AUTH_FAILED"]
    [] code = "PROVIDER_RATE_LIMITED" -> [state |-> "COOLDOWN", cooling |-> TRUE]
    [] code \in MediaCodes -> h
    [] OTHER -> [NewHealth EXCEPT !.state = "DEGRADED"]

(* record_success() and record_failure() over the row as it is now.        *)
Recorded(h, code) ==
  CASE code = "OK" -> NewHealth
    [] code = "AUTH_REQUIRED" -> [h EXCEPT !.state = "AUTH_FAILED"]
    [] code = "PROVIDER_RATE_LIMITED" -> [state |-> "COOLDOWN", cooling |-> TRUE]
    [] code \in MediaCodes -> h
    [] OTHER -> [h EXCEPT !.state = "DEGRADED"]

After(d) ==
  CASE run[d].code = "OK" -> [run[d] EXCEPT !.pc = "returned"]
    [] run[d].code # "OK" /\ Decision(d) = "NEXT_ACCOUNT" -> [run[d] EXCEPT !.pc = "choose", !.account = NoAccount]
    [] run[d].code # "OK" /\ Decision(d) = "NEXT_PROVIDER" -> NextCandidate(run[d])
    [] OTHER -> [run[d] EXCEPT !.pc = "raised"]

UpdateHealth(d) ==
  /\ run[d].pc = "health"
  /\ health' = IF run[d].account = NoAccount THEN health
               ELSE [health EXCEPT ![run[d].account] = Recorded(@, run[d].code)]
  /\ Set(d, After(d))
  /\ UNCHANGED <<latest, audit>>

(* The worker is cancelled, or the process dies: the row of the attempt    *)
(* under way stays STARTED for good.                                       *)
Abort(d) ==
  /\ run[d].pc \notin {"idle", "returned", "raised"}
  /\ Set(d, NoRun)
  /\ audit' = [audit EXCEPT ![d] = <<>>]
  /\ UNCHANGED <<latest, health>>

(* The queue has settled or rescheduled the job.                           *)
Settle(d) ==
  /\ run[d].pc \in {"returned", "raised"}
  /\ Set(d, NoRun)
  /\ audit' = [audit EXCEPT ![d] = <<>>]
  /\ UNCHANGED <<latest, health>>

CooledDown(a) ==
  /\ health[a].cooling
  /\ health' = [health EXCEPT ![a].cooling = FALSE]
  /\ UNCHANGED <<run, latest, audit>>

ExecNext ==
  \/ NewRecord
  \/ \E d \in Download :
       \/ Identify(d) \/ ListAccounts(d) \/ ChooseAccount(d) \/ StartAttempt(d)
       \/ Pipeline(d) \/ FinishAttempt(d) \/ UpdateHealth(d) \/ Abort(d) \/ Settle(d)
  \/ \E a \in Account : CooledDown(a)

-----------------------------------------------------------------------------

ExecTypeOK ==
  /\ \A d \in Download :
       /\ run[d].ranked \in Seq(MediaSource) /\ run[d].at \in 0..Len(run[d].ranked)
       /\ run[d].held \subseteq Account /\ run[d].tried \subseteq Account \cup {NoAccount}
       /\ \A i \in 1..Len(audit[d]) :
            audit[d][i].status \in {"STARTED", "SUCCEEDED", "FAILED"}
  /\ latest \in 0..MaxRecords
  /\ \A a \in Account :
       /\ health[a].state \in {"HEALTHY", "DEGRADED", "COOLDOWN", "AUTH_FAILED"}
       /\ health[a].cooling \in BOOLEAN

(* The audit of a job that was not interrupted is complete: a job that     *)
(* returned a file has one successful attempt, the last, one that raised   *)
(* has only failed ones, and a job under way has at most the attempt it is *)
(* in open.                                                                *)
AuditIsComplete ==
  \A d \in Download :
    LET rows == audit[d]
        Rows(status) == {i \in 1..Len(rows) : rows[i].status = status}
    IN /\ run[d].pc = "returned" => Rows("SUCCEEDED") = {Len(rows)} /\ Rows("STARTED") = {}
       /\ run[d].pc = "raised" => Rows("FAILED") = 1..Len(rows)
       /\ run[d].pc \in {"download", "finish"} => Rows("STARTED") = {Len(rows)}
       /\ run[d].pc \in {"candidate", "choose", "start"} => Rows("STARTED") = {}

(* An account answers for a candidate once: a job that goes to the next    *)
(* account never comes back to one that has failed on this candidate.      *)
AccountTriedOnce ==
  \A d \in Download : \A i, j \in 1..Len(audit[d]) :
    i # j => ~ /\ audit[d][i].candidate = audit[d][j].candidate
               /\ audit[d][i].account = audit[d][j].account

KeepsCooldown ==
  \A a \in Account :
    health[a].cooling /\ ~health'[a].cooling => CooledDown(a) \/ health'[a].state = "HEALTHY"

(* A rate-limited account rests until its cooldown is over: only time or a *)
(* download that succeeded on it ends the rest, whatever the jobs that had *)
(* chosen it before record about it.                                       *)
CooldownIsKept == [][KeepsCooldown]_execVars

(* docs/stage25-provider-resolution.md: an account that failed to          *)
(* authenticate stays so until the provider is authenticated again, which  *)
(* no job does.                                                            *)
AuthFailedStays ==
  [][\A a \in Account :
       health[a].state = "AUTH_FAILED" => health'[a].state = "AUTH_FAILED"]_execVars
=============================================================================
