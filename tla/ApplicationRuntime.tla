-------------------------- MODULE ApplicationRuntime --------------------------
(***************************************************************************)
(* A process of the application from its lock to its exit: run_bot in      *)
(* main.py with the instance lock, Stage9Components.start and .stop of     *)
(* composition.py, the supervision of the top-level services, the signals, *)
(* and the offline maintenance commands that take the same lock.           *)
(*                                                                         *)
(* What a component does is in the other modules; here it is started, it   *)
(* may end by itself, and its stop is called and returns.                  *)
(***************************************************************************)
EXTENDS Integers, Sequences

CONSTANT
  Process       \* processes on the host

VARIABLES
  lock,         \* the holder of the advisory lock
  proc,         \* process |-> where it is
  up,           \* process |-> services at work
  stopped,      \* process |-> components whose stop ran to its end
  ready         \* process |-> what the readiness endpoint says

runtimeVars == <<lock, proc, up, stopped, ready>>

Free == "free"

ASSUME RuntimeAssumption == Free \notin Process

(* api: whether the settings of this run configure the internal API.       *)
NoProcess == [pc |-> "out", step |-> 0, built |-> FALSE, recovered |-> FALSE,
              waiter |-> "none", cancelled |-> FALSE, api |-> FALSE]

(* Stage9Components.start(): crash recovery with what follows it in the    *)
(* database, the sweep, and then everything that works.                    *)
StartOrder == <<"recovery", "sweep", "accounts", "queue", "fanout", "album", "cleanup">>

(* Mutant: the pools start while the database is still being recovered.    *)
PoolsFirst == <<"queue", "recovery", "sweep", "accounts", "fanout", "album", "cleanup">>

Starting == StartOrder

(* Stage9Components.stop()                                                 *)
StopOrder == <<"cleanup", "album", "fanout", "queue", "ui", "authorization", "provider",
               "gateway">>
Workers == {"queue", "fanout", "album", "cleanup"}

RuntimeInit ==
  /\ lock = Free
  /\ proc = [p \in Process |-> NoProcess]
  /\ up = [p \in Process |-> {}]
  /\ stopped = [p \in Process |-> {}]
  /\ ready = [p \in Process |-> FALSE]

At(p, pc) == proc[p].pc = pc
Goto(p, pc) == proc' = [proc EXCEPT ![p].pc = pc, ![p].step = 1]

-----------------------------------------------------------------------------
(* Start.                                                                  *)

(* ApplicationInstanceLock.acquire(): a second process exits at once.      *)
TakeLock(p) ==
  /\ At(p, "out")
  /\ lock = Free
  /\ lock' = p
  /\ \/ \E api \in BOOLEAN :
          proc' = [proc EXCEPT ![p] = [NoProcess EXCEPT !.pc = "opening", !.api = api]]
     \/ proc' = [proc EXCEPT ![p] = [NoProcess EXCEPT !.pc = "tool"]]
  /\ UNCHANGED <<up, stopped, ready>>

(* The maintenance commands recover or sweep, and release the lock.        *)
ToolEnds(p) ==
  /\ At(p, "tool")
  /\ lock' = Free
  /\ proc' = [proc EXCEPT ![p] = NoProcess]
  /\ UNCHANGED <<up, stopped, ready>>

(* Schema check, owner bootstrap and compose_stage9(), or a failure of any *)
(* of them.                                                                *)
Compose(p) ==
  /\ At(p, "opening")
  /\ \/ /\ proc' = [proc EXCEPT ![p].pc = "starting", ![p].step = 1, ![p].built = TRUE]
        /\ up' = [up EXCEPT ![p] = {"provider", "gateway"}]
     \/ /\ Goto(p, "closing")
        /\ up' \in {up, [up EXCEPT ![p] = {"provider", "gateway"}]}
  /\ UNCHANGED <<lock, stopped, ready>>

StartNext(p) ==
  /\ At(p, "starting")
  /\ LET i == proc[p].step
         last == i = Len(Starting)
     IN /\ up' = [up EXCEPT ![p] = @ \cup ({Starting[i]} \cap Workers)]
        /\ proc' = [proc EXCEPT
                      ![p].pc = IF last THEN "started" ELSE "starting",
                      ![p].step = IF last THEN 1 ELSE i + 1,
                      ![p].recovered = @ \/ Starting[i] = "sweep",
                      ![p].waiter = IF last THEN "new" ELSE "none"]
  /\ UNCHANGED <<lock, stopped, ready>>

(* A start that fails or is cancelled stops everything itself first.       *)
StartFails(p) ==
  /\ At(p, "starting")
  /\ Goto(p, "unwinding")
  /\ UNCHANGED <<lock, up, stopped, ready>>

(* The API listens (an await: the supervising task now waits for the       *)
(* watchdog), or it does not come up.                                      *)
StartApi(p) ==
  /\ At(p, "started")
  /\ \/ /\ proc[p].api
        /\ \/ /\ up' = [up EXCEPT ![p] = @ \cup {"api"}]
              /\ proc' = [proc EXCEPT ![p].pc = "polling", ![p].waiter = "waits"]
           \/ /\ proc' = [proc EXCEPT ![p].pc = "closing", ![p].step = 1,
                                      ![p].waiter = "waits"]
              /\ UNCHANGED up
     \/ /\ ~proc[p].api
        /\ proc' = [proc EXCEPT ![p].pc = "polling"]
        /\ UNCHANGED up
  /\ UNCHANGED <<lock, stopped, ready>>

StartPolling(p) ==
  /\ At(p, "polling")
  /\ proc' = [proc EXCEPT ![p].pc = "serving", ![p].waiter = "waits"]
  /\ up' = [up EXCEPT ![p] = @ \cup {"polling"}]
  /\ ready' = [ready EXCEPT ![p] = TRUE]
  /\ UNCHANGED <<lock, stopped>>

-----------------------------------------------------------------------------
(* The end.                                                                *)

(* A critical service ends by itself.                                      *)
Dies(p) ==
  /\ At(p, "serving")
  /\ \E x \in {"polling", "api", "cleanup"} \cap up[p] : up' = [up EXCEPT ![p] = @ \ {x}]
  /\ UNCHANGED <<lock, proc, stopped, ready>>

(* Mutant: readiness is taken back when everything was stopped.            *)
ReadyUntilGone(p) == UNCHANGED ready

NotReady(p) == ready' = [ready EXCEPT ![p] = FALSE]

(* FIRST_COMPLETED, or the signal that cancels run_bot wherever it waits.  *)
LeavePolling(p) ==
  /\ \/ At(p, "serving") /\ ~({"polling", "cleanup"} \subseteq up[p]
                              /\ (proc[p].api => "api" \in up[p]))
     \/ proc[p].pc \in {"opening", "started", "polling", "serving"}
  /\ Goto(p, "closing")
  /\ NotReady(p)
  /\ UNCHANGED <<lock, up, stopped>>

(* finally: polling and the supervising tasks are cancelled, and the       *)
(* cancellation of the one that waits for the watchdog reaches the         *)
(* watchdog itself; then the API is stopped.                               *)
CloseServices(p) ==
  /\ At(p, "closing")
  /\ LET reached == proc[p].waiter = "waits" /\ "cleanup" \in up[p]
     IN /\ up' = [up EXCEPT ![p] = @ \ ({"polling", "api"} \cup
                                        (IF reached THEN {"cleanup"} ELSE {}))]
        /\ proc' = [proc EXCEPT ![p].pc = IF proc[p].built THEN "stopping" ELSE "clients",
                                ![p].step = 1, ![p].cancelled = reached]
  /\ UNCHANGED <<lock, stopped, ready>>

(* One operation of Stage9Components.stop(), in start() or in run_bot.     *)
(* An exception is noted and the next operation called, but the watchdog's *)
(* CancelledError is none: nothing catches it up to asyncio.run().         *)
StopNext(p) ==
  /\ proc[p].pc \in {"stopping", "unwinding"}
  /\ LET x == StopOrder[proc[p].step]
         last == proc[p].step = Len(StopOrder)
     IN IF x = "cleanup" /\ proc[p].cancelled
        THEN /\ proc' = [proc EXCEPT ![p].pc = "abandoned"]
             /\ UNCHANGED <<up, stopped>>
        ELSE /\ up' = [up EXCEPT ![p] = @ \ {x}]
             /\ stopped' = [stopped EXCEPT ![p] = @ \cup {x}]
             /\ proc' = [proc EXCEPT
                           ![p].pc = CASE ~last -> @
                                       [] last /\ @ = "unwinding" -> "closing"
                                       [] OTHER -> "leaving",
                           ![p].step = IF last THEN 1 ELSE @ + 1]
  /\ UNCHANGED <<lock, ready>>

(* Without components, provider and gateway are closed one by one.         *)
CloseClients(p) ==
  /\ At(p, "clients")
  /\ stopped' = [stopped EXCEPT ![p] = @ \cup up[p]]
  /\ up' = [up EXCEPT ![p] = {}]
  /\ Goto(p, "leaving")
  /\ UNCHANGED <<lock, ready>>

(* Mutant: the lock is given back before the components are stopped.       *)
ReleaseEarly(p) == At(p, "stopping")

MayRelease(p) == At(p, "leaving")

(* database.dispose() and instance_lock.release().                         *)
ReleaseLock(p) ==
  /\ lock = p
  /\ MayRelease(p)
  /\ lock' = Free
  /\ UNCHANGED <<proc, up, stopped, ready>>

(* asyncio.run() cancels the tasks that are left.                          *)
Exit(p) ==
  /\ \/ At(p, "leaving") /\ lock # p
     \/ At(p, "abandoned")
  /\ lock' = IF lock = p THEN Free ELSE lock
  /\ proc' = [proc EXCEPT ![p] = NoProcess]
  /\ up' = [up EXCEPT ![p] = {}]
  /\ stopped' = [stopped EXCEPT ![p] = {}]
  /\ UNCHANGED ready

(* SIGKILL: the system drops the lock with the process.                    *)
Kill(p) ==
  /\ ~At(p, "out")
  /\ lock' = IF lock = p THEN Free ELSE lock
  /\ proc' = [proc EXCEPT ![p] = NoProcess]
  /\ up' = [up EXCEPT ![p] = {}]
  /\ stopped' = [stopped EXCEPT ![p] = {}]
  /\ ready' = [ready EXCEPT ![p] = FALSE]

RuntimeNext ==
  \E p \in Process :
    \/ TakeLock(p) \/ ToolEnds(p) \/ Compose(p) \/ StartNext(p) \/ StartFails(p)
    \/ StartApi(p) \/ StartPolling(p) \/ Dies(p) \/ LeavePolling(p) \/ CloseServices(p)
    \/ StopNext(p) \/ CloseClients(p) \/ ReleaseLock(p) \/ Exit(p) \/ Kill(p)

RuntimeSpec == RuntimeInit /\ [][RuntimeNext]_runtimeVars

-----------------------------------------------------------------------------

RuntimeTypeOK ==
  /\ lock \in Process \cup {Free}
  /\ \A p \in Process :
       /\ proc[p].pc \in {"out", "tool", "opening", "starting", "unwinding", "started",
                          "polling", "serving", "closing", "stopping", "clients",
                          "leaving", "abandoned"}
       /\ proc[p].step \in 0..Len(StopOrder)
       /\ up[p] \subseteq Workers \cup {"provider", "gateway", "api", "polling"}
       /\ ready[p] \in BOOLEAN

(* Two processes never work over one database, whatever order the first    *)
(* one's shutdown, its death and the start of the second come in; the      *)
(* offline tool counts as one.                                             *)
AtWork(p) == up[p] # {} \/ proc[p].pc \in {"tool", "starting"}
OneInstanceRuns ==
  \A p, q \in Process : AtWork(p) /\ AtWork(q) => p = q

(* Nothing claims work before the database was recovered and the stale     *)
(* artifacts swept, and the process only says that it is ready while its   *)
(* workers are up.                                                         *)
WorkIsRecovered ==
  \A p \in Process :
    /\ up[p] \cap Workers # {} => proc[p].recovered
    /\ ready[p] => {"queue", "fanout", "album"} \subseteq up[p]

(* docs/production.md: SIGTERM and the end of a critical service run the   *)
(* bounded shutdown of the workers and close the child and Telegram.       *)
ShutdownStopsAll ==
  \A p \in Process : At(p, "abandoned") \/ (At(p, "leaving") /\ proc[p].built) =>
    \A i \in 1..Len(StopOrder) : StopOrder[i] \in stopped[p]
=============================================================================
