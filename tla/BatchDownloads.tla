---------------------------- MODULE BatchDownloads ----------------------------
(***************************************************************************)
(* Album and playlist downloads (BatchDownloadService and its repository)  *)
(* over the admission of single tracks.  A batch is a snapshot of items;   *)
(* admit_pending is a loop in a handler task that claims an item, submits  *)
(* it as DownloadAdmission does and records how that went.  Every          *)
(* transaction is a step, so the loop, the Cancel button, the Retry button *)
(* and a second loop over the same batch interleave; a restart loses the   *)
(* loops and reconciles the open batches before any handler runs.          *)
(*                                                                         *)
(* One user.  The confirmation of an item is its batch's with the position *)
(* appended, so ChildOf names them.  Confirmation dialogs have messages of *)
(* their own and are left to DownloadAdmission.                            *)
(***************************************************************************)
EXTENDS DownloadAdmission, Sequences

CONSTANTS
  Batch,          \* batches; a retry batch has a parent
  ParentOf,       \* batch |-> the batch it retries, or NoOne
  ChildOf,        \* batch |-> the confirmations its items may use, in order
  SourceOf,       \* batch |-> the message its button was pressed on
  CardSent,       \* batch |-> the message that shows its progress
  FirstMessage,   \* message id 1, used after a restart when no card is known
  MaxActive,      \* max_active_batches_per_user
  MaxRestarts     \* bound on restarts

\* The confirmation of an item is made of its batch and its position.
ASSUME BatchAssumption ==
  /\ IsFiniteSet(Batch) /\ NoOne \notin Batch
  /\ ParentOf \in [Batch -> Batch \cup {NoOne}]
  /\ ChildOf \in [Batch -> Seq(Confirmation)]
  /\ \A b \in Batch : ChildOf[b] # <<>>
  /\ \A b, d \in Batch : \A i \in DOMAIN ChildOf[b], j \in DOMAIN ChildOf[d] :
       ChildOf[b][i] = ChildOf[d][j] => b = d /\ i = j
  /\ SourceOf \in [Batch -> Message] /\ CardSent \in [Batch -> Message]
  /\ FirstMessage \in Message

VARIABLES
  batch,      \* batch |-> its row
  item,       \* confirmation |-> its batch_download_items row
  batchLoop,       \* submitter |-> the admit_pending call it runs
  cancelling, \* batch |-> what the handler of its Cancel button has to do
  booting,    \* batches that reconcile_all has still to look at
  restarts

batchVars == <<admissionVars, batch, item, batchLoop, cancelling, booting, restarts>>

Closed == {"COMPLETED", "PARTIAL", "FAILED", "CANCELLED"}
NoBatch == [status |-> "NONE", cancel |-> FALSE, parent |-> NoOne, size |-> 0]
NoItem == [status |-> "NONE", track |-> NoOne, link |-> NoOne, code |-> "none"]
NoLoop == [batch |-> NoOne, todo |-> <<>>, msg |-> NoOne, boot |-> FALSE]
NoCancel == [pc |-> "idle", jobs |-> {}]

(* Handlers and workers run once reconcile_all is over.                    *)
Up == booting = <<>> /\ \A s \in Submitter : ~batchLoop[s].boot

ItemsOf(b) == {ChildOf[b][i] : i \in 1 .. batch[b].size}
Pending(b) == {c \in ItemsOf(b) : item[c].status = "PENDING"}
Orphans(b) == {c \in ItemsOf(b) : item[c].status = "ADMITTED" /\ item[c].link = NoOne}

BatchInit ==
  /\ AdmissionInit
  /\ batch = [b \in Batch |-> NoBatch]
  /\ item = [c \in Confirmation |-> NoItem]
  /\ batchLoop = [s \in Submitter |-> NoLoop]
  /\ cancelling = [b \in Batch |-> NoCancel]
  /\ booting = <<>>
  /\ restarts = 0

-----------------------------------------------------------------------------
(* Snapshots.                                                              *)

NewItem(tr) == [NoItem EXCEPT !.status = "PENDING", !.track = tr]

Snapshot(b, tracks) ==
  /\ Len(tracks) <= Len(ChildOf[b])    \* bound
  /\ batch' = [batch EXCEPT ![b] = [NoBatch EXCEPT !.status = "ACTIVE",
                                                   !.size = Len(tracks)]]
  /\ item' = [c \in Confirmation |->
                IF \E i \in DOMAIN tracks : ChildOf[b][i] = c
                THEN NewItem(tracks[CHOOSE i \in DOMAIN tracks : ChildOf[b][i] = c])
                ELSE item[c]]

ActiveBatches == {b \in Batch : batch[b].status = "ACTIVE"}

(* create_from_collection: a lock per user around one transaction.         *)
CreateBatch(b) ==
  /\ Up
  /\ batch[b].status = "NONE" /\ ParentOf[b] = NoOne
  /\ Cardinality(ActiveBatches) < MaxActive
  /\ \E tracks \in [1 .. Len(ChildOf[b]) -> Title] : Snapshot(b, tracks)
  /\ UNCHANGED <<admissionVars, batchLoop, cancelling, booting, restarts>>

(* retry_failed: the failed items whose error may pass, in a new batch     *)
(* that is not counted against the limit.                                  *)
ItemFailedFor(c, code) ==
  IF item[c].link # NoOne
  THEN life[item[c].link].status = "FAILED"
  ELSE item[c].status = "FAILED" /\ item[c].code = code

(* The items that are taken again keep the order of their batch.           *)
Ascending(again, order) ==
  \A i, j \in DOMAIN again : i < j =>
    \E k, l \in DOMAIN order : k < l /\ order[k] = again[i] /\ order[l] = again[j]

RetryFailed(r) ==
  LET b == ParentOf[r]
      failed == {c \in ItemsOf(b) : ItemFailedFor(c, "passing")}
  IN /\ Up
     /\ b # NoOne /\ batch[r].status = "NONE"
     /\ batch[b].status \in Closed
     /\ \E n \in 1 .. batch[b].size : \E again \in [1 .. n -> failed] :
          /\ Ascending(again, ChildOf[b])
          /\ \A c \in failed : item[c].link = NoOne => \E i \in 1 .. n : again[i] = c
          /\ Snapshot(r, [i \in 1 .. n |-> item[again[i]].track])
     /\ UNCHANGED <<admissionVars, batchLoop, cancelling, booting, restarts>>

-----------------------------------------------------------------------------
(* admit_pending.                                                          *)

LoopOver(s, b, m, boot) ==
  batchLoop' = [batchLoop EXCEPT ![s] = [batch |-> b, todo |-> SubSeq(ChildOf[b], 1, batch[b].size),
                               msg |-> m, boot |-> boot]]

(* A button, or the message with the link: the whole loop is that handler. *)
StartLoop(s, b) ==
  /\ Up
  /\ batchLoop[s] = NoLoop /\ sub[s] = NoSub
  /\ batch[b].status = "ACTIVE"
  /\ LoopOver(s, b, SourceOf[b], FALSE)
  /\ UNCHANGED <<admissionVars, batch, item, cancelling, booting, restarts>>

CurrentItem(s) == Head(batchLoop[s].todo)
NextItem(s) == batchLoop' = [batchLoop EXCEPT ![s].todo = Tail(@)]

SetItem(c, row) == item' = [item EXCEPT ![c] = row]

Claimable(b, c) ==
  item[c].status = "PENDING" /\ item[c].link = NoOne /\ ~batch[b].cancel

ClaimItem(s) ==
  /\ batchLoop[s].todo # <<>> /\ sub[s] = NoSub
  /\ LET c == CurrentItem(s)
     IN IF Claimable(batchLoop[s].batch, c)
        THEN /\ SetItem(c, [item[c] EXCEPT !.status = "ADMITTED"])
             /\ sub' = [sub EXCEPT ![s] = [NoSub EXCEPT !.pc = "resolve", !.conf = c,
                                             !.msg = batchLoop[s].msg, !.track = item[c].track,
                                             !.quality = TRUE]]
             /\ UNCHANGED batchLoop
        ELSE NextItem(s) /\ UNCHANGED <<item, sub>>
  /\ UNCHANGED <<life, offer, request, courier, preferred, batch, cancelling, booting, restarts>>

(* The exception is caught; its code decides whether a retry may take the  *)
(* item again.                                                             *)
ItemFails(s) ==
  /\ batchLoop[s].todo # <<>> /\ sub[s].pc = "failed"
  /\ \E code \in {"passing", "lasting"} :
       SetItem(CurrentItem(s), [item[CurrentItem(s)] EXCEPT !.status = "FAILED", !.code = code])
  /\ sub' = [sub EXCEPT ![s] = NoSub]
  /\ NextItem(s)
  /\ UNCHANGED <<life, offer, request, courier, preferred, batch, cancelling, booting, restarts>>

(* The record is looked up by the delivery request; download_request_id is *)
(* UNIQUE, and a collision here leaves admit_pending with an exception.    *)
FoundRecord(m) == IF Linked(m) = {} THEN NoOne ELSE CHOOSE c \in Linked(m) : TRUE

ItemAdmitted(s) ==
  LET c == CurrentItem(s)
      link == FoundRecord(sub[s].msg)
  IN /\ batchLoop[s].todo # <<>> /\ sub[s].pc = "done"
     /\ IF link # NoOne /\ \E d \in Confirmation \ {c} : item[d].link = link
        THEN /\ batchLoop' = [batchLoop EXCEPT ![s] = NoLoop]
             /\ UNCHANGED item
        ELSE /\ SetItem(c, [item[c] EXCEPT !.status = "ADMITTED", !.code = "none",
                                           !.link = IF link = NoOne THEN @ ELSE link])
             /\ NextItem(s)
     /\ sub' = [sub EXCEPT ![s] = NoSub]
     /\ UNCHANGED <<life, offer, request, courier, preferred, batch, cancelling, booting, restarts>>

(* The loop is over; most handlers then record the message that shows the  *)
(* progress, once.                                                         *)
EndLoop(s) ==
  LET b == batchLoop[s].batch
  IN /\ b # NoOne /\ batchLoop[s].todo = <<>>
     /\ \/ UNCHANGED batch
        \/ /\ batch[b].parent = NoOne /\ ~batchLoop[s].boot
           /\ batch' = [batch EXCEPT ![b].parent = CardSent[b]]
     /\ batchLoop' = [batchLoop EXCEPT ![s] = NoLoop]
     /\ UNCHANGED <<admissionVars, item, cancelling, booting, restarts>>

-----------------------------------------------------------------------------
(* cancel and reconcile.                                                   *)

Skipped(rows, skip) ==
  [c \in Confirmation |->
     IF c \in skip THEN [rows[c] EXCEPT !.status = "SKIPPED", !.code = "lasting"] ELSE rows[c]]

(* cancel(): the request, the pending items and the list of items in one   *)
(* transaction, then one transaction for the job of every linked item, and *)
(* then the handler reconciles the batch; nothing else does that while the *)
(* program runs.                                                           *)
CancelBatch(b) ==
  /\ Up
  /\ batch[b].status = "ACTIVE" /\ ~batch[b].cancel
  /\ batch' = [batch EXCEPT ![b].cancel = TRUE]
  /\ item' = Skipped(item, Pending(b))
  /\ cancelling' = [cancelling EXCEPT ![b] =
                      [pc |-> "jobs", jobs |-> {item[c].link : c \in ItemsOf(b)} \ {NoOne}]]
  /\ UNCHANGED <<admissionVars, batchLoop, booting, restarts>>

CancelChild(b, c) ==
  /\ cancelling[b].pc = "jobs" /\ c \in cancelling[b].jobs
  /\ life' = [life EXCEPT ![c] = CancelRow(@)]
  /\ cancelling' = [cancelling EXCEPT ![b].jobs = @ \ {c}]
  /\ UNCHANGED <<offer, request, sub, courier, preferred, batch, item, batchLoop, booting, restarts>>

(* reconcile, one transaction: orphaned admissions go back to PENDING, a   *)
(* cancelled batch skips them, ended jobs are copied into their items, and *)
(* a batch with nothing under way is closed.                               *)
Recovered(b) ==
  [c \in Confirmation |->
     IF c \in Orphans(b) THEN [item[c] EXCEPT !.status = "PENDING"] ELSE item[c]]

CopiedJob(row) ==
  IF row.link = NoOne THEN row
  ELSE CASE life[row.link].status = "FAILED" -> [row EXCEPT !.status = "FAILED", !.code = "passing"]
         [] life[row.link].status = "CANCELLED" -> [row EXCEPT !.status = "SKIPPED", !.code = "lasting"]
         [] OTHER -> row

ReconciledItems(b) ==
  LET rows == Recovered(b)
      open == {c \in ItemsOf(b) : rows[c].status = "PENDING"}
      skipped == IF batch[b].cancel THEN Skipped(rows, open) ELSE rows
  IN [c \in Confirmation |-> IF c \in ItemsOf(b) THEN CopiedJob(skipped[c]) ELSE item[c]]

(* counts(): the linked job's status, or else the item's own.              *)
Counted(row) == IF row.link = NoOne THEN row.status ELSE life[row.link].status

(* Mutant: a child that waits for a worker counts as over.                 *)
UnfinishedButQueued == {"PENDING", "ADMITTED", "RUNNING", "RETRY_WAIT", "DELIVERING"}

Unfinished == {"PENDING", "ADMITTED", "QUEUED", "RUNNING", "RETRY_WAIT", "DELIVERING"}

Aggregate(b, rows) ==
  LET good == {c \in ItemsOf(b) : Counted(rows[c]) = "SUCCEEDED"}
  IN IF \E c \in ItemsOf(b) : Counted(rows[c]) \in Unfinished THEN batch[b].status
     ELSE IF batch[b].cancel THEN "CANCELLED"
     ELSE IF good = ItemsOf(b) THEN "COMPLETED"
     ELSE IF good # {} THEN "PARTIAL"
     ELSE "FAILED"

MarkStatus(b, status) ==
  batch' = IF batch[b].status \in Closed THEN batch ELSE [batch EXCEPT ![b].status = status]

Reconcile(b) ==
  LET rows == ReconciledItems(b)
  IN item' = rows /\ MarkStatus(b, Aggregate(b, rows))

ReconcileCancelled(b) ==
  /\ cancelling[b].pc = "jobs" /\ cancelling[b].jobs = {}
  /\ Reconcile(b)
  /\ cancelling' = [cancelling EXCEPT ![b] = NoCancel]
  /\ UNCHANGED <<admissionVars, batchLoop, booting, restarts>>

-----------------------------------------------------------------------------
(* Restart.  reconcile_all runs before the workers and the handlers start. *)

InSomeOrder(set) ==
  {q \in [1 .. Cardinality(set) -> set] : \A b \in set : \E i \in DOMAIN q : q[i] = b}

BatchRestart ==
  /\ restarts < MaxRestarts
  /\ restarts' = restarts + 1
  /\ LoseTasks
  /\ batchLoop' = [s \in Submitter |-> NoLoop]
  /\ cancelling' = [b \in Batch |-> NoCancel]
  /\ booting' \in InSomeOrder(ActiveBatches)
  /\ UNCHANGED <<life, request, preferred, batch, item>>

ResumeTarget(b) == IF batch[b].parent = NoOne THEN FirstMessage ELSE batch[b].parent

(* reconcile, then admit_pending unless the batch is cancelled or closed.  *)
BootReconcile(b) ==
  /\ booting # <<>> /\ Head(booting) = b
  /\ \A s \in Submitter : batchLoop[s] = NoLoop
  /\ Reconcile(b)
  /\ \E s \in Submitter :
       IF batch'[b].status = "ACTIVE" /\ ~batch[b].cancel
       THEN LoopOver(s, b, ResumeTarget(b), TRUE)
       ELSE UNCHANGED batchLoop
  /\ booting' = Tail(booting)
  /\ UNCHANGED <<admissionVars, cancelling, restarts>>

Around == UNCHANGED <<batch, item, batchLoop, cancelling, booting, restarts>>

BatchNext ==
  \/ \E b \in Batch : \/ CreateBatch(b) \/ RetryFailed(b)
                      \/ CancelBatch(b) \/ ReconcileCancelled(b)
                      \/ \E c \in Confirmation : CancelChild(b, c)
                      \/ BootReconcile(b)
  \/ \E s \in Submitter : \/ \E b \in Batch : StartLoop(s, b)
                          \/ ClaimItem(s) \/ ItemFails(s) \/ ItemAdmitted(s) \/ EndLoop(s)
                          \/ Submit(s) /\ Around
  \/ \E w \in Courier : Up /\ Deliver(w) /\ Around
  \/ \E m \in Message : \/ Up /\ Press(m) /\ Around
                        \/ RequestLeaseExpires(m) /\ Around
  \/ BatchRestart

BatchSpec == BatchInit /\ [][BatchNext]_batchVars

-----------------------------------------------------------------------------
(* Properties.                                                             *)

BatchTypeOK ==
  /\ AdmissionTypeOK
  /\ batch \in [Batch -> [status : {"NONE", "ACTIVE"} \cup Closed, cancel : BOOLEAN,
                          parent : Message \cup {NoOne}, size : Nat]]
  /\ \A c \in Confirmation :
       item[c] \in [status : {"NONE", "PENDING", "ADMITTED", "SKIPPED", "FAILED"},
                    track : Title \cup {NoOne}, link : Confirmation \cup {NoOne},
                    code : {"none", "passing", "lasting"}]

EndedItem == {"SUCCEEDED", "FAILED", "CANCELLED", "SKIPPED"}

(* A closed batch has nothing under way, whatever admissions, workers and  *)
(* reconciliations were interleaved before: COMPLETED means every child    *)
(* was delivered, PARTIAL that one was and one was not, FAILED that none   *)
(* was (docs/stage23-batch-downloads.md, Terminal semantics).  What a      *)
(* cancelled batch may still have under way is ChildrenEndWithTheirBatch.  *)
ClosedBatchIsOver ==
  \A b \in Batch :
    LET ended == {Counted(item[c]) : c \in ItemsOf(b)}
    IN /\ batch[b].status \in {"COMPLETED", "PARTIAL", "FAILED"} => ended \subseteq EndedItem
       /\ batch[b].status = "COMPLETED" => ended = {"SUCCEEDED"}
       /\ batch[b].status = "PARTIAL" => "SUCCEEDED" \in ended /\ ended # {"SUCCEEDED"}
       /\ batch[b].status = "FAILED" => "SUCCEEDED" \notin ended

(* Each admitted item is handed to a delivery request of its own (stage 23 *)
(* document): no submission works on a request that names another track.   *)
ChildHasItsRequest ==
  \A s \in Submitter :
    sub[s].quality /\ sub[s].pc \in {"card", "first", "open", "choose", "record"}
      => request[sub[s].msg].track = sub[s].track

(* The aggregate becomes CANCELLED only after active children ended.       *)
ChildrenEndWithTheirBatch ==
  \A b \in Batch :
    batch[b].status = "CANCELLED" => \A c \in ItemsOf(b) : Counted(item[c]) \in EndedItem
=============================================================================
