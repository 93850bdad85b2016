--------------------------- MODULE DocumentPipeline ---------------------------
(***************************************************************************)
(* A document from its upload to its answerable form: the API handlers     *)
(* UploadDocumentHandler, CloudinaryUploadWebhook and                      *)
(* DeleteDocumentHandler, the DocumentProcessor that asynq runs, the       *)
(* Cloudinary object they share and the status events of Redis.            *)
(*                                                                         *)
(* An action is what one process does between two points at which another  *)
(* process can act: one SQL statement or transaction, one call to Redis,   *)
(* Cloudinary or the model provider.  Analytics events are left out: they  *)
(* are written on a best-effort basis and nothing here reads them.         *)
(***************************************************************************)
EXTENDS DocumentStore, JobQueue

CONSTANTS NoDoc,             \* the job of an idle slot
          CompletePayloads,  \* documents whose webhook body has asset_id and secure_url
          Deliveries,        \* webhook deliveries Cloudinary may make per document
          Workers,           \* goroutines that may run ProcessTask
          Faults,            \* kinds of fault that may occur
          MaxFaults          \* bound on how many do

ASSUME PipelineAssumption ==
    /\ NoDoc \notin Docs
    /\ CompletePayloads \subseteq Docs
    /\ Faults \subseteq {"db", "redis", "panic", "timeout", "crash"}
    /\ MaxFaults \in Nat

VARIABLES
    upload,     \* progress of UploadDocumentHandler
    asset,      \* the Cloudinary object
    hook,       \* progress of each webhook delivery
    pc,         \* the next step of a slot's ProcessTask
    job,        \* the document it processes
    live,       \* its context is not done and asynq waits for its result
    made,       \* chunks its extraction produced
    outcome,    \* what ProcessTask is going to return
    announced,  \* last event published for the document
    faults,     \* faults so far
    claims,     \* history: deliveries told to process the document
    failures    \* history: executions of markDocumentFailed that reached the table

apiVars == <<upload, hook, claims>>
runVars == <<pc, job, live, made, outcome>>
vars == <<storeVars, queueVars, apiVars, runVars, asset, announced, faults, failures>>

Steps == {"idle", "get", "load", "extract", "store", "record", "announce",
          "destroy", "publishError", "markFailed", "publishFailed", "returned"}

ApiTypeOK ==
    /\ upload \in [Docs -> {"none", "stored", "done", "abandoned"}]
    /\ hook \in [Docs -> [Deliveries -> {"unsent", "claimed", "queued",
                                         "skipped", "refused", "bounced"}]]
    /\ claims \in [Docs -> Nat]

RunTypeOK ==
    /\ pc \in [Workers -> Steps]
    /\ job \in [Workers -> Docs \cup {NoDoc}]
    /\ live \in [Workers -> BOOLEAN]
    /\ made \in [Workers -> 0..MaxChunks]
    /\ outcome \in [Workers -> {"none", "ok", "retryable", "fatal"}]

OutsideTypeOK ==
    /\ asset \in [Docs -> {"none", "stored", "destroyed"}]
    /\ announced \in [Docs -> {"none", "ready", "failed"}]
    /\ faults \in 0..MaxFaults
    /\ failures \in [Docs -> Nat]

TypeOK ==
    /\ StoreTypeOK
    /\ QueueTypeOK
    /\ ApiTypeOK
    /\ RunTypeOK
    /\ OutsideTypeOK

Init ==
    /\ StoreInit
    /\ QueueInit
    /\ upload = [d \in Docs |-> "none"]
    /\ asset = [d \in Docs |-> "none"]
    /\ hook = [d \in Docs |-> [h \in Deliveries |-> "unsent"]]
    /\ pc = [w \in Workers |-> "idle"]
    /\ job = [w \in Workers |-> NoDoc]
    /\ live = [w \in Workers |-> FALSE]
    /\ made = [w \in Workers |-> 0]
    /\ outcome = [w \in Workers |-> "none"]
    /\ announced = [d \in Docs |-> "none"]
    /\ faults = 0
    /\ claims = [d \in Docs |-> 0]
    /\ failures = [d \in Docs |-> 0]

\* Faults: a failing statement ("db"), a failing Redis command ("redis"), a
\* panic in the document parser ("panic"), an attempt that outlives
\* asynq.Timeout ("timeout"), a process that dies or is stopped ("crash").
Fault(kind) ==
    /\ kind \in Faults
    /\ faults < MaxFaults
    /\ faults' = faults + 1

NoFault == UNCHANGED faults

-----------------------------------------------------------------------------
(* The API process. *)

\* cld.Upload.Upload returned; the handler goes on to SaveDocument.
UploadOriginal(d) ==
    /\ upload[d] = "none"
    /\ upload' = [upload EXCEPT ![d] = "stored"]
    /\ asset' = [asset EXCEPT ![d] = "stored"]
    /\ UNCHANGED <<storeVars, queueVars, hook, claims, runVars, announced, faults, failures>>

SaveDocument(d) ==
    /\ upload[d] = "stored"
    /\ \/ /\ InsertDocument(d)
          /\ upload' = [upload EXCEPT ![d] = "done"]
          /\ NoFault
       \/ /\ Fault("db")
          /\ upload' = [upload EXCEPT ![d] = "abandoned"]
          /\ UNCHANGED storeVars
    /\ UNCHANGED <<queueVars, hook, claims, runVars, asset, announced, failures>>

\* Slip: RowsAffected is not looked at.
ReceiveUnsaved(d, h) ==
    /\ asset[d] # "none"
    /\ hook[d][h] = "unsent"
    /\ IF ShouldProcessDocument(d) THEN MarkProcessing(d) ELSE UNCHANGED storeVars
    /\ hook' = [hook EXCEPT ![d][h] = "claimed"]
    /\ claims' = [claims EXCEPT ![d] = @ + 1]
    /\ UNCHANGED <<queueVars, upload, runVars, asset, announced, faults, failures>>

\* A delivery up to the answer of ShouldProcessDocumentWebhook.  Cloudinary
\* may send it as soon as the object exists.
ReceiveWebhook(d, h) ==
    /\ asset[d] # "none"
    /\ hook[d][h] = "unsent"
    /\ \/ /\ ShouldProcessDocument(d)
          /\ MarkProcessing(d)
          /\ hook' = [hook EXCEPT ![d][h] = "claimed"]
          /\ claims' = [claims EXCEPT ![d] = @ + 1]
          /\ NoFault
       \/ /\ ~ShouldProcessDocument(d)
          /\ hook' = [hook EXCEPT ![d][h] = "skipped"]
          /\ NoFault
          /\ UNCHANGED <<storeVars, claims>>
       \/ /\ Fault("db")
          /\ hook' = [hook EXCEPT ![d][h] = "refused"]
          /\ UNCHANGED <<storeVars, claims>>
    /\ UNCHANGED <<queueVars, upload, runVars, asset, announced, failures>>

\* The rest of the delivery.  When Enqueue fails the handler answers 500 and
\* leaves the row as ShouldProcessDocumentWebhook wrote it.
EnqueueTask(d, h) ==
    /\ hook[d][h] = "claimed"
    /\ \/ /\ TaskIDFree(d)
          /\ PushTask(d)
          /\ hook' = [hook EXCEPT ![d][h] = "queued"]
          /\ NoFault
       \/ /\ ~TaskIDFree(d)
          /\ hook' = [hook EXCEPT ![d][h] = "bounced"]
          /\ NoFault
          /\ UNCHANGED queueVars
       \/ /\ Fault("redis")
          /\ hook' = [hook EXCEPT ![d][h] = "bounced"]
          /\ UNCHANGED queueVars
    /\ UNCHANGED <<storeVars, upload, claims, runVars, asset, announced, failures>>

\* The owner deletes the document.  Neither the queue nor Cloudinary is told.
DeleteDocument(d) ==
    /\ HasRow(d)
    /\ DeleteRows(d)
    /\ UNCHANGED <<queueVars, apiVars, runVars, asset, announced, faults, failures>>

\* The API process dies with the handlers it was running.
CrashApi ==
    /\ Fault("crash")
    /\ upload' = [d \in Docs |-> IF upload[d] = "stored" THEN "abandoned" ELSE upload[d]]
    /\ hook' = [d \in Docs |-> [h \in Deliveries |->
                  IF hook[d][h] = "claimed" THEN "bounced" ELSE hook[d][h]]]
    /\ UNCHANGED <<storeVars, queueVars, claims, runVars, asset, announced, failures>>

-----------------------------------------------------------------------------
(* The worker process: ProcessTask in slot w. *)

Goto(w, step) == pc' = [pc EXCEPT ![w] = step]

Published(d, event) == announced' = [announced EXCEPT ![d] = event]

\* ProcessTask returns an error: its deferred function marks the document.
Raise(w, kind) ==
    /\ Goto(w, "markFailed")
    /\ outcome' = [outcome EXCEPT ![w] = kind]

\* A slot takes a task.  A payload without asset_id or secure_url is refused
\* before documentID is set, so the deferred function does nothing.
StartTask(w, d) ==
    /\ pc[w] = "idle"
    /\ Runnable(d)
    /\ Dequeue(d)
    /\ job' = [job EXCEPT ![w] = d]
    /\ live' = [live EXCEPT ![w] = TRUE]
    /\ \/ /\ d \in CompletePayloads
          /\ Goto(w, "get")
          /\ UNCHANGED outcome
       \/ /\ d \notin CompletePayloads
          /\ Goto(w, "returned")
          /\ outcome' = [outcome EXCEPT ![w] = "fatal"]
    /\ UNCHANGED <<storeVars, apiVars, made, asset, announced, faults, failures>>

\* GetDocumentByID and the owner: both reads use the task's context.
ReadDocument(w) ==
    /\ pc[w] = "get"
    /\ \/ /\ live[w]
          /\ HasRow(job[w])
          /\ Goto(w, "load")
          /\ NoFault
          /\ UNCHANGED outcome
       \/ /\ ~live[w] \/ ~HasRow(job[w])
          /\ Raise(w, "retryable")
          /\ NoFault
       \/ /\ live[w]
          /\ Fault("db")
          /\ Raise(w, "retryable")
    /\ UNCHANGED <<storeVars, queueVars, apiVars, job, live, made, asset, announced, failures>>

\* Slip: the original is destroyed as soon as it is downloaded.
LoadAndDestroy(w) ==
    /\ pc[w] = "load"
    /\ live[w]
    /\ asset[job[w]] = "stored"
    /\ asset' = [asset EXCEPT ![job[w]] = "destroyed"]
    /\ Goto(w, "extract")
    /\ UNCHANGED <<storeVars, queueVars, apiVars, job, live, made, outcome, announced, faults, failures>>

\* The download may fail whatever the state of the object.
LoadOriginal(w) ==
    /\ pc[w] = "load"
    /\ \/ /\ live[w]
          /\ asset[job[w]] = "stored"
          /\ Goto(w, "extract")
          /\ UNCHANGED outcome
       \/ Raise(w, "retryable")
    /\ UNCHANGED <<storeVars, queueVars, apiVars, job, live, made, asset, announced, faults, failures>>

\* Parse, the OpenAI fallback, chunking, embedding, encryption: no shared
\* state.  Unreadable text, no chunk or too many chunks skip the retries.  A
\* panic unwinds with err = nil, so the deferred function does nothing, and
\* asynq turns it into an error.
ExtractChunks(w) ==
    /\ pc[w] = "extract"
    /\ \/ /\ live[w]
          /\ \E n \in 1..MaxChunks : made' = [made EXCEPT ![w] = n]
          /\ Goto(w, "store")
          /\ NoFault
          /\ UNCHANGED outcome
       \/ /\ \E kind \in {"retryable", "fatal"} : Raise(w, kind)
          /\ NoFault
          /\ UNCHANGED made
       \/ /\ Fault("panic")
          /\ Goto(w, "returned")
          /\ outcome' = [outcome EXCEPT ![w] = "retryable"]
          /\ UNCHANGED made
    /\ UNCHANGED <<storeVars, queueVars, apiVars, job, live, asset, announced, failures>>

\* Slip: an error of CreateChunks is logged and ignored.
StoreChunksIgnoringErrors(w) ==
    /\ pc[w] = "store"
    /\ \/ CreateChunks(job[w], made[w]) /\ NoFault
       \/ Fault("db") /\ UNCHANGED storeVars
    /\ Goto(w, "record")
    /\ UNCHANGED <<queueVars, apiVars, job, live, made, outcome, asset, announced, failures>>

\* CreateChunks replaces what an earlier attempt left.
StoreChunks(w) ==
    /\ pc[w] = "store"
    /\ \/ /\ live[w]
          /\ CreateChunks(job[w], made[w])
          /\ Goto(w, "record")
          /\ NoFault
          /\ UNCHANGED outcome
       \/ /\ ~live[w]
          /\ Raise(w, "retryable")
          /\ NoFault
          /\ UNCHANGED storeVars
       \/ /\ live[w]
          /\ Fault("db")
          /\ Raise(w, "retryable")
          /\ UNCHANGED storeVars
    /\ UNCHANGED <<queueVars, apiVars, job, live, made, asset, announced, failures>>

\* When the statement fails, a "failed" event is published before the error is
\* returned; the deferred function will publish a second one.
RecordResult(w) ==
    /\ pc[w] = "record"
    /\ \/ /\ live[w]
          /\ UpdateDocumentProcessingResult(job[w], made[w])
          /\ Goto(w, "announce")
          /\ NoFault
          /\ UNCHANGED outcome
       \/ /\ \/ ~live[w] /\ NoFault
             \/ live[w] /\ Fault("db")
          /\ Goto(w, "publishError")
          /\ outcome' = [outcome EXCEPT ![w] = "retryable"]
          /\ UNCHANGED storeVars
    /\ UNCHANGED <<queueVars, apiVars, job, live, made, asset, announced, failures>>

\* With an expired context this call does not work either.
PublishError(w) ==
    /\ pc[w] = "publishError"
    /\ \/ /\ live[w]
          /\ Published(job[w], "failed")
          /\ NoFault
       \/ /\ ~live[w]
          /\ NoFault
          /\ UNCHANGED announced
       \/ /\ live[w]
          /\ Fault("redis")
          /\ UNCHANGED announced
    /\ Goto(w, "markFailed")
    /\ UNCHANGED <<storeVars, queueVars, apiVars, job, live, made, outcome, asset, failures>>

\* publishDocumentStatus logs its error and goes on.
PublishReady(w) ==
    /\ pc[w] = "announce"
    /\ \/ /\ live[w]
          /\ Published(job[w], "ready")
          /\ NoFault
       \/ /\ ~live[w]
          /\ NoFault
          /\ UNCHANGED announced
       \/ /\ live[w]
          /\ Fault("redis")
          /\ UNCHANGED announced
    /\ Goto(w, "destroy")
    /\ UNCHANGED <<storeVars, queueVars, apiVars, job, live, made, outcome, asset, failures>>

\* Slip: an error of deleteCloudinaryOriginal is returned.
DestroyOriginalStrict(w) ==
    /\ pc[w] = "destroy"
    /\ \/ /\ asset' = [asset EXCEPT ![job[w]] = "destroyed"]
          /\ Goto(w, "returned")
          /\ outcome' = [outcome EXCEPT ![w] = "ok"]
       \/ /\ Raise(w, "retryable")
          /\ UNCHANGED asset
    /\ UNCHANGED <<storeVars, queueVars, apiVars, job, live, made, announced, faults, failures>>

\* deleteCloudinaryOriginal logs its error too; ProcessTask returns nil.
DestroyOriginal(w) ==
    /\ pc[w] = "destroy"
    /\ \/ /\ live[w]
          /\ asset' = [asset EXCEPT ![job[w]] = "destroyed"]
       \/ UNCHANGED asset
    /\ Goto(w, "returned")
    /\ outcome' = [outcome EXCEPT ![w] = "ok"]
    /\ UNCHANGED <<storeVars, queueVars, apiVars, job, live, made, announced, faults, failures>>

\* Slip: markDocumentFailed returns before it publishes.
MarkFailedSilently(w) ==
    /\ pc[w] = "markFailed"
    /\ UpdateDocumentProcessingStatus(job[w])
    /\ failures' = [failures EXCEPT ![job[w]] = @ + 1]
    /\ Goto(w, "returned")
    /\ UNCHANGED <<queueVars, apiVars, job, live, made, outcome, asset, announced, faults>>

\* Slip: markDocumentFailed uses the task's context.
MarkFailedWithTaskContext(w) ==
    /\ pc[w] = "markFailed"
    /\ \/ /\ live[w]
          /\ UpdateDocumentProcessingStatus(job[w])
          /\ failures' = [failures EXCEPT ![job[w]] = @ + 1]
          /\ Goto(w, "publishFailed")
       \/ /\ ~live[w]
          /\ Goto(w, "returned")
          /\ UNCHANGED <<storeVars, failures>>
    /\ UNCHANGED <<queueVars, apiVars, job, live, made, outcome, asset, announced, faults>>

\* markDocumentFailed has a context of its own: it also works after a timeout.
MarkFailed(w) ==
    /\ pc[w] = "markFailed"
    /\ \/ /\ UpdateDocumentProcessingStatus(job[w])
          /\ failures' = [failures EXCEPT ![job[w]] = @ + 1]
          /\ Goto(w, "publishFailed")
          /\ NoFault
       \/ /\ Fault("db")
          /\ Goto(w, "returned")
          /\ UNCHANGED <<storeVars, failures>>
    /\ UNCHANGED <<queueVars, apiVars, job, live, made, outcome, asset, announced>>

PublishFailed(w) ==
    /\ pc[w] = "publishFailed"
    /\ \/ /\ Published(job[w], "failed")
          /\ NoFault
       \/ /\ Fault("redis")
          /\ UNCHANGED announced
    /\ Goto(w, "returned")
    /\ UNCHANGED <<storeVars, queueVars, apiVars, job, live, made, outcome, asset, failures>>

\* Slip: the deferred function swallows the error it has recorded.
AcknowledgeFailures(w) ==
    /\ pc[w] = "returned"
    /\ IF live[w] THEN Done(job[w]) ELSE UNCHANGED queueVars
    /\ pc' = [pc EXCEPT ![w] = "idle"]
    /\ job' = [job EXCEPT ![w] = NoDoc]
    /\ live' = [live EXCEPT ![w] = FALSE]
    /\ made' = [made EXCEPT ![w] = 0]
    /\ outcome' = [outcome EXCEPT ![w] = "none"]
    /\ UNCHANGED <<storeVars, apiVars, asset, announced, faults, failures>>

\* ProcessTask has returned: asynq settles the task, unless it has stopped
\* waiting for this run.
ReturnResult(w) ==
    /\ pc[w] = "returned"
    /\ \/ /\ live[w]
          /\ outcome[w] = "ok"
          /\ Done(job[w])
       \/ /\ live[w]
          /\ outcome[w] # "ok"
          /\ FailTask(job[w], outcome[w] = "fatal")
       \/ /\ ~live[w]
          /\ UNCHANGED queueVars
    /\ pc' = [pc EXCEPT ![w] = "idle"]
    /\ job' = [job EXCEPT ![w] = NoDoc]
    /\ live' = [live EXCEPT ![w] = FALSE]
    /\ made' = [made EXCEPT ![w] = 0]
    /\ outcome' = [outcome EXCEPT ![w] = "none"]
    /\ UNCHANGED <<storeVars, apiVars, asset, announced, faults, failures>>

-----------------------------------------------------------------------------
(* asynq and the processes it runs in. *)

\* asynq.Timeout passes: the task is failed at once, the goroutine keeps
\* running with a context whose every use fails.
TimeoutTask(w) ==
    /\ live[w]
    /\ Fault("timeout")
    /\ FailTask(job[w], FALSE)
    /\ live' = [live EXCEPT ![w] = FALSE]
    /\ UNCHANGED <<storeVars, apiVars, pc, job, made, outcome, asset, announced, failures>>

\* The worker process ends with every slot it has: it dies, or a signal makes
\* server.Run shut down, and asynq puts back the tasks it still waits for.
StopWorker ==
    /\ Fault("crash")
    /\ \/ UNCHANGED queueVars
       \/ Requeue({d \in Docs : \E w \in Workers : live[w] /\ job[w] = d})
    /\ pc' = [w \in Workers |-> "idle"]
    /\ job' = [w \in Workers |-> NoDoc]
    /\ live' = [w \in Workers |-> FALSE]
    /\ made' = [w \in Workers |-> 0]
    /\ outcome' = [w \in Workers |-> "none"]
    /\ UNCHANGED <<storeVars, apiVars, asset, announced, failures>>

\* The recoverer finds a task whose lease nobody extends.
RecoverLease(d) ==
    /\ taskState[d] = "active"
    /\ \A w \in Workers : ~(live[w] /\ job[w] = d)
    /\ FailTask(d, FALSE)
    /\ UNCHANGED <<storeVars, apiVars, runVars, asset, announced, faults, failures>>

-----------------------------------------------------------------------------
ApiStep(d) ==
    \/ UploadOriginal(d)
    \/ SaveDocument(d)
    \/ \E h \in Deliveries : ReceiveWebhook(d, h) \/ EnqueueTask(d, h)
    \/ DeleteDocument(d)

RunStep(w) ==
    \/ ReadDocument(w)
    \/ LoadOriginal(w)
    \/ ExtractChunks(w)
    \/ StoreChunks(w)
    \/ RecordResult(w)
    \/ PublishError(w)
    \/ PublishReady(w)
    \/ DestroyOriginal(w)
    \/ MarkFailed(w)
    \/ PublishFailed(w)
    \/ ReturnResult(w)

Next ==
    \/ \E d \in Docs : ApiStep(d) \/ RecoverLease(d)
    \/ \E w \in Workers, d \in Docs : StartTask(w, d)
    \/ \E w \in Workers : RunStep(w) \/ TimeoutTask(w)
    \/ CrashApi
    \/ StopWorker

Spec == Init /\ [][Next]_vars

\* A request handler that has started goes on, Cloudinary delivers what it
\* has to deliver, asynq hands out runnable tasks and expires dead leases,
\* a started ProcessTask goes on.  Nobody has to upload or to delete.
FairSpec ==
    /\ Spec
    /\ \A d \in Docs :
         /\ WF_vars(SaveDocument(d))
         /\ \A h \in Deliveries : WF_vars(ReceiveWebhook(d, h)) /\ WF_vars(EnqueueTask(d, h))
         /\ WF_vars(\E w \in Workers : StartTask(w, d))
         /\ WF_vars(RecoverLease(d))
    /\ \A w \in Workers : WF_vars(RunStep(w))

-----------------------------------------------------------------------------
(* Safety. *)

Running(d) == \E w \in Workers : job[w] = d

Settled(d) == ~Running(d) /\ taskState[d] \in {"none", "archived"}

\* A document shown as ready has chunks to answer from, whatever attempt wrote
\* them, whatever failed, expired, crashed or was delivered twice meanwhile:
\* CreateChunks precedes UpdateDocumentProcessingResult and only the
\* transaction that deletes the row takes the chunks away.
ReadyIsSearchable == \A d \in Docs : status[d] = "completed" => chunkRows[d] > 0

\* The Cloudinary original is destroyed only when its chunks are stored, or
\* when the owner has deleted the document: no attempt loses the only copy.
OriginalNotLost ==
    \A d \in Docs : asset[d] = "destroyed" => chunkRows[d] > 0 \/ status[d] = "deleted"

\* The conditional UPDATE of ShouldProcessDocumentWebhook lets one delivery
\* through, and one more per recorded failure, however deliveries interleave
\* with each other and with the worker.
ClaimsBounded == \A d \in Docs : claims[d] <= failures[d] + 1

\* No task exists for a document whose row was not saved and claimed: a
\* webhook that overtakes SaveDocument does not start work on nothing.
WorkOnlyOnSaved ==
    \A d \in Docs : taskState[d] # "none" \/ Running(d)
                       => status[d] \notin {"absent", "uploaded"}

\* chunk_count of a ready document equals its chunk rows once its task is
\* acknowledged, although CreateChunks and UpdateDocumentProcessingResult are
\* two transactions and every attempt may produce a different number.
CountAgrees ==
    \A d \in Docs : status[d] = "completed" /\ taskState[d] = "none"
                       => chunkCount[d] = chunkRows[d]

\* Once DeleteDocument has committed no step of a running attempt, of a
\* retry or of a late webhook brings the row back.
DeletedStaysDeleted ==
    [][\A d \in Docs : status[d] = "deleted" => status'[d] = "deleted"]_vars

\* With one delivery and no lost attempt, ready is final: no later step turns
\* a document that was answerable into a failed one.
ReadyIsFinal ==
    [][\A d \in Docs : status[d] = "completed"
                          => status'[d] \in {"completed", "deleted"}]_vars

\* With one delivery and no lost attempt, a failed document still has its
\* task: in work, waiting for a retry, or archived for inspection.
FailedKeepsTask == \A d \in Docs : status[d] = "failed" => taskState[d] # "none"

\* When no attempt was lost and Redis delivers, the last status event agrees
\* with the row after the last attempt: failed events of earlier attempts and
\* the double publication after RecordResult do not outlive a success.
LastEventTellsOutcome ==
    \A d \in Docs : Settled(d) =>
        /\ status[d] = "completed" => announced[d] = "ready"
        /\ status[d] = "failed" => announced[d] = "failed"

\* A row in processing always has somebody who will change it: the handler
\* about to enqueue, the task, or an attempt that still runs.
ProcessingIsOwned ==
    \A d \in Docs : status[d] = "processing" =>
        \/ \E h \in Deliveries : hook[d][h] = "claimed"
        \/ taskState[d] \in {"pending", "active", "retry"}
        \/ Running(d)

(* Liveness. *)

\* A document shown as processing is eventually ready, failed or deleted with
\* no attempt of it left: the retries end, and an attempt that asynq gave up
\* on still gets to record its failure.
ProcessingSettles ==
    \A d \in Docs :
        status[d] = "processing"
            ~> Settled(d) /\ status[d] \in {"completed", "failed", "deleted"}

(* What the documentation says and the code does not do. *)

\* The upload flow of the README: the row is created, the webhook arrives,
\* the document is marked as processing.  A saved document does not stay
\* uploaded.
UploadedIsPickedUp == \A d \in Docs : status[d] = "uploaded" ~> status[d] # "uploaded"
=============================================================================
