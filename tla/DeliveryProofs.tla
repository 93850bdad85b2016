---------------------------- MODULE DeliveryProofs ----------------------------
(***************************************************************************)
(* What the attempts of one document add up to.  The first part holds of   *)
(* every behaviour of the pipeline.  The second part assumes what          *)
(* DocumentPipeline's ReadyIsFinal and its neighbours need: Cloudinary     *)
(* delivers a webhook once and no attempt is lost.  In the third attempts  *)
(* may time out, and nothing else goes wrong.                              *)
(***************************************************************************)
EXTENDS PipelineProofs

-----------------------------------------------------------------------------
(* chunk_count. *)

Agrees(d) == status[d] = "completed" => chunkCount[d] = chunkRows[d]

\* The attempt has written its result.
Recorded(w) == pc[w] \in {"announce", "destroy"} \/ outcome[w] = "ok"

\* asynq waits for one attempt of a document, while its task is active.
LiveOK ==
    /\ \A w \in Workers : live[w] => job[w] \in Docs /\ taskState[job[w]] = "active"
    /\ \A v, w \in Workers : live[v] /\ live[w] /\ job[v] = job[w] => v = w
    /\ \A w \in Workers : outcome[w] = "ok" => pc[w] = "returned"

\* Only an attempt that asynq waits for changes rows or count: between the
\* two it knows the rows, and a task that is gone has left them agreeing.
CountOK ==
    /\ \A w \in Workers : live[w] /\ pc[w] = "record"
           => chunkRows[job[w]] = made[w] \/ status[job[w]] = "deleted"
    /\ \A w \in Workers : live[w] /\ Recorded(w) => Agrees(job[w])
    /\ \A d \in Docs : taskState[d] = "none" => Agrees(d)

CountInv == SafetyInv /\ LiveOK /\ CountOK

LEMMA CountInit == Init => CountInv
<1> SUFFICES ASSUME Init PROVE LiveOK /\ CountOK
  BY SafetyInit DEF CountInv
<1> QED BY DEF Init, StoreInit, QueueInit, LiveOK, CountOK, Recorded, Agrees

LEMMA LiveApi ==
  ASSUME CountInv, NEW d \in Docs, ApiStep(d)
  PROVE  LiveOK'
<1> SafetyInv /\ LiveOK
  BY DEF CountInv
<1> StoreTypeOK /\ QueueTypeOK /\ ApiTypeOK /\ RunTypeOK
  BY DEF SafetyInv, TypeInv, TypeOK
<1>1. UNCHANGED runVars
  BY DEF ApiStep, UploadOriginal, SaveDocument, ReceiveWebhook, EnqueueTask, DeleteDocument
<1>2. \A c \in Docs : taskState[c] = "active" => taskState'[c] = "active"
  BY DEF ApiStep, UploadOriginal, SaveDocument, ReceiveWebhook, EnqueueTask, DeleteDocument,
     PushTask, TaskIDFree, queueVars, QueueTypeOK
<1> QED BY <1>1, <1>2 DEF LiveOK, runVars

LEMMA CountApi ==
  ASSUME CountInv, NEW d \in Docs, ApiStep(d)
  PROVE  CountOK'
<1> SafetyInv /\ LiveOK /\ CountOK
  BY DEF CountInv
<1> /\ StoreTypeOK /\ QueueTypeOK /\ ApiTypeOK /\ RunTypeOK
    /\ SavedOnce /\ SlotsOK
  BY DEF SafetyInv, SafetyParts, TypeInv, TypeOK
<1>1. UNCHANGED runVars
  BY DEF ApiStep, UploadOriginal, SaveDocument, ReceiveWebhook, EnqueueTask, DeleteDocument
<1>2. \A c \in Docs : taskState'[c] = "none" => taskState[c] = "none"
  BY DEF ApiStep, UploadOriginal, SaveDocument, ReceiveWebhook, EnqueueTask, DeleteDocument,
     PushTask, queueVars, QueueTypeOK
<1>3. \A c \in Docs : \/ status'[c] \in {"uploaded", "processing", "deleted"}
                      \/ status'[c] = status[c] /\ chunkCount'[c] = chunkCount[c]
                         /\ chunkRows'[c] = chunkRows[c]
  BY DEF ApiStep, UploadOriginal, SaveDocument, ReceiveWebhook, EnqueueTask, DeleteDocument,
     InsertDocument, MarkProcessing, DeleteRows, storeVars, StoreTypeOK
<1>4. \A c \in Docs : Agrees(c) => Agrees(c)'
  BY <1>3 DEF Agrees
<1>5. \A c \in Docs : /\ status[c] = "deleted" => status'[c] = "deleted"
                      /\ chunkRows'[c] = chunkRows[c] \/ status'[c] = "deleted"
  BY DEF ApiStep, UploadOriginal, SaveDocument, ReceiveWebhook, EnqueueTask, DeleteDocument,
     InsertDocument, MarkProcessing, ShouldProcessDocument, DeleteRows, storeVars, StoreTypeOK,
     SavedOnce
<1>6. \A w \in Workers : live[w] => job[w] \in Docs
  BY DEF LiveOK
<1> QED BY <1>1, <1>2, <1>4, <1>5, <1>6 DEF CountOK, Recorded, runVars

\* What a step of an attempt may do to the table and to its task.
LEMMA RunStepEffects ==
  ASSUME CountInv, NEW w \in Workers, RunStep(w)
  PROVE  /\ pc[w] # "idle" /\ job[w] \in Docs
         /\ \A v \in Workers : v # w =>
                /\ pc'[v] = pc[v] /\ job'[v] = job[v] /\ live'[v] = live[v]
                /\ made'[v] = made[v] /\ outcome'[v] = outcome[v]
         /\ \A d \in Docs : d # job[w] =>
                /\ status'[d] = status[d] /\ chunkRows'[d] = chunkRows[d]
                /\ chunkCount'[d] = chunkCount[d] /\ taskState'[d] = taskState[d]
<1> SafetyInv /\ LiveOK
  BY DEF CountInv
<1> StoreTypeOK /\ QueueTypeOK /\ RunTypeOK /\ SlotsOK
  BY DEF SafetyInv, TypeInv, TypeOK
<1>1. pc[w] # "idle"
  BY DEF RunStep, ReadDocument, LoadOriginal, ExtractChunks, StoreChunks, RecordResult,
     PublishError, PublishReady, DestroyOriginal, MarkFailed, PublishFailed, ReturnResult
<1>2. job[w] \in Docs
  BY <1>1 DEF SlotsOK, RunTypeOK
<1> USE DEF Raise, Goto, storeVars, queueVars
<1>3. CASE ReadDocument(w)
  BY <1>1, <1>2, <1>3 DEF ReadDocument, RunTypeOK
<1>4. CASE LoadOriginal(w)
  BY <1>1, <1>2, <1>4 DEF LoadOriginal, RunTypeOK
<1>5. CASE ExtractChunks(w)
  BY <1>1, <1>2, <1>5 DEF ExtractChunks, RunTypeOK
<1>6. CASE StoreChunks(w)
  BY <1>1, <1>2, <1>6 DEF StoreChunks, CreateChunks, RunTypeOK, StoreTypeOK
<1>7. CASE RecordResult(w)
  BY <1>1, <1>2, <1>7 DEF RecordResult, UpdateDocumentProcessingResult, RunTypeOK, StoreTypeOK
<1>8. CASE PublishReady(w)
  BY <1>1, <1>2, <1>8 DEF PublishReady, RunTypeOK
<1>9. CASE DestroyOriginal(w)
  BY <1>1, <1>2, <1>9 DEF DestroyOriginal, RunTypeOK
<1>10. CASE MarkFailed(w)
  BY <1>1, <1>2, <1>10 DEF MarkFailed, UpdateDocumentProcessingStatus, RunTypeOK, StoreTypeOK
<1>11. CASE PublishFailed(w)
  BY <1>1, <1>2, <1>11 DEF PublishFailed, RunTypeOK
<1>12. CASE ReturnResult(w)
  BY <1>1, <1>2, <1>12 DEF ReturnResult, Done, FailTask, RunTypeOK, QueueTypeOK
<1>13. CASE PublishError(w)
  BY <1>1, <1>2, <1>13 DEF PublishError, RunTypeOK
<1> QED BY <1>3, <1>4, <1>5, <1>6, <1>7, <1>8, <1>9, <1>10, <1>11, <1>12, <1>13 DEF RunStep

LEMMA LiveRun ==
  ASSUME CountInv, NEW w \in Workers, RunStep(w)
  PROVE  LiveOK'
<1> LiveOK /\ RunTypeOK /\ QueueTypeOK
  BY DEF CountInv, SafetyInv, TypeInv, TypeOK
<1> USE DEF Raise, Goto
<1>1. CASE ReturnResult(w)
  <2>1. ~live'[w] /\ outcome'[w] # "ok"
    BY <1>1 DEF ReturnResult, RunTypeOK
  <2>2. \A d \in Docs : taskState'[d] # taskState[d] => live[w] /\ d = job[w]
    BY <1>1, RunStepEffects DEF ReturnResult, queueVars
  <2> QED BY <2>1, <2>2, RunStepEffects DEF LiveOK
<1>2. CASE ~ReturnResult(w)
  <2>1. UNCHANGED <<taskState, live, job>>
    BY <1>2 DEF RunStep, ReadDocument, LoadOriginal, ExtractChunks, StoreChunks, RecordResult,
       PublishError, PublishReady, DestroyOriginal, MarkFailed, PublishFailed, queueVars
  <2>2. outcome'[w] = "ok" => pc'[w] = "returned"
    BY <1>2 DEF RunStep, ReadDocument, LoadOriginal, ExtractChunks, StoreChunks, RecordResult,
       PublishError, PublishReady, DestroyOriginal, MarkFailed, PublishFailed, RunTypeOK, LiveOK
  <2> QED BY <2>1, <2>2, RunStepEffects DEF LiveOK
<1> QED BY <1>1, <1>2

LEMMA CountRun ==
  ASSUME CountInv, NEW w \in Workers, RunStep(w)
  PROVE  CountOK'
<1> LiveOK /\ CountOK /\ StoreTypeOK /\ QueueTypeOK /\ RunTypeOK
  BY DEF CountInv, SafetyInv, TypeInv, TypeOK
<1> DEFINE d == job[w]
<1>d. d \in Docs /\ pc[w] # "idle"
  BY RunStepEffects
\* Another attempt that asynq waits for works for another document.
<1>o. \A v \in Workers : v # w /\ live[w] /\ live'[v] => job'[v] # d
  BY RunStepEffects DEF LiveOK
<1>t. \A v \in Workers : live[v] => job[v] \in Docs /\ taskState[job[v]] = "active"
  BY DEF LiveOK
<1> USE DEF Raise, Goto, storeVars, queueVars
<1>1. CASE StoreChunks(w)
  <2>1. CASE live[w] /\ pc'[w] = "record" /\ CreateChunks(d, made[w])
    <3>1. /\ chunkRows'[d] = made[w] /\ made'[w] = made[w]
          /\ taskState'[d] = "active" /\ job'[w] = d /\ outcome'[w] # "ok"
      BY <1>1, <1>d, <1>t, <2>1 DEF StoreChunks, CreateChunks, StoreTypeOK, RunTypeOK, LiveOK
    <3> QED BY <2>1, <3>1, <1>d, <1>o, <1>t, RunStepEffects DEF CountOK, Recorded, Agrees
  <2>2. CASE pc'[w] = "markFailed" /\ UNCHANGED storeVars
    <3>1. UNCHANGED <<taskState, live, job, made>> /\ outcome'[w] # "ok"
      BY <1>1, <2>2 DEF StoreChunks, RunTypeOK
    <3> QED BY <2>2, <3>1, <1>d, RunStepEffects DEF CountOK, Recorded, Agrees
  <2> QED BY <1>1, <2>1, <2>2 DEF StoreChunks, RunTypeOK
<1>2. CASE RecordResult(w)
  <2>1. CASE live[w] /\ pc'[w] = "announce" /\ UpdateDocumentProcessingResult(d, made[w])
    <3>1. chunkRows[d] = made[w] \/ status[d] = "deleted"
      BY <1>2, <2>1 DEF RecordResult, CountOK
    <3>2. /\ Agrees(d)' /\ taskState'[d] = "active" /\ job'[w] = d
      BY <1>2, <1>d, <1>t, <2>1, <3>1
      DEF RecordResult, UpdateDocumentProcessingResult, HasRow, StoreTypeOK, Agrees
    <3> QED BY <2>1, <3>2, <1>d, <1>o, <1>t, RunStepEffects DEF CountOK, Recorded, Agrees
  <2>2. CASE pc'[w] = "publishError" /\ UNCHANGED storeVars
    <3>1. UNCHANGED <<taskState, live, job, made>> /\ outcome'[w] # "ok"
      BY <1>2, <2>2 DEF RecordResult, RunTypeOK
    <3> QED BY <2>2, <3>1, <1>d, RunStepEffects DEF CountOK, Recorded, Agrees
  <2> QED BY <1>2, <2>1, <2>2 DEF RecordResult, RunTypeOK
<1>3. CASE MarkFailed(w)
  <2>1. UNCHANGED <<taskState, live, job, made, outcome, chunkRows, chunkCount>>
    BY <1>3 DEF MarkFailed, UpdateDocumentProcessingStatus
  <2>2. \A c \in Docs : (Agrees(c) => Agrees(c)') /\ (status[c] = "deleted" => status'[c] = "deleted")
    BY <1>3, <1>d, <2>1
    DEF MarkFailed, UpdateDocumentProcessingStatus, HasRow, StoreTypeOK, Agrees
  <2>3. pc'[w] \in {"publishFailed", "returned"} /\ outcome[w] # "ok"
    BY <1>3 DEF MarkFailed, RunTypeOK, LiveOK
  <2> QED BY <2>1, <2>2, <2>3, <1>t, RunStepEffects DEF CountOK, Recorded
<1>4. CASE ReturnResult(w)
  <2>1. UNCHANGED storeVars /\ ~live'[w]
    BY <1>4 DEF ReturnResult, RunTypeOK
  <2>2. taskState'[d] = "none" => taskState[d] = "none" \/ (live[w] /\ Recorded(w))
    BY <1>4, <1>d DEF ReturnResult, FailTask, QueueTypeOK, Recorded
  <2>3. \A c \in Docs : Agrees(c)' <=> Agrees(c)
    BY <2>1 DEF Agrees
  <2> QED BY <2>1, <2>2, <2>3, <1>d, <1>t, RunStepEffects DEF CountOK, Recorded
<1>5. CASE \/ ReadDocument(w) \/ LoadOriginal(w) \/ ExtractChunks(w) \/ PublishError(w)
           \/ PublishFailed(w)
  <2>1. UNCHANGED <<storeVars, taskState, live, job>>
    BY <1>5 DEF ReadDocument, LoadOriginal, ExtractChunks, PublishError, PublishFailed
  <2>2. pc'[w] \notin {"record", "announce", "destroy"} /\ outcome'[w] # "ok"
    BY <1>5 DEF ReadDocument, LoadOriginal, ExtractChunks, PublishError, PublishFailed,
       RunTypeOK, LiveOK
  <2> QED BY <2>1, <2>2, <1>t, RunStepEffects DEF CountOK, Recorded, Agrees
<1>6. CASE PublishReady(w) \/ DestroyOriginal(w)
  <2>1. UNCHANGED <<storeVars, taskState, live, job>>
    BY <1>6 DEF PublishReady, DestroyOriginal
  <2>2. Recorded(w) /\ pc'[w] # "record"
    BY <1>6 DEF PublishReady, DestroyOriginal, RunTypeOK, Recorded
  <2> QED BY <2>1, <2>2, <1>t, RunStepEffects DEF CountOK, Recorded, Agrees
<1> QED BY <1>1, <1>2, <1>3, <1>4, <1>5, <1>6 DEF RunStep

\* asynq and the crashes: they start an attempt for a task nobody works on,
\* or stop waiting for one.
QueueStep ==
    \/ \E w \in Workers, d \in Docs : StartTask(w, d)
    \/ \E w \in Workers : TimeoutTask(w)
    \/ \E d \in Docs : RecoverLease(d)
    \/ CrashApi
    \/ StopWorker

LEMMA CountQueue ==
  ASSUME CountInv, QueueStep
  PROVE  LiveOK' /\ CountOK'
<1> LiveOK /\ CountOK /\ SlotsOK /\ StoreTypeOK /\ QueueTypeOK /\ RunTypeOK
  BY DEF CountInv, SafetyInv, TypeInv, TypeOK
<1> USE DEF storeVars, queueVars, runVars, Goto
<1>1. ASSUME NEW w \in Workers, NEW d \in Docs, StartTask(w, d) PROVE LiveOK' /\ CountOK'
  <2>1. \A v \in Workers : live[v] => job[v] # d
    BY <1>1 DEF StartTask, Runnable, LiveOK
  <2>2. /\ taskState' = [taskState EXCEPT ![d] = "active"]
        /\ job' = [job EXCEPT ![w] = d] /\ live' = [live EXCEPT ![w] = TRUE]
        /\ UNCHANGED <<storeVars, made>>
    BY <1>1 DEF StartTask, Dequeue
  <2>3. /\ pc'[w] \in {"get", "returned"} /\ outcome'[w] # "ok" /\ ~live[w]
        /\ \A v \in Workers : v # w => pc'[v] = pc[v] /\ outcome'[v] = outcome[v]
    BY <1>1 DEF StartTask, RunTypeOK, SlotsOK, LiveOK
  <2>4. LiveOK'
    BY <2>1, <2>2, <2>3 DEF LiveOK, QueueTypeOK, RunTypeOK
  <2>5. CountOK'
    BY <2>1, <2>2, <2>3 DEF CountOK, LiveOK, Recorded, Agrees, QueueTypeOK, RunTypeOK
  <2> QED BY <2>4, <2>5
<1>2. ASSUME NEW w \in Workers, TimeoutTask(w) PROVE LiveOK' /\ CountOK'
  <2>1. /\ UNCHANGED <<storeVars, pc, job, made, outcome>>
        /\ live' = [live EXCEPT ![w] = FALSE] /\ live[w]
    BY <1>2 DEF TimeoutTask
  <2>2. /\ taskState'[job[w]] # "none"
        /\ \A c \in Docs : c # job[w] => taskState'[c] = taskState[c]
    BY <1>2, <2>1 DEF TimeoutTask, FailTask, QueueTypeOK, LiveOK
  <2> QED BY <2>1, <2>2 DEF LiveOK, CountOK, Recorded, Agrees, RunTypeOK
<1>3. ASSUME NEW d \in Docs, RecoverLease(d) PROVE LiveOK' /\ CountOK'
  <2>1. /\ UNCHANGED <<storeVars, runVars>>
        /\ \A v \in Workers : ~(live[v] /\ job[v] = d)
    BY <1>3 DEF RecoverLease
  <2>2. /\ taskState'[d] # "none"
        /\ \A c \in Docs : c # d => taskState'[c] = taskState[c]
    BY <1>3 DEF RecoverLease, FailTask, QueueTypeOK
  <2> QED BY <2>1, <2>2 DEF LiveOK, CountOK, Recorded, Agrees
<1>4. CASE CrashApi
  BY <1>4 DEF CrashApi, LiveOK, CountOK, Recorded, Agrees
<1>5. CASE StopWorker
  <2>1. /\ UNCHANGED storeVars
        /\ \A w \in Workers : ~live'[w] /\ outcome'[w] # "ok"
    BY <1>5 DEF StopWorker
  <2>2. \A d \in Docs : taskState'[d] = "none" => taskState[d] = "none"
    BY <1>5 DEF StopWorker, Requeue
  <2> QED BY <2>1, <2>2 DEF LiveOK, CountOK, Agrees
<1> QED BY <1>1, <1>2, <1>3, <1>4, <1>5 DEF QueueStep

LEMMA CountStep == CountInv /\ [Next]_vars => CountInv'
<1> SUFFICES ASSUME CountInv, [Next]_vars PROVE LiveOK' /\ CountOK'
  BY SafetyStep DEF CountInv
<1>1. CASE UNCHANGED vars
  BY <1>1 DEF vars, storeVars, queueVars, runVars, CountInv, LiveOK, CountOK, Recorded, Agrees
<1>2. CASE Next
  BY <1>2, LiveApi, CountApi, LiveRun, CountRun, CountQueue DEF Next, QueueStep
<1> QED BY <1>1, <1>2

LEMMA CountInvariant == Spec => []CountInv
  BY CountInit, CountStep, PTL DEF Spec

\* chunk_count of a ready document without a task equals its chunk rows,
\* whatever attempts were interrupted between the two transactions.
THEOREM CountsAgree == Spec => []CountAgrees
<1>1. CountInv => CountAgrees
  BY DEF CountInv, CountOK, Agrees, CountAgrees
<1> QED BY <1>1, CountInvariant, PTL

-----------------------------------------------------------------------------
(* One delivery, no lost attempt: attempts of a document follow each other. *)

SingleDelivery == \A g, h \in Deliveries : g = h

NoLostAttempt == "timeout" \notin Faults /\ "crash" \notin Faults

\* While there is work on a document its delivery is over.
WorkStarted ==
    \A d \in Docs : taskState[d] # "none" \/ Running(d)
                       => \A h \in Deliveries : hook[d][h] = "queued"

\* asynq waits for every attempt, and an active task has one.
NoneLost ==
    /\ \A w \in Workers : pc[w] # "idle" => live[w]
    /\ \A d \in Docs : taskState[d] = "active" => Running(d)

\* The document is not ready before its first delivery, while its task is
\* queued, and while an attempt has not yet recorded its result.
NotYetReady ==
    /\ \A d \in Docs : \A h \in Deliveries :
           hook[d][h] \in {"unsent", "claimed"} => status[d] # "completed"
    /\ \A d \in Docs : Runnable(d) => status[d] # "completed"
    /\ \A w \in Workers : pc[w] # "idle" /\ ~Recorded(w) => status[job[w]] # "completed"

\* What an attempt has recorded stays until it returns.
StaysRecorded ==
    \A w \in Workers : pc[w] # "idle" /\ Recorded(w)
                          => status[job[w]] \in {"completed", "deleted"}

FinalOK == WorkStarted /\ NoneLost /\ NotYetReady /\ StaysRecorded /\ FailedKeepsTask

FinalInv == CountInv /\ FinalOK

LEMMA FinalInit == Init => FinalInv
<1> SUFFICES ASSUME Init PROVE FinalOK
  BY CountInit DEF FinalInv
<1> QED BY PipelineAssumption DEF Init, StoreInit, QueueInit, FinalOK, WorkStarted, Running,
    NoneLost, NotYetReady, Runnable, StaysRecorded, FailedKeepsTask

LEMMA FinalApi ==
  ASSUME SingleDelivery, FinalInv, NEW d \in Docs, ApiStep(d)
  PROVE  FinalOK'
<1> /\ WorkStarted /\ NoneLost /\ NotYetReady /\ StaysRecorded /\ FailedKeepsTask
    /\ WorkIsClaimed /\ SlotsOK
    /\ StoreTypeOK /\ QueueTypeOK /\ ApiTypeOK /\ RunTypeOK
  BY DEF FinalInv, FinalOK, CountInv, SafetyInv, SafetyParts, TypeInv, TypeOK
<1> USE DEF storeVars, queueVars, runVars
<1>r. UNCHANGED runVars
  BY DEF ApiStep, UploadOriginal, SaveDocument, ReceiveWebhook, EnqueueTask, DeleteDocument
<1>j. \A w \in Workers : pc[w] # "idle" => job[w] \in Docs /\ Running(job[w])
  BY DEF SlotsOK, RunTypeOK, Running
\* No part speaks of what UploadOriginal, SaveDocument and DeleteDocument change.
<1>1. CASE UploadOriginal(d) \/ SaveDocument(d) \/ DeleteDocument(d)
  <2>1. UNCHANGED <<taskState, hook>>
    BY <1>1 DEF UploadOriginal, SaveDocument, DeleteDocument, apiVars
  <2>2. \A c \in Docs : \/ status'[c] = status[c]
                        \/ status'[c] = "deleted"
                        \/ status'[c] = "uploaded" /\ status[c] = "absent"
    BY <1>1 DEF UploadOriginal, SaveDocument, InsertDocument, DeleteDocument, DeleteRows,
       StoreTypeOK, CountInv, SafetyInv, SafetyParts, SavedOnce, FinalInv
  <2>3. \A c \in Docs : Running(c) => status[c] # "absent"
    BY DEF WorkIsClaimed
  <2>4. WorkStarted' /\ NoneLost' /\ NotYetReady' /\ FailedKeepsTask'
    BY <1>r, <1>j, <2>1, <2>2
    DEF WorkStarted, NoneLost, NotYetReady, FailedKeepsTask, Running, Runnable, Recorded
  <2>5. StaysRecorded'
    BY <1>r, <1>j, <2>2, <2>3 DEF StaysRecorded, Recorded
  <2> QED BY <2>4, <2>5 DEF FinalOK
<1>2. ASSUME NEW h \in Deliveries, ReceiveWebhook(d, h) PROVE FinalOK'
  <2>1. taskState[d] = "none" /\ ~Running(d)
    BY <1>2 DEF ReceiveWebhook, WorkStarted
  <2>2. /\ UNCHANGED taskState
        /\ \A c \in Docs : c # d => status'[c] = status[c] /\ hook'[c] = hook[c]
    BY <1>2 DEF ReceiveWebhook, MarkProcessing, StoreTypeOK, ApiTypeOK
  <2>3. status'[d] \in {status[d], "processing"}
    BY <1>2 DEF ReceiveWebhook, MarkProcessing, StoreTypeOK
  <2>4. status[d] # "completed" /\ status[d] # "failed"
    BY <1>2, <2>1 DEF ReceiveWebhook, NotYetReady, FailedKeepsTask
  <2>5. \A w \in Workers : pc[w] # "idle" => job[w] # d
    BY <1>j, <2>1
  <2>6. WorkStarted' /\ NoneLost'
    BY <1>r, <2>1, <2>2 DEF WorkStarted, NoneLost, Running
  <2>7. NotYetReady' /\ StaysRecorded' /\ FailedKeepsTask'
    BY <1>r, <1>j, <2>1, <2>2, <2>3, <2>4, <2>5
    DEF NotYetReady, StaysRecorded, FailedKeepsTask, Runnable, Recorded
  <2> QED BY <2>6, <2>7 DEF FinalOK
<1>3. ASSUME NEW h \in Deliveries, EnqueueTask(d, h) PROVE FinalOK'
  <2>1. /\ UNCHANGED status
        /\ \A c \in Docs : c # d => hook'[c] = hook[c] /\ taskState'[c] = taskState[c]
    BY <1>3 DEF EnqueueTask, PushTask, ApiTypeOK, QueueTypeOK
  <2>2. \/ hook'[d][h] = "queued" /\ taskState'[d] = "pending"
        \/ hook'[d][h] = "bounced" /\ taskState'[d] = taskState[d]
    BY <1>3 DEF EnqueueTask, PushTask, ApiTypeOK, QueueTypeOK
  <2>3. \A g \in Deliveries : g = h
    BY DEF SingleDelivery
  <2>4. hook[d][h] = "claimed" /\ taskState[d] = "none" /\ ~Running(d)
    BY <1>3 DEF EnqueueTask, WorkStarted
  <2>5. status[d] # "completed"
    BY <2>4 DEF NotYetReady
  <2>6. WorkStarted' /\ NoneLost'
    BY <1>r, <2>1, <2>2, <2>3, <2>4 DEF WorkStarted, NoneLost, Running
  <2>7. NotYetReady' /\ StaysRecorded' /\ FailedKeepsTask'
    BY <1>r, <2>1, <2>2, <2>3, <2>4, <2>5
    DEF NotYetReady, StaysRecorded, FailedKeepsTask, Runnable, Recorded
  <2> QED BY <2>6, <2>7 DEF FinalOK
<1> QED BY <1>1, <1>2, <1>3 DEF ApiStep

LEMMA FinalRun ==
  ASSUME FinalInv, NEW w \in Workers, RunStep(w)
  PROVE  FinalOK'
<1> /\ WorkStarted /\ NoneLost /\ NotYetReady /\ StaysRecorded /\ FailedKeepsTask
    /\ WorkIsClaimed /\ SlotsOK /\ LiveOK /\ CountInv
    /\ StoreTypeOK /\ QueueTypeOK /\ ApiTypeOK /\ RunTypeOK
  BY DEF FinalInv, FinalOK, CountInv, SafetyInv, SafetyParts, TypeInv, TypeOK
<1> DEFINE d == job[w]
<1>d. d \in Docs /\ pc[w] # "idle" /\ live[w] /\ taskState[d] = "active" /\ Running(d)
  BY RunStepEffects DEF NoneLost, LiveOK, Running
<1>o. \A v \in Workers : v # w /\ pc[v] # "idle" => job[v] \in Docs /\ job[v] # d
  BY <1>d DEF LiveOK, NoneLost
<1>h. UNCHANGED hook /\ \A h \in Deliveries : hook[d][h] = "queued"
  BY <1>d DEF RunStep, ReadDocument, LoadOriginal, ExtractChunks, StoreChunks, RecordResult,
     PublishError, PublishReady, DestroyOriginal, MarkFailed, PublishFailed, ReturnResult,
     apiVars, WorkStarted
<1> USE DEF Raise, Goto, storeVars, queueVars
<1>1. CASE ReturnResult(w)
  <2>1. /\ UNCHANGED status
        /\ pc'[w] = "idle"
        /\ job'[w] = NoDoc
    BY <1>1 DEF ReturnResult, RunTypeOK
  <2>2. CASE outcome[w] = "ok"
    <3>1. status[d] \in {"completed", "deleted"}
      BY <1>d, <2>2 DEF StaysRecorded, Recorded
    <3>2. taskState'[d] = "none"
      BY <1>1, <1>d, <2>2 DEF ReturnResult, Done, QueueTypeOK
    <3>3. ~\E v \in Workers : job'[v] = d
      BY <1>o, <2>1, <1>d, RunStepEffects, PipelineAssumption DEF Running, SlotsOK
    <3>4. WorkStarted' /\ NoneLost'
      BY <1>d, <1>h, <2>1, <3>2, <3>3, RunStepEffects, PipelineAssumption
      DEF WorkStarted, NoneLost, Running
    <3>5. NotYetReady' /\ StaysRecorded' /\ FailedKeepsTask'
      BY <1>d, <1>o, <1>h, <2>1, <3>1, <3>2, RunStepEffects
      DEF NotYetReady, StaysRecorded, FailedKeepsTask, Runnable, Recorded
    <3> QED BY <3>4, <3>5 DEF FinalOK
  <2>3. CASE outcome[w] # "ok"
    <3>1. status[d] # "completed"
      BY <1>1, <1>d, <2>3 DEF ReturnResult, NotYetReady, Recorded
    <3>2. taskState'[d] \in {"retry", "archived"}
      BY <1>1, <1>d, <2>3 DEF ReturnResult, FailTask, QueueTypeOK
    <3>3. WorkStarted' /\ NoneLost'
      BY <1>d, <1>h, <2>1, <3>2, RunStepEffects, PipelineAssumption
      DEF WorkStarted, NoneLost, Running
    <3>4. NotYetReady' /\ StaysRecorded' /\ FailedKeepsTask'
      BY <1>d, <1>o, <1>h, <2>1, <3>1, <3>2, RunStepEffects
      DEF NotYetReady, StaysRecorded, FailedKeepsTask, Runnable, Recorded
    <3> QED BY <3>3, <3>4 DEF FinalOK
  <2> QED BY <2>2, <2>3
<1>2. CASE ~ReturnResult(w)
  <2>1. /\ UNCHANGED <<taskState, live, job>>
        /\ pc'[w] # "idle"
    BY <1>2 DEF RunStep, ReadDocument, LoadOriginal, ExtractChunks, StoreChunks, RecordResult,
       PublishError, PublishReady, DestroyOriginal, MarkFailed, PublishFailed, RunTypeOK
  <2>2. \/ Recorded(w)' /\ status'[d] \in {"completed", "deleted"}
        \/ ~Recorded(w)' /\ status'[d] # "completed"
    <3>1. CASE RecordResult(w)
      <4>1. status[d] # "completed" /\ status[d] # "absent"
        BY <1>d, <3>1 DEF RecordResult, NotYetReady, WorkIsClaimed, Recorded, LiveOK
      <4> QED BY <1>d, <3>1, <4>1
          DEF RecordResult, UpdateDocumentProcessingResult, HasRow, Recorded, StoreTypeOK,
              RunTypeOK, LiveOK
    <3>2. CASE MarkFailed(w)
      BY <1>d, <3>2 DEF MarkFailed, UpdateDocumentProcessingStatus, HasRow, NotYetReady,
         Recorded, StoreTypeOK, RunTypeOK, LiveOK
    <3>3. CASE PublishReady(w) \/ DestroyOriginal(w)
      BY <1>d, <3>3 DEF PublishReady, DestroyOriginal, StaysRecorded, Recorded, RunTypeOK
    <3>4. CASE \/ ReadDocument(w) \/ LoadOriginal(w) \/ ExtractChunks(w) \/ StoreChunks(w)
               \/ PublishError(w) \/ PublishFailed(w)
      BY <1>d, <3>4 DEF ReadDocument, LoadOriginal, ExtractChunks, StoreChunks, CreateChunks,
         PublishError, PublishFailed, NotYetReady, Recorded, RunTypeOK, LiveOK
    <3> QED BY <1>2, <3>1, <3>2, <3>3, <3>4 DEF RunStep
  <2>3. WorkStarted' /\ NoneLost'
    BY <1>d, <1>h, <2>1, RunStepEffects DEF WorkStarted, NoneLost, Running
  <2>4. NotYetReady' /\ StaysRecorded' /\ FailedKeepsTask'
    BY <1>d, <1>o, <1>h, <2>1, <2>2, RunStepEffects
    DEF NotYetReady, StaysRecorded, FailedKeepsTask, Runnable, Recorded
  <2> QED BY <2>3, <2>4 DEF FinalOK
<1> QED BY <1>1, <1>2

LEMMA FinalQueue ==
  ASSUME NoLostAttempt, FinalInv, QueueStep
  PROVE  FinalOK'
<1> /\ WorkStarted /\ NoneLost /\ NotYetReady /\ StaysRecorded /\ FailedKeepsTask
    /\ SlotsOK /\ LiveOK /\ StoreTypeOK /\ QueueTypeOK /\ RunTypeOK
  BY DEF FinalInv, FinalOK, CountInv, SafetyInv, TypeInv, TypeOK
<1>1. ASSUME NEW w \in Workers, NEW d \in Docs, StartTask(w, d) PROVE FinalOK'
  <2>1. /\ UNCHANGED <<status, hook>>
        /\ taskState' = [taskState EXCEPT ![d] = "active"]
        /\ job' = [job EXCEPT ![w] = d] /\ live' = [live EXCEPT ![w] = TRUE]
    BY <1>1 DEF StartTask, Dequeue, storeVars, apiVars
  <2>2. /\ pc'[w] \in {"get", "returned"} /\ outcome'[w] # "ok" /\ pc[w] = "idle"
        /\ \A v \in Workers : v # w => pc'[v] = pc[v] /\ outcome'[v] = outcome[v]
    BY <1>1 DEF StartTask, Goto, RunTypeOK, LiveOK
  <2>3. taskState[d] # "none" /\ status[d] # "completed"
    BY <1>1 DEF StartTask, Runnable, NotYetReady
  <2>4. WorkStarted'
    BY <2>1, <2>2, <2>3 DEF WorkStarted, Running, QueueTypeOK, RunTypeOK, SlotsOK
  <2>5. NoneLost'
    BY <2>1, <2>2, PipelineAssumption DEF NoneLost, Running, QueueTypeOK, RunTypeOK, SlotsOK
  <2>6. NotYetReady' /\ StaysRecorded' /\ FailedKeepsTask'
    BY <2>1, <2>2, <2>3
    DEF NotYetReady, StaysRecorded, FailedKeepsTask, Runnable, Recorded, QueueTypeOK, RunTypeOK
  <2> QED BY <2>4, <2>5, <2>6 DEF FinalOK
<1>2. ASSUME NEW d \in Docs, RecoverLease(d) PROVE FALSE
  <2>1. PICK w \in Workers : job[w] = d
    BY <1>2 DEF RecoverLease, NoneLost, Running
  <2>2. live[w]
    BY <2>1, PipelineAssumption DEF NoneLost, SlotsOK
  <2> QED BY <1>2, <2>1, <2>2 DEF RecoverLease
<1>3. CASE (\E w \in Workers : TimeoutTask(w)) \/ CrashApi \/ StopWorker
  BY <1>3 DEF TimeoutTask, CrashApi, StopWorker, Fault, NoLostAttempt
<1> QED BY <1>1, <1>2, <1>3 DEF QueueStep

LEMMA FinalStep ==
  ASSUME SingleDelivery, NoLostAttempt
  PROVE  FinalInv /\ [Next]_vars => FinalInv'
<1> SUFFICES ASSUME FinalInv, [Next]_vars PROVE FinalOK'
  BY CountStep DEF FinalInv
<1>1. CASE UNCHANGED vars
  BY <1>1 DEF vars, storeVars, queueVars, apiVars, runVars, FinalInv, FinalOK, WorkStarted,
     Running, NoneLost, NotYetReady, Runnable, Recorded, StaysRecorded, FailedKeepsTask
<1>2. CASE Next
  BY <1>2, FinalApi, FinalRun, FinalQueue DEF Next, QueueStep
<1> QED BY <1>1, <1>2

LEMMA FinalInvariant ==
  ASSUME SingleDelivery, NoLostAttempt
  PROVE  Spec => []FinalInv
  BY FinalInit, FinalStep, PTL DEF Spec

\* With one delivery and no lost attempt a failed document keeps its task.
THEOREM FailedIsQueued ==
  ASSUME SingleDelivery, NoLostAttempt
  PROVE  Spec => []FailedKeepsTask
<1>1. FinalInv => FailedKeepsTask
  BY DEF FinalInv, FinalOK
<1> QED BY <1>1, FinalInvariant, PTL

LEMMA ReadyStep ==
  ASSUME SingleDelivery, NoLostAttempt, FinalInv, Next, NEW d \in Docs, status[d] = "completed"
  PROVE  status'[d] \in {"completed", "deleted"}
<1> NotYetReady /\ StoreTypeOK /\ LiveOK /\ CountInv
  BY DEF FinalInv, FinalOK, CountInv, SafetyInv, TypeInv, TypeOK
<1> USE DEF storeVars
<1>1. ASSUME NEW c \in Docs, ApiStep(c) PROVE status'[d] \in {"completed", "deleted"}
  BY <1>1 DEF ApiStep, UploadOriginal, SaveDocument, InsertDocument, ReceiveWebhook,
     ShouldProcessDocument, MarkProcessing, EnqueueTask, DeleteDocument, DeleteRows, StoreTypeOK,
     CountInv, SafetyInv, SafetyParts, SavedOnce
<1>2. ASSUME NEW w \in Workers, RunStep(w) PROVE status'[d] \in {"completed", "deleted"}
  <2>1. CASE MarkFailed(w)
    <3>1. pc[w] # "idle" /\ ~Recorded(w)
      BY <2>1 DEF MarkFailed, Recorded, LiveOK
    <3>2. job[w] # d
      BY <3>1 DEF NotYetReady
    <3> QED BY <1>2, <3>2, RunStepEffects
  <2>2. CASE RecordResult(w)
    BY <2>2 DEF RecordResult, UpdateDocumentProcessingResult, StoreTypeOK
  <2>3. CASE ~MarkFailed(w) /\ ~RecordResult(w)
    BY <1>2, <2>3 DEF RunStep, ReadDocument, LoadOriginal, ExtractChunks, StoreChunks,
       CreateChunks, PublishError, PublishReady, DestroyOriginal, PublishFailed, ReturnResult
  <2> QED BY <2>1, <2>2, <2>3
<1>3. CASE QueueStep
  BY <1>3 DEF QueueStep, StartTask, TimeoutTask, RecoverLease, CrashApi, StopWorker
<1> QED BY <1>1, <1>2, <1>3 DEF Next, QueueStep

\* With one delivery and no lost attempt, ready is final.
THEOREM ReadyStays ==
  ASSUME SingleDelivery, NoLostAttempt
  PROVE  Spec => ReadyIsFinal
<1>1. FinalInv /\ [Next]_vars
        => [\A d \in Docs : status[d] = "completed"
                               => status'[d] \in {"completed", "deleted"}]_vars
  BY ReadyStep
<1> QED BY <1>1, FinalInvariant, PTL DEF Spec, ReadyIsFinal

-----------------------------------------------------------------------------
(* The last event, when Redis delivers as well. *)

RedisDelivers == "redis" \notin Faults

\* A written outcome has been published, or is by the attempt that wrote it.
EventFollows ==
    \A d \in Docs :
        /\ status[d] = "completed" => \/ announced[d] = "ready"
                                      \/ \E w \in Workers : job[w] = d /\ pc[w] = "announce"
        /\ status[d] = "failed" => \/ announced[d] = "failed"
                                   \/ \E w \in Workers : job[w] = d /\ pc[w] = "publishFailed"

EventInv == FinalInv /\ EventFollows

LEMMA EventInit == Init => EventInv
<1> SUFFICES ASSUME Init PROVE EventFollows
  BY FinalInit DEF EventInv
<1> QED BY DEF Init, StoreInit, EventFollows

LEMMA EventRun ==
  ASSUME NoLostAttempt, RedisDelivers, EventInv, NEW w \in Workers, RunStep(w)
  PROVE  EventFollows'
<1> /\ FinalInv /\ CountInv /\ NoneLost /\ NotYetReady /\ StaysRecorded /\ EventFollows
    /\ LiveOK /\ StoreTypeOK /\ RunTypeOK /\ OutsideTypeOK
  BY DEF EventInv, FinalInv, FinalOK, CountInv, SafetyInv, TypeInv, TypeOK
<1> DEFINE d == job[w]
<1>d. d \in Docs /\ pc[w] # "idle" /\ live[w]
  BY RunStepEffects DEF NoneLost
<1>e. \A c \in Docs : c # d => announced'[c] = announced[c]
  BY <1>d DEF RunStep, ReadDocument, LoadOriginal, ExtractChunks, StoreChunks, RecordResult,
     PublishError, PublishReady, DestroyOriginal, MarkFailed, PublishFailed, ReturnResult,
     Published, OutsideTypeOK
<1>s. SUFFICES
        /\ status'[d] = "completed" => \/ announced'[d] = "ready"
                                       \/ job'[w] = d /\ pc'[w] = "announce"
        /\ status'[d] = "failed" => \/ announced'[d] = "failed"
                                    \/ job'[w] = d /\ pc'[w] = "publishFailed"
  <2>1. ASSUME NEW c \in Docs, c # d
        PROVE  /\ status'[c] = "completed"
                     => \/ announced'[c] = "ready"
                        \/ \E v \in Workers : job'[v] = c /\ pc'[v] = "announce"
               /\ status'[c] = "failed"
                     => \/ announced'[c] = "failed"
                        \/ \E v \in Workers : job'[v] = c /\ pc'[v] = "publishFailed"
    BY <1>e, <2>1, RunStepEffects DEF EventFollows
  <2> QED BY <2>1 DEF EventFollows
<1>u. \A v \in Workers : job[v] = d /\ pc[v] # "idle" => v = w
  BY <1>d DEF LiveOK, NoneLost
<1>v. /\ status[d] = "completed" => announced[d] = "ready" \/ pc[w] = "announce"
      /\ status[d] = "failed" => announced[d] = "failed" \/ pc[w] = "publishFailed"
  BY <1>d, <1>u DEF EventFollows
<1> USE DEF Raise, Goto, storeVars
<1>1. CASE RecordResult(w)
  BY <1>1, <1>d, <1>v DEF RecordResult, UpdateDocumentProcessingResult, HasRow, NotYetReady,
     Recorded, Published, StoreTypeOK, RunTypeOK, OutsideTypeOK, LiveOK
<1>2. CASE PublishReady(w)
  <2>1. status[d] # "failed"
    BY <1>2, <1>d DEF PublishReady, StaysRecorded, Recorded
  <2>2. announced'[d] = "ready"
    BY <1>2, <1>d DEF PublishReady, Published, Fault, RedisDelivers, OutsideTypeOK
  <2> QED BY <1>2, <2>1, <2>2 DEF PublishReady
<1>3. CASE MarkFailed(w)
  BY <1>3, <1>d, <1>v DEF MarkFailed, UpdateDocumentProcessingStatus, HasRow, NotYetReady,
     Recorded, StoreTypeOK, RunTypeOK, LiveOK
<1>4. CASE PublishFailed(w)
  <2>1. status[d] # "completed"
    BY <1>4, <1>d DEF PublishFailed, NotYetReady, Recorded, LiveOK
  <2>2. announced'[d] = "failed"
    BY <1>4, <1>d DEF PublishFailed, Published, Fault, RedisDelivers, OutsideTypeOK
  <2> QED BY <1>4, <2>1, <2>2 DEF PublishFailed
<1>5. CASE \/ ReadDocument(w) \/ LoadOriginal(w) \/ ExtractChunks(w) \/ StoreChunks(w)
           \/ DestroyOriginal(w) \/ ReturnResult(w)
  <2>1. UNCHANGED <<status, announced>> /\ pc[w] \notin {"announce", "publishFailed"}
    BY <1>5 DEF ReadDocument, LoadOriginal, ExtractChunks, StoreChunks, CreateChunks,
       DestroyOriginal, ReturnResult
  <2> QED BY <1>v, <2>1
<1>6. CASE PublishError(w)
  <2>1. status[d] # "completed"
    BY <1>6, <1>d DEF PublishError, NotYetReady, Recorded, LiveOK
  <2>2. announced'[d] = "failed"
    BY <1>6, <1>d DEF PublishError, Published, Fault, RedisDelivers, OutsideTypeOK
  <2> QED BY <1>6, <2>1, <2>2 DEF PublishError
<1> QED BY <1>1, <1>2, <1>3, <1>4, <1>5, <1>6 DEF RunStep

LEMMA EventStep ==
  ASSUME SingleDelivery, NoLostAttempt, RedisDelivers
  PROVE  EventInv /\ [Next]_vars => EventInv'
<1> SUFFICES ASSUME EventInv, [Next]_vars PROVE EventFollows'
  BY FinalStep DEF EventInv
<1> EventFollows /\ StoreTypeOK /\ RunTypeOK /\ SlotsOK
    /\ (\A d \in Docs : upload[d] # "done" <=> status[d] = "absent")
  BY DEF EventInv, FinalInv, CountInv, SafetyInv, SafetyParts, SavedOnce, TypeInv, TypeOK
<1> USE DEF storeVars, runVars
<1>1. CASE UNCHANGED vars
  BY <1>1 DEF vars, EventFollows
<1>2. ASSUME NEW d \in Docs, ApiStep(d) PROVE EventFollows'
  <2>1. UNCHANGED <<runVars, announced>>
    BY <1>2 DEF ApiStep, UploadOriginal, SaveDocument, ReceiveWebhook, EnqueueTask, DeleteDocument
  <2>2. \A c \in Docs : status'[c] \in {status[c], "uploaded", "processing", "deleted"}
    BY <1>2 DEF ApiStep, UploadOriginal, SaveDocument, InsertDocument, ReceiveWebhook,
       MarkProcessing, EnqueueTask, DeleteDocument, DeleteRows, StoreTypeOK
  <2> QED BY <2>1, <2>2 DEF EventFollows
<1>3. ASSUME NEW w \in Workers, RunStep(w) PROVE EventFollows'
  BY <1>3, EventRun
<1>4. ASSUME NEW w \in Workers, NEW d \in Docs, StartTask(w, d) PROVE EventFollows'
  <2>1. /\ UNCHANGED <<status, announced>> /\ pc[w] = "idle"
        /\ \A v \in Workers : v # w => pc'[v] = pc[v] /\ job'[v] = job[v]
    BY <1>4 DEF StartTask, Goto, RunTypeOK
  <2> QED BY <2>1 DEF EventFollows
<1>5. ASSUME NEW d \in Docs, RecoverLease(d) PROVE EventFollows'
  BY <1>5 DEF RecoverLease, EventFollows
<1>6. CASE (\E w \in Workers : TimeoutTask(w)) \/ CrashApi \/ StopWorker
  BY <1>6 DEF TimeoutTask, CrashApi, StopWorker, Fault, NoLostAttempt
<1> QED BY <1>1, <1>2, <1>3, <1>4, <1>5, <1>6 DEF Next

\* When no attempt is lost and Redis delivers, the last event of a settled
\* document agrees with its row.
THEOREM LastEventAgrees ==
  ASSUME SingleDelivery, NoLostAttempt, RedisDelivers
  PROVE  Spec => []LastEventTellsOutcome
<1>1. EventInv => LastEventTellsOutcome
  BY DEF EventInv, EventFollows, LastEventTellsOutcome, Settled, Running
<1>2. Spec => []EventInv
  BY EventInit, EventStep, PTL DEF Spec
<1> QED BY <1>1, <1>2, PTL

-----------------------------------------------------------------------------
(* A document in processing, when attempts may time out but every statement, *)
(* publication and parser works and every payload is complete.               *)

OnlyTimeouts == Faults \subseteq {"timeout"} /\ CompletePayloads = Docs

\* An active task has an attempt asynq waits for.
ActiveHeld == \A d \in Docs : taskState[d] = "active"
                                 => \E w \in Workers : live[w] /\ job[w] = d

\* An attempt that is about to return has written an outcome.
OutcomeWritten ==
    \A w \in Workers : pc[w] \in {"publishFailed", "returned", "announce", "destroy"}
                          => status[job[w]] # "processing"

OwnedOK == WorkStarted /\ ActiveHeld /\ OutcomeWritten /\ ProcessingIsOwned

OwnedInv == CountInv /\ OwnedOK

LEMMA OwnedInit == Init => OwnedInv
<1> SUFFICES ASSUME Init PROVE OwnedOK
  BY CountInit DEF OwnedInv
<1> QED BY PipelineAssumption DEF Init, StoreInit, QueueInit, OwnedOK, WorkStarted, Running,
    ActiveHeld, OutcomeWritten, ProcessingIsOwned

LEMMA OwnedApi ==
  ASSUME SingleDelivery, OnlyTimeouts, OwnedInv, NEW d \in Docs, ApiStep(d)
  PROVE  OwnedOK'
<1> /\ WorkStarted /\ ActiveHeld /\ OutcomeWritten /\ ProcessingIsOwned
    /\ WorkIsClaimed /\ SavedOnce /\ SlotsOK
    /\ StoreTypeOK /\ QueueTypeOK /\ ApiTypeOK /\ RunTypeOK
  BY DEF OwnedInv, OwnedOK, CountInv, SafetyInv, SafetyParts, TypeInv, TypeOK
<1> USE DEF storeVars, queueVars, runVars
<1>r. UNCHANGED runVars
  BY DEF ApiStep, UploadOriginal, SaveDocument, ReceiveWebhook, EnqueueTask, DeleteDocument
<1>j. \A w \in Workers : pc[w] # "idle" => job[w] \in Docs /\ Running(job[w])
  BY DEF SlotsOK, RunTypeOK, Running
<1>1. CASE UploadOriginal(d) \/ SaveDocument(d) \/ DeleteDocument(d)
  <2>1. UNCHANGED <<taskState, hook>>
    BY <1>1 DEF UploadOriginal, SaveDocument, DeleteDocument, apiVars
  <2>2. \A c \in Docs : status'[c] \in {status[c], "deleted", "uploaded"}
    BY <1>1 DEF UploadOriginal, SaveDocument, InsertDocument, DeleteDocument, DeleteRows,
       StoreTypeOK
  <2> QED BY <1>r, <1>j, <2>1, <2>2
      DEF OwnedOK, WorkStarted, ActiveHeld, OutcomeWritten, ProcessingIsOwned, Running
<1>2. ASSUME NEW h \in Deliveries, ReceiveWebhook(d, h) PROVE OwnedOK'
  <2>1. taskState[d] = "none" /\ ~Running(d)
    BY <1>2 DEF ReceiveWebhook, WorkStarted
  <2>2. /\ UNCHANGED taskState
        /\ \A c \in Docs : c # d => status'[c] = status[c] /\ hook'[c] = hook[c]
    BY <1>2 DEF ReceiveWebhook, MarkProcessing, StoreTypeOK, ApiTypeOK
  <2>3. status'[d] = "processing" => hook'[d][h] = "claimed" \/ status[d] = "processing"
    BY <1>2 DEF ReceiveWebhook, MarkProcessing, StoreTypeOK, ApiTypeOK
  <2>4. status[d] # "processing"
    <3>1. \A g \in Deliveries : hook[d][g] # "claimed"
      BY <1>2 DEF ReceiveWebhook, SingleDelivery
    <3> QED BY <2>1, <3>1 DEF ProcessingIsOwned
  <2>5. WorkStarted' /\ ActiveHeld' /\ OutcomeWritten'
    BY <1>r, <1>j, <2>1, <2>2 DEF WorkStarted, ActiveHeld, OutcomeWritten, Running
  <2>6. ProcessingIsOwned'
    BY <1>r, <2>2, <2>3, <2>4 DEF ProcessingIsOwned, Running
  <2> QED BY <2>5, <2>6 DEF OwnedOK
<1>3. ASSUME NEW h \in Deliveries, EnqueueTask(d, h) PROVE OwnedOK'
  <2>1. taskState[d] = "none" /\ ~Running(d) /\ hook[d][h] = "claimed"
    BY <1>3 DEF EnqueueTask, WorkStarted
  <2>2. /\ UNCHANGED status
        /\ \A c \in Docs : c # d => hook'[c] = hook[c] /\ taskState'[c] = taskState[c]
    BY <1>3 DEF EnqueueTask, PushTask, ApiTypeOK, QueueTypeOK
  <2>3. hook'[d][h] = "queued" /\ taskState'[d] = "pending"
    BY <1>3, <2>1 DEF EnqueueTask, TaskIDFree, PushTask, Fault, OnlyTimeouts, ApiTypeOK,
       QueueTypeOK
  <2>4. \A g \in Deliveries : g = h
    BY DEF SingleDelivery
  <2> QED BY <1>r, <2>1, <2>2, <2>3, <2>4
      DEF OwnedOK, WorkStarted, ActiveHeld, OutcomeWritten, ProcessingIsOwned, Running
<1> QED BY <1>1, <1>2, <1>3 DEF ApiStep

LEMMA OwnedRun ==
  ASSUME OnlyTimeouts, OwnedInv, NEW w \in Workers, RunStep(w)
  PROVE  OwnedOK'
<1> /\ WorkStarted /\ ActiveHeld /\ OutcomeWritten /\ ProcessingIsOwned
    /\ SlotsOK /\ LiveOK /\ CountInv
    /\ StoreTypeOK /\ QueueTypeOK /\ ApiTypeOK /\ RunTypeOK
  BY DEF OwnedInv, OwnedOK, CountInv, SafetyInv, TypeInv, TypeOK
<1> DEFINE d == job[w]
<1>d. d \in Docs /\ pc[w] # "idle" /\ d # NoDoc /\ Running(d)
  BY RunStepEffects, PipelineAssumption DEF Running
<1>h. UNCHANGED hook /\ \A h \in Deliveries : hook[d][h] = "queued"
  BY <1>d DEF RunStep, ReadDocument, LoadOriginal, ExtractChunks, StoreChunks, RecordResult,
     PublishError, PublishReady, DestroyOriginal, MarkFailed, PublishFailed, ReturnResult,
     apiVars, WorkStarted
<1> USE DEF Raise, Goto, storeVars, queueVars
<1>1. CASE ReturnResult(w)
  <2>1. /\ UNCHANGED status /\ pc'[w] = "idle" /\ ~live'[w] /\ job'[w] = NoDoc
        /\ status[d] # "processing"
    BY <1>1, <1>d DEF ReturnResult, RunTypeOK, OutcomeWritten
  <2>2. ActiveHeld'
    <3>1. live[w] => taskState'[d] # "active"
      BY <1>1, <1>d DEF ReturnResult, Done, FailTask, QueueTypeOK
    <3>2. ~live[w] => UNCHANGED taskState
      BY <1>1 DEF ReturnResult
    <3> QED BY <3>1, <3>2, RunStepEffects DEF ActiveHeld, LiveOK
  <2>3. WorkStarted'
    BY <1>d, <1>h, <2>1, RunStepEffects, PipelineAssumption DEF WorkStarted, Running
  <2>4. OutcomeWritten' /\ ProcessingIsOwned'
    BY <1>d, <1>h, <2>1, RunStepEffects, PipelineAssumption
    DEF OutcomeWritten, ProcessingIsOwned, Running
  <2> QED BY <2>2, <2>3, <2>4 DEF OwnedOK
<1>2. CASE ~ReturnResult(w)
  <2>1. UNCHANGED <<taskState, live, job>>
    BY <1>2 DEF RunStep, ReadDocument, LoadOriginal, ExtractChunks, StoreChunks, RecordResult,
       PublishError, PublishReady, DestroyOriginal, MarkFailed, PublishFailed
  <2>2. \A c \in Docs : status'[c] = "processing" => status[c] = "processing"
    BY <1>2 DEF RunStep, ReadDocument, LoadOriginal, ExtractChunks, StoreChunks, CreateChunks,
       RecordResult, UpdateDocumentProcessingResult, PublishError, PublishReady,
       DestroyOriginal, MarkFailed,
       UpdateDocumentProcessingStatus, PublishFailed, StoreTypeOK
  <2>3. pc'[w] \in {"publishFailed", "returned", "announce", "destroy"}
            => status'[d] # "processing"
    <3>1. CASE MarkFailed(w)
      BY <1>d, <3>1 DEF MarkFailed, UpdateDocumentProcessingStatus, HasRow, Fault, OnlyTimeouts,
         StoreTypeOK
    <3>2. CASE RecordResult(w)
      BY <1>d, <3>2 DEF RecordResult, UpdateDocumentProcessingResult, HasRow, StoreTypeOK,
         RunTypeOK
    <3>3. CASE PublishReady(w) \/ DestroyOriginal(w) \/ PublishFailed(w)
      BY <1>d, <3>3 DEF PublishReady, DestroyOriginal, PublishFailed, OutcomeWritten
    <3>4. CASE \/ ReadDocument(w) \/ LoadOriginal(w) \/ ExtractChunks(w) \/ StoreChunks(w)
               \/ PublishError(w)
      BY <3>4 DEF ReadDocument, LoadOriginal, ExtractChunks, StoreChunks, PublishError, Fault,
         OnlyTimeouts, RunTypeOK
    <3> QED BY <1>2, <3>1, <3>2, <3>3, <3>4 DEF RunStep
  <2>4. WorkStarted' /\ ActiveHeld' /\ ProcessingIsOwned'
    BY <1>h, <2>1, <2>2 DEF WorkStarted, ActiveHeld, ProcessingIsOwned, Running
  <2>5. OutcomeWritten'
    BY <2>1, <2>2, <2>3, RunStepEffects, PipelineAssumption DEF OutcomeWritten, SlotsOK, RunTypeOK
  <2> QED BY <2>4, <2>5 DEF OwnedOK
<1> QED BY <1>1, <1>2

LEMMA OwnedQueue ==
  ASSUME OnlyTimeouts, OwnedInv, QueueStep
  PROVE  OwnedOK'
<1> /\ WorkStarted /\ ActiveHeld /\ OutcomeWritten /\ ProcessingIsOwned
    /\ SlotsOK /\ LiveOK /\ QueueTypeOK /\ RunTypeOK
  BY DEF OwnedInv, OwnedOK, CountInv, SafetyInv, TypeInv, TypeOK
<1> USE DEF storeVars, apiVars
<1>1. ASSUME NEW w \in Workers, NEW d \in Docs, StartTask(w, d) PROVE OwnedOK'
  <2>1. /\ UNCHANGED <<status, hook>> /\ taskState[d] # "none"
        /\ taskState' = [taskState EXCEPT ![d] = "active"]
        /\ job' = [job EXCEPT ![w] = d] /\ live' = [live EXCEPT ![w] = TRUE]
        /\ pc' = [pc EXCEPT ![w] = "get"] /\ pc[w] = "idle" /\ job[w] = NoDoc
    BY <1>1 DEF StartTask, Runnable, Dequeue, Goto, OnlyTimeouts, SlotsOK
  <2>2. WorkStarted' /\ ActiveHeld'
    BY <2>1, PipelineAssumption DEF WorkStarted, ActiveHeld, Running, QueueTypeOK, RunTypeOK
  <2>3. OutcomeWritten' /\ ProcessingIsOwned'
    BY <2>1, PipelineAssumption
    DEF OutcomeWritten, ProcessingIsOwned, Running, QueueTypeOK, RunTypeOK
  <2> QED BY <2>2, <2>3 DEF OwnedOK
<1>2. ASSUME NEW w \in Workers, TimeoutTask(w) PROVE OwnedOK'
  <2>1. /\ UNCHANGED <<status, hook, pc, job>>
        /\ live' = [live EXCEPT ![w] = FALSE] /\ live[w] /\ job[w] \in Docs /\ Running(job[w])
    BY <1>2 DEF TimeoutTask, LiveOK, Running
  <2>2. /\ taskState'[job[w]] \in {"retry", "archived"}
        /\ \A c \in Docs : c # job[w] => taskState'[c] = taskState[c]
    BY <1>2, <2>1 DEF TimeoutTask, FailTask, QueueTypeOK
  <2> QED BY <2>1, <2>2
      DEF OwnedOK, WorkStarted, ActiveHeld, OutcomeWritten, ProcessingIsOwned, Running, RunTypeOK
<1>3. ASSUME NEW d \in Docs, RecoverLease(d) PROVE FALSE
  BY <1>3 DEF RecoverLease, ActiveHeld
<1>4. CASE CrashApi \/ StopWorker
  BY <1>4 DEF CrashApi, StopWorker, Fault, OnlyTimeouts
<1> QED BY <1>1, <1>2, <1>3, <1>4 DEF QueueStep

\* With one delivery, complete payloads and no fault but timeouts, a row in
\* processing always has somebody who will change it.
THEOREM ProcessingOwned ==
  ASSUME SingleDelivery, OnlyTimeouts
  PROVE  Spec => []ProcessingIsOwned
<1>1. OwnedInv /\ [Next]_vars => OwnedInv'
  <2> SUFFICES ASSUME OwnedInv, [Next]_vars PROVE OwnedOK'
    BY CountStep DEF OwnedInv
  <2>1. CASE UNCHANGED vars
    BY <2>1 DEF vars, storeVars, queueVars, apiVars, runVars, OwnedInv, OwnedOK, WorkStarted,
       ActiveHeld, OutcomeWritten, ProcessingIsOwned, Running
  <2>2. CASE Next
    BY <2>2, OwnedApi, OwnedRun, OwnedQueue DEF Next, QueueStep
  <2> QED BY <2>1, <2>2
<1>2. OwnedInv => ProcessingIsOwned
  BY DEF OwnedInv, OwnedOK
<1> QED BY <1>1, <1>2, OwnedInit, PTL DEF Spec
=============================================================================
