---------------------------- MODULE PipelineProofs ----------------------------
(***************************************************************************)
(* What holds of the pipeline for every set of documents, deliveries and   *)
(* workers, every number of retries and chunks, and every kind and number  *)
(* of faults.                                                              *)
(***************************************************************************)
EXTENDS DocumentPipeline, TLAPS

-----------------------------------------------------------------------------
(* The inductive invariant. *)

\* A slot has a document exactly while it runs; asynq waits only for runs.
SlotsOK ==
    \A w \in Workers :
        /\ pc[w] = "idle" <=> job[w] = NoDoc
        /\ live[w] => pc[w] # "idle"

\* An attempt reaches StoreChunks with at least one chunk.
ChunksToStore == \A w \in Workers : pc[w] = "store" => made[w] > 0

TypeInv == TypeOK /\ SlotsOK /\ ChunksToStore

\* SaveDocument is the only way out of "absent".
SavedOnce == \A d \in Docs : upload[d] # "done" <=> status[d] = "absent"

\* A delivery that was told to process the document, its task and its
\* attempts all exist on behalf of a row that was saved and claimed.
WorkIsClaimed ==
    \A d \in Docs :
        \/ \E h \in Deliveries : hook[d][h] = "claimed"
        \/ taskState[d] # "none"
        \/ Running(d)
        => status[d] \notin {"absent", "uploaded"}

\* After CreateChunks an attempt may rely on the chunks until the owner
\* deletes the document.
StoredBeforeRecord ==
    \A w \in Workers : pc[w] \in {"record", "announce", "destroy"}
                          => chunkRows[job[w]] > 0 \/ status[job[w]] = "deleted"

\* ClaimsBounded, sharpened by what the status still permits.
ClaimsByStatus ==
    \A d \in Docs :
        /\ status[d] \in {"absent", "uploaded"} => claims[d] = 0
        /\ status[d] = "failed" => claims[d] <= failures[d]
        /\ claims[d] <= failures[d] + 1

SafetyParts ==
    /\ SavedOnce
    /\ WorkIsClaimed
    /\ StoredBeforeRecord
    /\ ReadyIsSearchable
    /\ OriginalNotLost
    /\ ClaimsByStatus

SafetyInv == TypeInv /\ SafetyParts

-----------------------------------------------------------------------------
(* Types. *)

LEMMA TypeInit == Init => TypeInv
<1> USE ChunkAssumption, RetryAssumption, PipelineAssumption DEF Init
<1>1. Init => StoreTypeOK /\ QueueTypeOK
  BY DEF StoreInit, QueueInit, StoreTypeOK, QueueTypeOK, Statuses, TaskStates
<1>2. Init => ApiTypeOK /\ RunTypeOK /\ OutsideTypeOK
  BY DEF ApiTypeOK, RunTypeOK, OutsideTypeOK, Steps
<1>3. Init => SlotsOK /\ ChunksToStore
  BY DEF SlotsOK, ChunksToStore
<1> QED BY <1>1, <1>2, <1>3 DEF TypeInv, TypeOK

\* The parts in which every step below is checked.
LEMMA TypeParts ==
  (/\ StoreTypeOK /\ QueueTypeOK /\ ApiTypeOK /\ RunTypeOK /\ OutsideTypeOK
   /\ SlotsOK /\ ChunksToStore)' => TypeInv'
  BY DEF TypeInv, TypeOK

\* The steps of the API process keep the types.
LEMMA TypeApi ==
  ASSUME TypeInv, NEW d \in Docs, ApiStep(d)
  PROVE  TypeInv'
<1> USE ChunkAssumption, RetryAssumption, PipelineAssumption
<1> /\ StoreTypeOK /\ QueueTypeOK /\ ApiTypeOK /\ RunTypeOK /\ OutsideTypeOK
    /\ SlotsOK /\ ChunksToStore
  BY DEF TypeInv, TypeOK
<1>1. CASE UploadOriginal(d)
  <2>1. ApiTypeOK'
    BY <1>1 DEF UploadOriginal, ApiTypeOK
  <2>2. OutsideTypeOK'
    BY <1>1 DEF UploadOriginal, OutsideTypeOK
  <2>3. StoreTypeOK' /\ QueueTypeOK' /\ RunTypeOK' /\ SlotsOK' /\ ChunksToStore'
    BY <1>1 DEF UploadOriginal, StoreTypeOK, QueueTypeOK, RunTypeOK, SlotsOK, ChunksToStore, storeVars, queueVars, runVars
  <2> QED BY <2>1, <2>2, <2>3, TypeParts
<1>2. CASE SaveDocument(d)
  <2>1. StoreTypeOK'
    BY <1>2 DEF SaveDocument, InsertDocument, storeVars, StoreTypeOK, Statuses
  <2>2. ApiTypeOK'
    BY <1>2 DEF SaveDocument, ApiTypeOK
  <2>3. OutsideTypeOK'
    BY <1>2 DEF SaveDocument, Fault, NoFault, OutsideTypeOK
  <2>4. QueueTypeOK' /\ RunTypeOK' /\ SlotsOK' /\ ChunksToStore'
    BY <1>2 DEF SaveDocument, QueueTypeOK, RunTypeOK, SlotsOK, ChunksToStore, queueVars, runVars
  <2> QED BY <2>1, <2>2, <2>3, <2>4, TypeParts
<1>3. ASSUME NEW h \in Deliveries, ReceiveWebhook(d, h) PROVE TypeInv'
  <2>1. StoreTypeOK'
    BY <1>3 DEF ReceiveWebhook, MarkProcessing, storeVars, StoreTypeOK, Statuses
  <2>2. ApiTypeOK'
    <3>1. hook' \in [Docs -> [Deliveries -> {"unsent", "claimed", "queued",
                                              "skipped", "refused", "bounced"}]]
      BY <1>3 DEF ReceiveWebhook, ApiTypeOK
    <3>2. UNCHANGED upload /\ claims' \in [Docs -> Nat]
      BY <1>3 DEF ReceiveWebhook, ApiTypeOK
    <3> QED BY <3>1, <3>2 DEF ApiTypeOK
  <2>3. OutsideTypeOK'
    BY <1>3 DEF ReceiveWebhook, Fault, NoFault, OutsideTypeOK
  <2>4. QueueTypeOK' /\ RunTypeOK' /\ SlotsOK' /\ ChunksToStore'
    BY <1>3 DEF ReceiveWebhook, QueueTypeOK, RunTypeOK, SlotsOK, ChunksToStore, queueVars, runVars
  <2> QED BY <2>1, <2>2, <2>3, <2>4, TypeParts
<1>4. ASSUME NEW h \in Deliveries, EnqueueTask(d, h) PROVE TypeInv'
  <2>1. QueueTypeOK'
    BY <1>4 DEF EnqueueTask, PushTask, queueVars, QueueTypeOK, TaskStates
  <2>2. ApiTypeOK'
    <3>1. hook' \in [Docs -> [Deliveries -> {"unsent", "claimed", "queued",
                                              "skipped", "refused", "bounced"}]]
      BY <1>4 DEF EnqueueTask, ApiTypeOK
    <3>2. UNCHANGED <<upload, claims>>
      BY <1>4 DEF EnqueueTask
    <3> QED BY <3>1, <3>2 DEF ApiTypeOK
  <2>3. OutsideTypeOK'
    BY <1>4 DEF EnqueueTask, Fault, NoFault, OutsideTypeOK
  <2>4. StoreTypeOK' /\ RunTypeOK' /\ SlotsOK' /\ ChunksToStore'
    BY <1>4 DEF EnqueueTask, StoreTypeOK, RunTypeOK, SlotsOK, ChunksToStore, storeVars, runVars
  <2> QED BY <2>1, <2>2, <2>3, <2>4, TypeParts
<1>5. CASE DeleteDocument(d)
  <2>1. StoreTypeOK'
    BY <1>5 DEF DeleteDocument, DeleteRows, StoreTypeOK, Statuses
  <2>2. QueueTypeOK' /\ ApiTypeOK' /\ RunTypeOK' /\ OutsideTypeOK' /\ SlotsOK' /\ ChunksToStore'
    BY <1>5 DEF DeleteDocument, QueueTypeOK, ApiTypeOK, RunTypeOK, OutsideTypeOK, SlotsOK, ChunksToStore, queueVars, apiVars, runVars
  <2> QED BY <2>1, <2>2, TypeParts
<1> QED BY <1>1, <1>2, <1>3, <1>4, <1>5 DEF ApiStep

\* The steps of ProcessTask keep the types.
LEMMA TypeRun ==
  ASSUME TypeInv, NEW w \in Workers, RunStep(w)
  PROVE  TypeInv'
<1> USE ChunkAssumption, RetryAssumption, PipelineAssumption
<1> /\ StoreTypeOK /\ QueueTypeOK /\ ApiTypeOK /\ RunTypeOK /\ OutsideTypeOK
    /\ SlotsOK /\ ChunksToStore
  BY DEF TypeInv, TypeOK
<1>1. CASE ReadDocument(w)
  <2>1. RunTypeOK'
    BY <1>1 DEF ReadDocument, Raise, Goto, RunTypeOK, Steps
  <2>2. OutsideTypeOK'
    BY <1>1 DEF ReadDocument, Fault, NoFault, OutsideTypeOK
  <2>3. SlotsOK' /\ ChunksToStore'
    BY <1>1 DEF ReadDocument, Raise, Goto, SlotsOK, ChunksToStore, RunTypeOK
  <2>4. StoreTypeOK' /\ QueueTypeOK' /\ ApiTypeOK'
    BY <1>1 DEF ReadDocument, StoreTypeOK, QueueTypeOK, ApiTypeOK, storeVars, queueVars, apiVars
  <2> QED BY <2>1, <2>2, <2>3, <2>4, TypeParts
<1>2. CASE LoadOriginal(w)
  <2>1. RunTypeOK'
    BY <1>2 DEF LoadOriginal, Raise, Goto, RunTypeOK, Steps
  <2>2. SlotsOK' /\ ChunksToStore'
    BY <1>2 DEF LoadOriginal, Raise, Goto, SlotsOK, ChunksToStore, RunTypeOK
  <2>3. StoreTypeOK' /\ QueueTypeOK' /\ ApiTypeOK' /\ OutsideTypeOK'
    BY <1>2 DEF LoadOriginal, StoreTypeOK, QueueTypeOK, ApiTypeOK, OutsideTypeOK, storeVars, queueVars, apiVars
  <2> QED BY <2>1, <2>2, <2>3, TypeParts
<1>3. CASE ExtractChunks(w)
  <2>1. RunTypeOK'
    BY <1>3 DEF ExtractChunks, Raise, Goto, RunTypeOK, Steps
  <2>2. OutsideTypeOK'
    BY <1>3 DEF ExtractChunks, Fault, NoFault, OutsideTypeOK
  <2>3. SlotsOK' /\ ChunksToStore'
    BY <1>3 DEF ExtractChunks, Raise, Goto, SlotsOK, ChunksToStore, RunTypeOK
  <2>4. StoreTypeOK' /\ QueueTypeOK' /\ ApiTypeOK'
    BY <1>3 DEF ExtractChunks, StoreTypeOK, QueueTypeOK, ApiTypeOK, storeVars, queueVars, apiVars
  <2> QED BY <2>1, <2>2, <2>3, <2>4, TypeParts
<1>4. CASE StoreChunks(w)
  <2>1. StoreTypeOK'
    <3>1. made[w] \in 0..MaxChunks
      BY DEF RunTypeOK
    <3> QED BY <1>4, <3>1 DEF StoreChunks, CreateChunks, storeVars, StoreTypeOK, Statuses
  <2>2. RunTypeOK'
    BY <1>4 DEF StoreChunks, Raise, Goto, RunTypeOK, Steps
  <2>3. OutsideTypeOK'
    BY <1>4 DEF StoreChunks, Fault, NoFault, OutsideTypeOK
  <2>4. SlotsOK' /\ ChunksToStore'
    BY <1>4 DEF StoreChunks, Raise, Goto, SlotsOK, ChunksToStore, RunTypeOK
  <2>5. QueueTypeOK' /\ ApiTypeOK'
    BY <1>4 DEF StoreChunks, QueueTypeOK, ApiTypeOK, queueVars, apiVars
  <2> QED BY <2>1, <2>2, <2>3, <2>4, <2>5, TypeParts
<1>5. CASE RecordResult(w)
  <2>1. StoreTypeOK'
    <3>1. made[w] \in 0..MaxChunks
      BY DEF RunTypeOK
    <3> QED BY <1>5, <3>1 DEF RecordResult, UpdateDocumentProcessingResult, storeVars, StoreTypeOK, Statuses
  <2>2. RunTypeOK'
    BY <1>5 DEF RecordResult, Goto, RunTypeOK, Steps
  <2>3. OutsideTypeOK'
    BY <1>5 DEF RecordResult, Fault, NoFault, OutsideTypeOK
  <2>4. SlotsOK' /\ ChunksToStore'
    BY <1>5 DEF RecordResult, Goto, SlotsOK, ChunksToStore, RunTypeOK
  <2>5. QueueTypeOK' /\ ApiTypeOK'
    BY <1>5 DEF RecordResult, QueueTypeOK, ApiTypeOK, queueVars, apiVars
  <2> QED BY <2>1, <2>2, <2>3, <2>4, <2>5, TypeParts
<1>6. CASE PublishReady(w)
  <2>1. RunTypeOK'
    BY <1>6 DEF PublishReady, Goto, RunTypeOK, Steps
  <2>2. OutsideTypeOK'
    BY <1>6 DEF PublishReady, Published, Fault, NoFault, OutsideTypeOK
  <2>3. SlotsOK' /\ ChunksToStore'
    BY <1>6 DEF PublishReady, Goto, SlotsOK, ChunksToStore, RunTypeOK
  <2>4. StoreTypeOK' /\ QueueTypeOK' /\ ApiTypeOK'
    BY <1>6 DEF PublishReady, StoreTypeOK, QueueTypeOK, ApiTypeOK, storeVars, queueVars, apiVars
  <2> QED BY <2>1, <2>2, <2>3, <2>4, TypeParts
<1>7. CASE DestroyOriginal(w)
  <2>1. RunTypeOK'
    BY <1>7 DEF DestroyOriginal, Goto, RunTypeOK, Steps
  <2>2. OutsideTypeOK'
    BY <1>7 DEF DestroyOriginal, OutsideTypeOK
  <2>3. SlotsOK' /\ ChunksToStore'
    BY <1>7 DEF DestroyOriginal, Goto, SlotsOK, ChunksToStore, RunTypeOK
  <2>4. StoreTypeOK' /\ QueueTypeOK' /\ ApiTypeOK'
    BY <1>7 DEF DestroyOriginal, StoreTypeOK, QueueTypeOK, ApiTypeOK, storeVars, queueVars, apiVars
  <2> QED BY <2>1, <2>2, <2>3, <2>4, TypeParts
<1>8. CASE MarkFailed(w)
  <2>1. StoreTypeOK'
    BY <1>8 DEF MarkFailed, UpdateDocumentProcessingStatus, storeVars, StoreTypeOK, Statuses
  <2>2. RunTypeOK'
    BY <1>8 DEF MarkFailed, Goto, RunTypeOK, Steps
  <2>3. OutsideTypeOK'
    BY <1>8 DEF MarkFailed, Fault, NoFault, OutsideTypeOK
  <2>4. SlotsOK' /\ ChunksToStore'
    BY <1>8 DEF MarkFailed, Goto, SlotsOK, ChunksToStore, RunTypeOK
  <2>5. QueueTypeOK' /\ ApiTypeOK'
    BY <1>8 DEF MarkFailed, QueueTypeOK, ApiTypeOK, queueVars, apiVars
  <2> QED BY <2>1, <2>2, <2>3, <2>4, <2>5, TypeParts
<1>9. CASE PublishFailed(w)
  <2>1. RunTypeOK'
    BY <1>9 DEF PublishFailed, Goto, RunTypeOK, Steps
  <2>2. OutsideTypeOK'
    BY <1>9 DEF PublishFailed, Published, Fault, NoFault, OutsideTypeOK
  <2>3. SlotsOK' /\ ChunksToStore'
    BY <1>9 DEF PublishFailed, Goto, SlotsOK, ChunksToStore, RunTypeOK
  <2>4. StoreTypeOK' /\ QueueTypeOK' /\ ApiTypeOK'
    BY <1>9 DEF PublishFailed, StoreTypeOK, QueueTypeOK, ApiTypeOK, storeVars, queueVars, apiVars
  <2> QED BY <2>1, <2>2, <2>3, <2>4, TypeParts
<1>11. CASE PublishError(w)
  <2>1. RunTypeOK'
    BY <1>11 DEF PublishError, Goto, RunTypeOK, Steps
  <2>2. OutsideTypeOK'
    BY <1>11 DEF PublishError, Published, Fault, NoFault, OutsideTypeOK
  <2>3. SlotsOK' /\ ChunksToStore'
    BY <1>11 DEF PublishError, Goto, SlotsOK, ChunksToStore, RunTypeOK
  <2>4. StoreTypeOK' /\ QueueTypeOK' /\ ApiTypeOK'
    BY <1>11 DEF PublishError, StoreTypeOK, QueueTypeOK, ApiTypeOK, storeVars, queueVars, apiVars
  <2> QED BY <2>1, <2>2, <2>3, <2>4, TypeParts
<1>10. CASE ReturnResult(w)
  <2>1. QueueTypeOK'
    BY <1>10 DEF ReturnResult, Done, FailTask, queueVars, QueueTypeOK, TaskStates
  <2>2. RunTypeOK'
    BY <1>10 DEF ReturnResult, RunTypeOK, Steps
  <2>3. SlotsOK' /\ ChunksToStore'
    BY <1>10 DEF ReturnResult, SlotsOK, ChunksToStore, RunTypeOK
  <2>4. StoreTypeOK' /\ ApiTypeOK' /\ OutsideTypeOK'
    BY <1>10 DEF ReturnResult, StoreTypeOK, ApiTypeOK, OutsideTypeOK, storeVars, apiVars
  <2> QED BY <2>1, <2>2, <2>3, <2>4, TypeParts
<1> QED BY <1>1, <1>2, <1>3, <1>4, <1>5, <1>6, <1>7, <1>8, <1>9, <1>10, <1>11 DEF RunStep

\* The steps of asynq and the crashes keep the types.
LEMMA TypeQueue ==
  ASSUME TypeInv,
         \/ \E w \in Workers, d \in Docs : StartTask(w, d)
         \/ \E w \in Workers : TimeoutTask(w)
         \/ \E d \in Docs : RecoverLease(d)
         \/ CrashApi
         \/ StopWorker
  PROVE  TypeInv'
<1> USE ChunkAssumption, RetryAssumption, PipelineAssumption
<1> /\ StoreTypeOK /\ QueueTypeOK /\ ApiTypeOK /\ RunTypeOK /\ OutsideTypeOK
    /\ SlotsOK /\ ChunksToStore
  BY DEF TypeInv, TypeOK
<1>1. ASSUME NEW w \in Workers, NEW d \in Docs, StartTask(w, d) PROVE TypeInv'
  <2>1. QueueTypeOK'
    BY <1>1 DEF StartTask, Dequeue, QueueTypeOK, TaskStates
  <2>2. RunTypeOK'
    BY <1>1 DEF StartTask, Goto, RunTypeOK, Steps
  <2>3. SlotsOK' /\ ChunksToStore'
    BY <1>1 DEF StartTask, Goto, SlotsOK, ChunksToStore, RunTypeOK
  <2>4. StoreTypeOK' /\ ApiTypeOK' /\ OutsideTypeOK'
    BY <1>1 DEF StartTask, StoreTypeOK, ApiTypeOK, OutsideTypeOK, storeVars, apiVars
  <2> QED BY <2>1, <2>2, <2>3, <2>4, TypeParts
<1>2. ASSUME NEW w \in Workers, TimeoutTask(w) PROVE TypeInv'
  <2>1. QueueTypeOK'
    BY <1>2 DEF TimeoutTask, FailTask, QueueTypeOK, TaskStates
  <2>2. RunTypeOK'
    BY <1>2 DEF TimeoutTask, RunTypeOK, Steps
  <2>3. OutsideTypeOK'
    BY <1>2 DEF TimeoutTask, Fault, OutsideTypeOK
  <2>4. SlotsOK' /\ ChunksToStore'
    BY <1>2 DEF TimeoutTask, SlotsOK, ChunksToStore, RunTypeOK
  <2>5. StoreTypeOK' /\ ApiTypeOK'
    BY <1>2 DEF TimeoutTask, StoreTypeOK, ApiTypeOK, storeVars, apiVars
  <2> QED BY <2>1, <2>2, <2>3, <2>4, <2>5, TypeParts
<1>3. ASSUME NEW d \in Docs, RecoverLease(d) PROVE TypeInv'
  <2>1. QueueTypeOK'
    BY <1>3 DEF RecoverLease, FailTask, QueueTypeOK, TaskStates
  <2>2. StoreTypeOK' /\ ApiTypeOK' /\ RunTypeOK' /\ OutsideTypeOK' /\ SlotsOK' /\ ChunksToStore'
    BY <1>3 DEF RecoverLease, StoreTypeOK, ApiTypeOK, RunTypeOK, OutsideTypeOK, SlotsOK, ChunksToStore, storeVars, apiVars, runVars
  <2> QED BY <2>1, <2>2, TypeParts
<1>4. CASE CrashApi
  <2>1. ApiTypeOK'
    BY <1>4 DEF CrashApi, ApiTypeOK
  <2>2. OutsideTypeOK'
    BY <1>4 DEF CrashApi, Fault, OutsideTypeOK
  <2>3. StoreTypeOK' /\ QueueTypeOK' /\ RunTypeOK' /\ SlotsOK' /\ ChunksToStore'
    BY <1>4 DEF CrashApi, StoreTypeOK, QueueTypeOK, RunTypeOK, SlotsOK, ChunksToStore, storeVars, queueVars, runVars
  <2> QED BY <2>1, <2>2, <2>3, TypeParts
<1>5. CASE StopWorker
  <2>1. RunTypeOK'
    BY <1>5 DEF StopWorker, RunTypeOK, Steps
  <2>2. OutsideTypeOK'
    BY <1>5 DEF StopWorker, Fault, OutsideTypeOK
  <2>3. SlotsOK' /\ ChunksToStore'
    BY <1>5 DEF StopWorker, SlotsOK, ChunksToStore, RunTypeOK
  <2>4. StoreTypeOK' /\ ApiTypeOK'
    BY <1>5 DEF StopWorker, StoreTypeOK, ApiTypeOK, storeVars, apiVars
  <2>5. QueueTypeOK'
    BY <1>5 DEF StopWorker, Requeue, QueueTypeOK, TaskStates, queueVars
  <2> QED BY <2>1, <2>2, <2>3, <2>4, <2>5, TypeParts
<1> QED BY <1>1, <1>2, <1>3, <1>4, <1>5

LEMMA TypeStep == TypeInv /\ [Next]_vars => TypeInv'
<1> SUFFICES ASSUME TypeInv, [Next]_vars PROVE TypeInv'
  OBVIOUS
<1>1. CASE UNCHANGED vars
  BY <1>1 DEF vars, storeVars, queueVars, apiVars, runVars, TypeInv, TypeOK,
      StoreTypeOK, QueueTypeOK, ApiTypeOK, RunTypeOK, OutsideTypeOK, SlotsOK, ChunksToStore
<1>2. CASE Next
  BY <1>2, TypeApi, TypeRun, TypeQueue DEF Next
<1> QED BY <1>1, <1>2

LEMMA TypeInvariant == Spec => []TypeInv
  BY TypeInit, TypeStep, PTL DEF Spec

\* Every variable stays in its type, the counters of retries and faults
\* within their bounds included.
THEOREM TypeCorrect == Spec => []TypeOK
<1>1. TypeInv => TypeOK
  BY DEF TypeInv
<1> QED BY <1>1, TypeInvariant, PTL

-----------------------------------------------------------------------------
(* Safety. *)

\* A slot that is not idle runs ProcessTask for some document.
LEMMA RunningSlot ==
  ASSUME SafetyInv, NEW w \in Workers, pc[w] # "idle"
  PROVE  job[w] \in Docs /\ Running(job[w])
  BY DEF SafetyInv, TypeInv, TypeOK, RunTypeOK, SlotsOK, Running

LEMMA SafetyInit == Init => SafetyInv
<1> SUFFICES ASSUME Init PROVE SafetyParts
  BY TypeInit DEF SafetyInv
<1> USE DEF Init, StoreInit, QueueInit
<1>1. SavedOnce /\ ReadyIsSearchable /\ OriginalNotLost
  BY DEF SavedOnce, ReadyIsSearchable, OriginalNotLost
<1>2. WorkIsClaimed /\ StoredBeforeRecord
  BY PipelineAssumption DEF WorkIsClaimed, Running, StoredBeforeRecord
<1>3. \A d \in Docs : claims[d] = 0 /\ failures[d] = 0
  OBVIOUS
<1>4. 0 <= 0 /\ 0 <= 0 + 1
  BY SMT
<1>5. ClaimsByStatus
  BY <1>3, <1>4, Zenon DEF ClaimsByStatus
<1> QED BY <1>1, <1>2, <1>5 DEF SafetyParts

\* The steps of the API process keep the invariant.
LEMMA SafetyApi ==
  ASSUME SafetyInv, NEW d \in Docs, ApiStep(d)
  PROVE  SafetyParts'
<1> USE ChunkAssumption, PipelineAssumption
<1> /\ StoreTypeOK /\ QueueTypeOK /\ ApiTypeOK /\ RunTypeOK /\ OutsideTypeOK
    /\ SlotsOK /\ ChunksToStore
  BY DEF SafetyInv, TypeInv, TypeOK
<1> /\ SavedOnce /\ WorkIsClaimed /\ StoredBeforeRecord
    /\ ReadyIsSearchable /\ OriginalNotLost /\ ClaimsByStatus
  BY DEF SafetyInv, SafetyParts
<1> USE DEF StoreTypeOK, QueueTypeOK, ApiTypeOK, RunTypeOK, OutsideTypeOK
<1>1. CASE UploadOriginal(d)
  <2>1. SavedOnce'
    BY <1>1 DEF UploadOriginal, storeVars, apiVars, SavedOnce
  <2>2. OriginalNotLost'
    BY <1>1 DEF UploadOriginal, storeVars, OriginalNotLost
  <2>3. WorkIsClaimed' /\ StoredBeforeRecord' /\ ReadyIsSearchable' /\ ClaimsByStatus'
    BY <1>1 DEF UploadOriginal, storeVars, apiVars, runVars, queueVars, WorkIsClaimed, Running, StoredBeforeRecord, ReadyIsSearchable, ClaimsByStatus
  <2> QED BY <2>1, <2>2, <2>3 DEF SafetyParts
<1>2. CASE SaveDocument(d)
  <2>1. status[d] = "absent"
    BY <1>2 DEF SaveDocument, SavedOnce
  <2>2. SavedOnce'
    BY <1>2, <2>1 DEF SaveDocument, InsertDocument, storeVars, apiVars, SavedOnce
  <2>3. WorkIsClaimed'
    <3>1. \A c \in Docs : c # d => status'[c] = status[c]
      BY <1>2 DEF SaveDocument, InsertDocument, storeVars
    <3>2. UNCHANGED <<hook, taskState, job>>
      BY <1>2 DEF SaveDocument, queueVars, runVars
    <3> QED BY <2>1, <3>1, <3>2 DEF WorkIsClaimed, Running
  <2>4. StoredBeforeRecord'
    <3>1. \A c \in Docs : status[c] = "deleted" => status'[c] = "deleted"
      BY <1>2, <2>1 DEF SaveDocument, InsertDocument, storeVars
    <3>2. UNCHANGED <<chunkRows, pc, job>>
      BY <1>2 DEF SaveDocument, InsertDocument, storeVars, runVars
    <3> QED BY <3>1, <3>2 DEF StoredBeforeRecord, SlotsOK
  <2>5. ReadyIsSearchable'
    BY <1>2, <2>1 DEF SaveDocument, InsertDocument, storeVars, ReadyIsSearchable
  <2>6. OriginalNotLost'
    BY <1>2, <2>1 DEF SaveDocument, InsertDocument, storeVars, OriginalNotLost
  <2>7. ClaimsByStatus'
    BY <1>2, <2>1 DEF SaveDocument, InsertDocument, storeVars, apiVars, ClaimsByStatus
  <2> QED BY <2>2, <2>3, <2>4, <2>5, <2>6, <2>7 DEF SafetyParts
<1>3. ASSUME NEW h \in Deliveries, ReceiveWebhook(d, h) PROVE SafetyParts'
  <2>1. SavedOnce'
    BY <1>3 DEF ReceiveWebhook, ShouldProcessDocument, MarkProcessing, storeVars, apiVars, SavedOnce
  <2>2. WorkIsClaimed'
    <3>1. \A c \in Docs : status[c] \notin {"absent", "uploaded"}
                             => status'[c] \notin {"absent", "uploaded"}
      BY <1>3 DEF ReceiveWebhook, MarkProcessing, storeVars
    <3>2. \A c \in Docs, g \in Deliveries : hook'[c][g] = "claimed"
              => hook[c][g] = "claimed" \/ status'[c] = "processing"
      BY <1>3 DEF ReceiveWebhook, MarkProcessing
    <3>3. UNCHANGED <<taskState, job>>
      BY <1>3 DEF ReceiveWebhook, queueVars, runVars
    <3> QED BY <3>1, <3>2, <3>3 DEF WorkIsClaimed, Running
  <2>3. StoredBeforeRecord'
    <3>1. \A c \in Docs : status[c] = "deleted" => status'[c] = "deleted"
      BY <1>3 DEF ReceiveWebhook, ShouldProcessDocument, MarkProcessing, storeVars
    <3>2. UNCHANGED <<chunkRows, pc, job>>
      BY <1>3 DEF ReceiveWebhook, MarkProcessing, storeVars, runVars
    <3> QED BY <3>1, <3>2 DEF StoredBeforeRecord, SlotsOK
  <2>4. ReadyIsSearchable'
    BY <1>3 DEF ReceiveWebhook, ShouldProcessDocument, MarkProcessing, storeVars, ReadyIsSearchable
  <2>5. OriginalNotLost'
    BY <1>3 DEF ReceiveWebhook, ShouldProcessDocument, MarkProcessing, storeVars, OriginalNotLost
  <2>6. ClaimsByStatus'
    BY <1>3 DEF ReceiveWebhook, ShouldProcessDocument, MarkProcessing, storeVars, apiVars, ClaimsByStatus
  <2> QED BY <2>1, <2>2, <2>3, <2>4, <2>5, <2>6 DEF SafetyParts
<1>4. ASSUME NEW h \in Deliveries, EnqueueTask(d, h) PROVE SafetyParts'
  <2>1. WorkIsClaimed'
    BY <1>4 DEF EnqueueTask, PushTask, apiVars, queueVars, runVars, storeVars, WorkIsClaimed, Running
  <2>2. SavedOnce' /\ StoredBeforeRecord' /\ ReadyIsSearchable' /\ OriginalNotLost' /\ ClaimsByStatus'
    BY <1>4 DEF EnqueueTask, storeVars, apiVars, runVars, SavedOnce, StoredBeforeRecord, ReadyIsSearchable, OriginalNotLost, ClaimsByStatus
  <2> QED BY <2>1, <2>2 DEF SafetyParts
<1>5. CASE DeleteDocument(d)
  <2>1. SavedOnce'
    BY <1>5 DEF DeleteDocument, DeleteRows, HasRow, storeVars, apiVars, SavedOnce
  <2>2. WorkIsClaimed'
    BY <1>5 DEF DeleteDocument, DeleteRows, HasRow, apiVars, queueVars, runVars, storeVars, WorkIsClaimed, Running
  <2>3. StoredBeforeRecord'
    BY <1>5 DEF DeleteDocument, DeleteRows, HasRow, runVars, storeVars, StoredBeforeRecord
  <2>4. ReadyIsSearchable'
    BY <1>5 DEF DeleteDocument, DeleteRows, HasRow, storeVars, ReadyIsSearchable
  <2>5. OriginalNotLost'
    BY <1>5 DEF DeleteDocument, DeleteRows, HasRow, storeVars, OriginalNotLost
  <2>6. ClaimsByStatus'
    BY <1>5 DEF DeleteDocument, DeleteRows, HasRow, storeVars, apiVars, ClaimsByStatus
  <2> QED BY <2>1, <2>2, <2>3, <2>4, <2>5, <2>6 DEF SafetyParts
<1> QED BY <1>1, <1>2, <1>3, <1>4, <1>5 DEF ApiStep

\* The steps of ProcessTask keep the invariant.
LEMMA SafetyRun ==
  ASSUME SafetyInv, NEW w \in Workers, RunStep(w)
  PROVE  SafetyParts'
<1> USE ChunkAssumption, PipelineAssumption
<1> /\ StoreTypeOK /\ QueueTypeOK /\ ApiTypeOK /\ RunTypeOK /\ OutsideTypeOK
    /\ SlotsOK /\ ChunksToStore
  BY DEF SafetyInv, TypeInv, TypeOK
<1> /\ SavedOnce /\ WorkIsClaimed /\ StoredBeforeRecord
    /\ ReadyIsSearchable /\ OriginalNotLost /\ ClaimsByStatus
  BY DEF SafetyInv, SafetyParts
<1> USE DEF StoreTypeOK, QueueTypeOK, ApiTypeOK, RunTypeOK, OutsideTypeOK
<1>1. CASE ReadDocument(w)
  <2>1. job[w] \in Docs /\ Running(job[w])
    BY <1>1, RunningSlot DEF ReadDocument
  <2>2. StoredBeforeRecord'
    BY <1>1, <2>1 DEF ReadDocument, Raise, Goto, runVars, storeVars, StoredBeforeRecord
  <2>3. SavedOnce' /\ WorkIsClaimed' /\ ReadyIsSearchable' /\ OriginalNotLost' /\ ClaimsByStatus'
    BY <1>1 DEF ReadDocument, storeVars, apiVars, runVars, queueVars, SavedOnce, WorkIsClaimed, Running, ReadyIsSearchable, OriginalNotLost, ClaimsByStatus
  <2> QED BY <2>2, <2>3 DEF SafetyParts
<1>2. CASE LoadOriginal(w)
  <2>1. job[w] \in Docs /\ Running(job[w])
    BY <1>2, RunningSlot DEF LoadOriginal
  <2>2. StoredBeforeRecord'
    BY <1>2, <2>1 DEF LoadOriginal, Raise, Goto, runVars, storeVars, StoredBeforeRecord
  <2>3. SavedOnce' /\ WorkIsClaimed' /\ ReadyIsSearchable' /\ OriginalNotLost' /\ ClaimsByStatus'
    BY <1>2 DEF LoadOriginal, storeVars, apiVars, runVars, queueVars, SavedOnce, WorkIsClaimed, Running, ReadyIsSearchable, OriginalNotLost, ClaimsByStatus
  <2> QED BY <2>2, <2>3 DEF SafetyParts
<1>3. CASE ExtractChunks(w)
  <2>1. job[w] \in Docs /\ Running(job[w])
    BY <1>3, RunningSlot DEF ExtractChunks
  <2>2. StoredBeforeRecord'
    BY <1>3, <2>1 DEF ExtractChunks, Raise, Goto, runVars, storeVars, StoredBeforeRecord
  <2>3. SavedOnce' /\ WorkIsClaimed' /\ ReadyIsSearchable' /\ OriginalNotLost' /\ ClaimsByStatus'
    BY <1>3 DEF ExtractChunks, storeVars, apiVars, runVars, queueVars, SavedOnce, WorkIsClaimed, Running, ReadyIsSearchable, OriginalNotLost, ClaimsByStatus
  <2> QED BY <2>2, <2>3 DEF SafetyParts
<1>4. CASE StoreChunks(w)
  <2>1. job[w] \in Docs /\ Running(job[w])
    BY <1>4, RunningSlot DEF StoreChunks
  <2>2. made[w] > 0
    BY <1>4, <2>1 DEF StoreChunks, ChunksToStore
  <2>3. StoredBeforeRecord'
    <3>1. \A d \in Docs : chunkRows[d] > 0 => chunkRows'[d] > 0
      BY <1>4, <2>1, <2>2 DEF StoreChunks, CreateChunks, storeVars
    <3>2. UNCHANGED <<status, job>>
      BY <1>4 DEF StoreChunks, CreateChunks, storeVars
    <3>3. \A v \in Workers : pc'[v] \in {"record", "announce", "destroy"}
              => pc'[v] = pc[v] \/ chunkRows'[job[v]] > 0
      BY <1>4, <2>1, <2>2 DEF StoreChunks, CreateChunks, Raise, Goto
    <3> QED BY <3>1, <3>2, <3>3 DEF StoredBeforeRecord, SlotsOK
  <2>4. ReadyIsSearchable'
    <3>1. \A d \in Docs : chunkRows[d] > 0 => chunkRows'[d] > 0
      BY <1>4, <2>1, <2>2 DEF StoreChunks, CreateChunks, storeVars
    <3>2. UNCHANGED status
      BY <1>4 DEF StoreChunks, CreateChunks, storeVars
    <3> QED BY <3>1, <3>2 DEF ReadyIsSearchable
  <2>5. OriginalNotLost'
    <3>1. \A d \in Docs : chunkRows[d] > 0 => chunkRows'[d] > 0
      BY <1>4, <2>1, <2>2 DEF StoreChunks, CreateChunks, storeVars
    <3>2. UNCHANGED <<status, asset>>
      BY <1>4 DEF StoreChunks, CreateChunks, storeVars
    <3> QED BY <3>1, <3>2 DEF OriginalNotLost
  <2>6. SavedOnce' /\ WorkIsClaimed' /\ ClaimsByStatus'
    BY <1>4 DEF StoreChunks, CreateChunks, apiVars, runVars, storeVars, queueVars, SavedOnce, WorkIsClaimed, Running, ClaimsByStatus
  <2> QED BY <2>3, <2>4, <2>5, <2>6 DEF SafetyParts
<1>5. CASE RecordResult(w)
  <2>1. job[w] \in Docs /\ Running(job[w])
    BY <1>5, RunningSlot DEF RecordResult
  <2>2. chunkRows[job[w]] > 0 \/ status[job[w]] = "deleted"
    BY <1>5, <2>1 DEF RecordResult, StoredBeforeRecord
  <2>3. SavedOnce'
    BY <1>5, <2>1, <2>2 DEF RecordResult, UpdateDocumentProcessingResult, HasRow, Goto, storeVars, apiVars, SavedOnce
  <2>4. WorkIsClaimed'
    BY <1>5, <2>1, <2>2 DEF RecordResult, UpdateDocumentProcessingResult, HasRow, Goto, apiVars, queueVars, runVars, storeVars, WorkIsClaimed, Running
  <2>5. StoredBeforeRecord'
    <3>1. \A d \in Docs : status[d] = "deleted" => status'[d] = "deleted"
      BY <1>5, <2>1, <2>2 DEF RecordResult, UpdateDocumentProcessingResult, HasRow, storeVars
    <3>2. UNCHANGED <<chunkRows, job>>
      BY <1>5 DEF RecordResult, UpdateDocumentProcessingResult, storeVars
    <3>3. \A v \in Workers : pc'[v] \in {"record", "announce", "destroy"} => v = w \/ pc'[v] = pc[v]
      BY <1>5 DEF RecordResult, Goto
    <3> QED BY <2>1, <2>2, <3>1, <3>2, <3>3 DEF StoredBeforeRecord, SlotsOK
  <2>6. ReadyIsSearchable'
    BY <1>5, <2>1, <2>2 DEF RecordResult, UpdateDocumentProcessingResult, HasRow, Goto, storeVars, ReadyIsSearchable
  <2>7. OriginalNotLost'
    BY <1>5, <2>1, <2>2 DEF RecordResult, UpdateDocumentProcessingResult, HasRow, Goto, storeVars, OriginalNotLost
  <2>8. ClaimsByStatus'
    BY <1>5, <2>1, <2>2 DEF RecordResult, UpdateDocumentProcessingResult, HasRow, Goto, storeVars, apiVars, ClaimsByStatus
  <2> QED BY <2>3, <2>4, <2>5, <2>6, <2>7, <2>8 DEF SafetyParts
<1>6. CASE PublishReady(w)
  <2>1. job[w] \in Docs /\ Running(job[w])
    BY <1>6, RunningSlot DEF PublishReady
  <2>2. StoredBeforeRecord'
    BY <1>6, <2>1 DEF PublishReady, Goto, runVars, storeVars, StoredBeforeRecord
  <2>3. SavedOnce' /\ WorkIsClaimed' /\ ReadyIsSearchable' /\ OriginalNotLost' /\ ClaimsByStatus'
    BY <1>6 DEF PublishReady, storeVars, apiVars, runVars, queueVars, SavedOnce, WorkIsClaimed, Running, ReadyIsSearchable, OriginalNotLost, ClaimsByStatus
  <2> QED BY <2>2, <2>3 DEF SafetyParts
<1>7. CASE DestroyOriginal(w)
  <2>1. job[w] \in Docs /\ Running(job[w])
    BY <1>7, RunningSlot DEF DestroyOriginal
  <2>2. chunkRows[job[w]] > 0 \/ status[job[w]] = "deleted"
    BY <1>7, <2>1 DEF DestroyOriginal, StoredBeforeRecord
  <2>3. StoredBeforeRecord'
    BY <1>7, <2>1, <2>2 DEF DestroyOriginal, Goto, runVars, storeVars, StoredBeforeRecord
  <2>4. OriginalNotLost'
    BY <1>7, <2>1, <2>2 DEF DestroyOriginal, Goto, storeVars, OriginalNotLost
  <2>5. SavedOnce' /\ WorkIsClaimed' /\ ReadyIsSearchable' /\ ClaimsByStatus'
    BY <1>7 DEF DestroyOriginal, storeVars, apiVars, runVars, queueVars, SavedOnce, WorkIsClaimed, Running, ReadyIsSearchable, ClaimsByStatus
  <2> QED BY <2>3, <2>4, <2>5 DEF SafetyParts
<1>8. CASE MarkFailed(w)
  <2>1. job[w] \in Docs /\ Running(job[w])
    BY <1>8, RunningSlot DEF MarkFailed
  <2>2. SavedOnce'
    BY <1>8, <2>1 DEF MarkFailed, UpdateDocumentProcessingStatus, HasRow, Goto, storeVars, apiVars, SavedOnce
  <2>3. WorkIsClaimed'
    BY <1>8, <2>1 DEF MarkFailed, UpdateDocumentProcessingStatus, HasRow, Goto, apiVars, queueVars, runVars, storeVars, WorkIsClaimed, Running
  <2>4. StoredBeforeRecord'
    <3>1. \A d \in Docs : status[d] = "deleted" => status'[d] = "deleted"
      BY <1>8, <2>1 DEF MarkFailed, UpdateDocumentProcessingStatus, HasRow, storeVars
    <3>2. UNCHANGED <<chunkRows, job>>
      BY <1>8 DEF MarkFailed, UpdateDocumentProcessingStatus, storeVars
    <3>3. \A v \in Workers : pc'[v] \in {"record", "announce", "destroy"} => pc'[v] = pc[v]
      BY <1>8 DEF MarkFailed, Goto
    <3> QED BY <3>1, <3>2, <3>3, PipelineAssumption DEF StoredBeforeRecord, SlotsOK
  <2>5. ReadyIsSearchable'
    BY <1>8, <2>1 DEF MarkFailed, UpdateDocumentProcessingStatus, HasRow, Goto, storeVars, ReadyIsSearchable
  <2>6. OriginalNotLost'
    BY <1>8, <2>1 DEF MarkFailed, UpdateDocumentProcessingStatus, HasRow, Goto, storeVars, OriginalNotLost
  <2>7. ClaimsByStatus'
    BY <1>8, <2>1 DEF MarkFailed, UpdateDocumentProcessingStatus, HasRow, Goto, storeVars, apiVars, ClaimsByStatus
  <2> QED BY <2>2, <2>3, <2>4, <2>5, <2>6, <2>7 DEF SafetyParts
<1>9. CASE PublishFailed(w)
  <2>1. job[w] \in Docs /\ Running(job[w])
    BY <1>9, RunningSlot DEF PublishFailed
  <2>2. StoredBeforeRecord'
    BY <1>9, <2>1 DEF PublishFailed, Goto, runVars, storeVars, StoredBeforeRecord
  <2>3. SavedOnce' /\ WorkIsClaimed' /\ ReadyIsSearchable' /\ OriginalNotLost' /\ ClaimsByStatus'
    BY <1>9 DEF PublishFailed, storeVars, apiVars, runVars, queueVars, SavedOnce, WorkIsClaimed, Running, ReadyIsSearchable, OriginalNotLost, ClaimsByStatus
  <2> QED BY <2>2, <2>3 DEF SafetyParts
<1>11. CASE PublishError(w)
  <2>1. job[w] \in Docs /\ Running(job[w])
    BY <1>11, RunningSlot DEF PublishError
  <2>2. StoredBeforeRecord'
    BY <1>11, <2>1 DEF PublishError, Goto, runVars, storeVars, StoredBeforeRecord
  <2>3. SavedOnce' /\ WorkIsClaimed' /\ ReadyIsSearchable' /\ OriginalNotLost' /\ ClaimsByStatus'
    BY <1>11 DEF PublishError, storeVars, apiVars, runVars, queueVars, SavedOnce, WorkIsClaimed,
       Running, ReadyIsSearchable, OriginalNotLost, ClaimsByStatus
  <2> QED BY <2>2, <2>3 DEF SafetyParts
<1>10. CASE ReturnResult(w)
  <2>1. job[w] \in Docs /\ Running(job[w])
    BY <1>10, RunningSlot DEF ReturnResult
  <2>2. WorkIsClaimed'
    BY <1>10, <2>1 DEF ReturnResult, Done, FailTask, apiVars, queueVars, runVars, storeVars, WorkIsClaimed, Running
  <2>3. StoredBeforeRecord'
    BY <1>10, <2>1 DEF ReturnResult, Done, FailTask, runVars, storeVars, StoredBeforeRecord
  <2>4. SavedOnce' /\ ReadyIsSearchable' /\ OriginalNotLost' /\ ClaimsByStatus'
    BY <1>10 DEF ReturnResult, storeVars, apiVars, SavedOnce, ReadyIsSearchable, OriginalNotLost, ClaimsByStatus
  <2> QED BY <2>2, <2>3, <2>4 DEF SafetyParts
<1> QED BY <1>1, <1>2, <1>3, <1>4, <1>5, <1>6, <1>7, <1>8, <1>9, <1>10, <1>11 DEF RunStep

\* The steps of asynq and the crashes keep the invariant.
LEMMA SafetyQueue ==
  ASSUME SafetyInv,
         \/ \E w \in Workers, d \in Docs : StartTask(w, d)
         \/ \E w \in Workers : TimeoutTask(w)
         \/ \E d \in Docs : RecoverLease(d)
         \/ CrashApi
         \/ StopWorker
  PROVE  SafetyParts'
<1> USE ChunkAssumption, PipelineAssumption
<1> /\ StoreTypeOK /\ QueueTypeOK /\ ApiTypeOK /\ RunTypeOK /\ OutsideTypeOK
    /\ SlotsOK /\ ChunksToStore
  BY DEF SafetyInv, TypeInv, TypeOK
<1> /\ SavedOnce /\ WorkIsClaimed /\ StoredBeforeRecord
    /\ ReadyIsSearchable /\ OriginalNotLost /\ ClaimsByStatus
  BY DEF SafetyInv, SafetyParts
<1> USE DEF StoreTypeOK, QueueTypeOK, ApiTypeOK, RunTypeOK, OutsideTypeOK
<1>1. ASSUME NEW w \in Workers, NEW d \in Docs, StartTask(w, d) PROVE SafetyParts'
  <2>1. WorkIsClaimed'
    BY <1>1 DEF StartTask, Runnable, Dequeue, Goto, apiVars, queueVars, runVars, storeVars, WorkIsClaimed, Running
  <2>2. StoredBeforeRecord'
    BY <1>1 DEF StartTask, Runnable, Dequeue, Goto, runVars, storeVars, StoredBeforeRecord
  <2>3. SavedOnce' /\ ReadyIsSearchable' /\ OriginalNotLost' /\ ClaimsByStatus'
    BY <1>1 DEF StartTask, storeVars, apiVars, SavedOnce, ReadyIsSearchable, OriginalNotLost, ClaimsByStatus
  <2> QED BY <2>1, <2>2, <2>3 DEF SafetyParts
<1>2. ASSUME NEW w \in Workers, TimeoutTask(w) PROVE SafetyParts'
  <2>1. WorkIsClaimed'
    BY <1>2 DEF TimeoutTask, FailTask, apiVars, queueVars, runVars, storeVars, WorkIsClaimed, Running
  <2>2. SavedOnce' /\ StoredBeforeRecord' /\ ReadyIsSearchable' /\ OriginalNotLost' /\ ClaimsByStatus'
    BY <1>2 DEF TimeoutTask, storeVars, apiVars, runVars, SavedOnce, StoredBeforeRecord, ReadyIsSearchable, OriginalNotLost, ClaimsByStatus
  <2> QED BY <2>1, <2>2 DEF SafetyParts
<1>3. ASSUME NEW d \in Docs, RecoverLease(d) PROVE SafetyParts'
  <2>1. WorkIsClaimed'
    BY <1>3 DEF RecoverLease, FailTask, apiVars, queueVars, runVars, storeVars, WorkIsClaimed, Running
  <2>2. SavedOnce' /\ StoredBeforeRecord' /\ ReadyIsSearchable' /\ OriginalNotLost' /\ ClaimsByStatus'
    BY <1>3 DEF RecoverLease, storeVars, apiVars, runVars, SavedOnce, StoredBeforeRecord, ReadyIsSearchable, OriginalNotLost, ClaimsByStatus
  <2> QED BY <2>1, <2>2 DEF SafetyParts
<1>4. CASE CrashApi
  <2>1. SavedOnce'
    BY <1>4 DEF CrashApi, storeVars, apiVars, SavedOnce
  <2>2. WorkIsClaimed'
    BY <1>4 DEF CrashApi, apiVars, queueVars, runVars, storeVars, WorkIsClaimed, Running
  <2>3. StoredBeforeRecord' /\ ReadyIsSearchable' /\ OriginalNotLost' /\ ClaimsByStatus'
    BY <1>4 DEF CrashApi, storeVars, apiVars, runVars, StoredBeforeRecord, ReadyIsSearchable, OriginalNotLost, ClaimsByStatus
  <2> QED BY <2>1, <2>2, <2>3 DEF SafetyParts
<1>5. CASE StopWorker
  <2>1. WorkIsClaimed'
    <3>1. UNCHANGED <<status, hook>> /\ ~\E d \in Docs : Running(d)'
      BY <1>5 DEF StopWorker, storeVars, apiVars, Running
    <3>2. \A d \in Docs : taskState'[d] # "none" => taskState[d] # "none" \/ Running(d)
      BY <1>5 DEF StopWorker, Requeue, queueVars, Running
    <3> QED BY <3>1, <3>2 DEF WorkIsClaimed
  <2>2. StoredBeforeRecord'
    BY <1>5 DEF StopWorker, runVars, storeVars, StoredBeforeRecord
  <2>3. SavedOnce' /\ ReadyIsSearchable' /\ OriginalNotLost' /\ ClaimsByStatus'
    BY <1>5 DEF StopWorker, storeVars, apiVars, SavedOnce, ReadyIsSearchable, OriginalNotLost, ClaimsByStatus
  <2> QED BY <2>1, <2>2, <2>3 DEF SafetyParts
<1> QED BY <1>1, <1>2, <1>3, <1>4, <1>5

LEMMA SafetyStep == SafetyInv /\ [Next]_vars => SafetyInv'
<1> SUFFICES ASSUME SafetyInv, [Next]_vars PROVE SafetyParts'
  BY TypeStep DEF SafetyInv
<1>1. CASE UNCHANGED vars
  BY <1>1 DEF vars, storeVars, queueVars, apiVars, runVars, SafetyInv, SafetyParts, SavedOnce,
      WorkIsClaimed, Running, StoredBeforeRecord, ReadyIsSearchable, OriginalNotLost, ClaimsByStatus
<1>2. CASE Next
  BY <1>2, SafetyApi, SafetyRun, SafetyQueue DEF Next
<1> QED BY <1>1, <1>2

LEMMA SafetyInvariant == Spec => []SafetyInv
  BY SafetyInit, SafetyStep, PTL DEF Spec

\* A ready document has chunks, for any number of documents, deliveries,
\* workers, retries and faults.
THEOREM ReadySearchable == Spec => []ReadyIsSearchable
<1>1. SafetyInv => ReadyIsSearchable
  BY DEF SafetyInv, SafetyParts
<1> QED BY <1>1, SafetyInvariant, PTL

\* No attempt destroys the only copy of a document that still exists.
THEOREM OriginalKept == Spec => []OriginalNotLost
<1>1. SafetyInv => OriginalNotLost
  BY DEF SafetyInv, SafetyParts
<1> QED BY <1>1, SafetyInvariant, PTL

\* One delivery is let through, and one more per recorded failure.
THEOREM ClaimsAreBounded == Spec => []ClaimsBounded
<1>1. SafetyInv => ClaimsBounded
  BY DEF SafetyInv, SafetyParts, ClaimsByStatus, ClaimsBounded
<1> QED BY <1>1, SafetyInvariant, PTL

\* No task, and no attempt, without a row that was saved and claimed.
THEOREM WorkIsSaved == Spec => []WorkOnlyOnSaved
<1>1. SafetyInv => WorkOnlyOnSaved
  BY DEF SafetyInv, SafetyParts, WorkIsClaimed, WorkOnlyOnSaved
<1> QED BY <1>1, SafetyInvariant, PTL
=============================================================================
