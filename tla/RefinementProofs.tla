--------------------------- MODULE RefinementProofs ---------------------------
(***************************************************************************)
(* The pipeline implements DocumentLifecycle, and what follows for the     *)
(* owner who deletes a document, for every value of the constants.         *)
(***************************************************************************)
EXTENDS PipelineRefinement, PipelineProofs

-----------------------------------------------------------------------------
(* Where the original is before any work starts. *)

OriginalInv ==
    \A d \in Docs :
        /\ upload[d] = "none" <=> asset[d] = "none"
        /\ status[d] \in {"absent", "uploaded"} => asset[d] # "destroyed"

LEMMA OriginalInit == Init => OriginalInv
  BY DEF Init, StoreInit, OriginalInv

LEMMA OriginalStep == SafetyInv /\ OriginalInv /\ [Next]_vars => OriginalInv'
<1> SUFFICES ASSUME SafetyInv, OriginalInv, [Next]_vars PROVE OriginalInv'
  OBVIOUS
<1> /\ StoreTypeOK /\ ApiTypeOK /\ RunTypeOK /\ OutsideTypeOK
    /\ SavedOnce /\ WorkIsClaimed
  BY DEF SafetyInv, SafetyParts, TypeInv, TypeOK
<1> USE PipelineAssumption DEF StoreTypeOK, ApiTypeOK, RunTypeOK, OutsideTypeOK
\* Steps that touch neither the upload, nor the original, nor open the status.
<1>1. ASSUME UNCHANGED <<upload, asset>>,
             \A d \in Docs : status'[d] \in {"absent", "uploaded"}
                                => status[d] \in {"absent", "uploaded"}
      PROVE  OriginalInv'
  BY <1>1 DEF OriginalInv
<1>2. ASSUME NEW d \in Docs, UploadOriginal(d) PROVE OriginalInv'
  BY <1>2 DEF UploadOriginal, storeVars, OriginalInv
<1>3. ASSUME NEW d \in Docs, SaveDocument(d) PROVE OriginalInv'
  <2>1. status[d] = "absent"
    BY <1>3 DEF SaveDocument, SavedOnce
  <2> QED BY <1>3, <2>1 DEF SaveDocument, InsertDocument, storeVars, OriginalInv
<1>4. CASE CrashApi
  BY <1>4 DEF CrashApi, storeVars, OriginalInv
<1>5. ASSUME NEW w \in Workers, DestroyOriginal(w) PROVE OriginalInv'
  <2>1. job[w] \in Docs /\ Running(job[w])
    BY <1>5, RunningSlot DEF DestroyOriginal
  <2>2. status[job[w]] \notin {"absent", "uploaded"}
    BY <2>1 DEF WorkIsClaimed
  <2>3. upload[job[w]] # "none"
    BY <2>1, <2>2 DEF SavedOnce
  <2> QED BY <1>5, <2>1, <2>2, <2>3 DEF DestroyOriginal, storeVars, apiVars, OriginalInv
<1>6. ASSUME NEW d \in Docs, NEW h \in Deliveries,
             ReceiveWebhook(d, h) \/ EnqueueTask(d, h)
      PROVE  OriginalInv'
  BY <1>1, <1>6 DEF ReceiveWebhook, EnqueueTask, MarkProcessing, storeVars
<1>7. ASSUME NEW d \in Docs, DeleteDocument(d) PROVE OriginalInv'
  BY <1>1, <1>7 DEF DeleteDocument, DeleteRows, apiVars
<1>8. ASSUME NEW w \in Workers,
             \/ ReadDocument(w) \/ LoadOriginal(w) \/ ExtractChunks(w)
             \/ PublishReady(w) \/ PublishError(w) \/ PublishFailed(w) \/ ReturnResult(w)
             \/ TimeoutTask(w) \/ (\E d \in Docs : StartTask(w, d))
      PROVE  OriginalInv'
  BY <1>1, <1>8 DEF ReadDocument, LoadOriginal, ExtractChunks, PublishReady,
     PublishError, PublishFailed, ReturnResult, TimeoutTask, StartTask, storeVars, apiVars
<1>9. ASSUME NEW w \in Workers, StoreChunks(w) PROVE OriginalInv'
  BY <1>1, <1>9 DEF StoreChunks, CreateChunks, storeVars, apiVars
<1>10. ASSUME NEW w \in Workers, RecordResult(w) PROVE OriginalInv'
  BY <1>1, <1>10 DEF RecordResult, UpdateDocumentProcessingResult, storeVars, apiVars
<1>11. ASSUME NEW w \in Workers, MarkFailed(w) PROVE OriginalInv'
  BY <1>1, <1>11 DEF MarkFailed, UpdateDocumentProcessingStatus, storeVars, apiVars
<1>12. ASSUME StopWorker \/ (\E d \in Docs : RecoverLease(d)) \/ UNCHANGED vars
       PROVE  OriginalInv'
  BY <1>1, <1>12 DEF StopWorker, RecoverLease, vars, storeVars, apiVars
<1> QED BY <1>2, <1>3, <1>4, <1>5, <1>6, <1>7, <1>8, <1>9, <1>10, <1>11, <1>12
        DEF Next, ApiStep, RunStep

LEMMA OriginalInvariant == Spec => []OriginalInv
  BY OriginalInit, OriginalStep, SafetyInvariant, PTL DEF Spec

-----------------------------------------------------------------------------
(* The refinement. *)

Indexed == {d \in Docs : chunkRows[d] > 0}

LEMMA LifecycleInit == Init => Lifecycle!Init
<1> SUFFICES ASSUME Init PROVE Lifecycle!Init
  OBVIOUS
<1>1. Indexed = {}
  BY DEF Init, StoreInit, Indexed
<1> QED BY <1>1 DEF Init, StoreInit, Indexed, Lifecycle!Init

\* A step that leaves the row, the chunks and the original alone is invisible.
LEMMA Stutter ==
  ASSUME UNCHANGED <<status, chunkRows, asset>>
  PROVE  UNCHANGED Lifecycle!lifecycleVars
  BY DEF Lifecycle!lifecycleVars

\* The steps of the API process are steps of the abstract document.
LEMMA LifecycleApi ==
  ASSUME SafetyInv, OriginalInv, NEW d \in Docs, ApiStep(d)
  PROVE  [Lifecycle!Next]_(Lifecycle!lifecycleVars)
<1> /\ StoreTypeOK /\ ApiTypeOK /\ OutsideTypeOK /\ SavedOnce
  BY DEF SafetyInv, SafetyParts, TypeInv, TypeOK
<1> USE DEF StoreTypeOK, ApiTypeOK, OutsideTypeOK
<1>1. CASE UploadOriginal(d)
  <2>1. asset[d] = "none"
    BY <1>1 DEF UploadOriginal, OriginalInv
  <2>2. Lifecycle!Keep(d)
    BY <1>1, <2>1 DEF UploadOriginal, storeVars, Lifecycle!Keep
  <2> QED BY <2>2 DEF Lifecycle!Next
<1>2. CASE SaveDocument(d)
  <2>1. CASE UNCHANGED storeVars
    BY <1>2, <2>1, Stutter DEF SaveDocument, storeVars
  <2>2. CASE InsertDocument(d)
    <3>1. status[d] = "absent" /\ asset[d] = "stored"
      BY <1>2 DEF SaveDocument, SavedOnce, OriginalInv
    <3>2. Lifecycle!Register(d)
      BY <1>2, <2>2, <3>1 DEF SaveDocument, InsertDocument, Lifecycle!Register
    <3> QED BY <3>2 DEF Lifecycle!Next
  <2> QED BY <1>2, <2>1, <2>2 DEF SaveDocument
<1>3. ASSUME NEW h \in Deliveries, ReceiveWebhook(d, h)
      PROVE  [Lifecycle!Next]_(Lifecycle!lifecycleVars)
  <2>1. CASE UNCHANGED storeVars
    BY <1>3, <2>1, Stutter DEF ReceiveWebhook, storeVars
  <2>2. CASE ShouldProcessDocument(d) /\ MarkProcessing(d)
    <3>1. Lifecycle!Claim(d)
      BY <1>3, <2>2 DEF ReceiveWebhook, ShouldProcessDocument, MarkProcessing, Lifecycle!Claim
    <3> QED BY <3>1 DEF Lifecycle!Next
  <2> QED BY <1>3, <2>1, <2>2 DEF ReceiveWebhook
<1>4. ASSUME NEW h \in Deliveries, EnqueueTask(d, h)
      PROVE  [Lifecycle!Next]_(Lifecycle!lifecycleVars)
  BY <1>4, Stutter DEF EnqueueTask, storeVars
<1>5. CASE DeleteDocument(d)
  <2>1. Indexed' = Indexed \ {d}
    BY <1>5 DEF DeleteDocument, DeleteRows, Indexed
  <2>2. Lifecycle!Delete(d)
    BY <1>5, <2>1 DEF DeleteDocument, DeleteRows, HasRow, Indexed, Lifecycle!Delete
  <2> QED BY <2>2 DEF Lifecycle!Next
<1> QED BY <1>1, <1>2, <1>3, <1>4, <1>5 DEF ApiStep

\* The steps of ProcessTask are steps of the abstract document or invisible.
LEMMA LifecycleRun ==
  ASSUME SafetyInv, OriginalInv, NEW w \in Workers, RunStep(w)
  PROVE  [Lifecycle!Next]_(Lifecycle!lifecycleVars)
<1> /\ StoreTypeOK /\ RunTypeOK /\ OutsideTypeOK
    /\ SavedOnce /\ WorkIsClaimed /\ StoredBeforeRecord /\ ChunksToStore
  BY DEF SafetyInv, SafetyParts, TypeInv, TypeOK
<1> USE DEF StoreTypeOK, RunTypeOK, OutsideTypeOK
<1>1. CASE \/ ReadDocument(w) \/ LoadOriginal(w) \/ ExtractChunks(w)
           \/ PublishReady(w) \/ PublishError(w) \/ PublishFailed(w) \/ ReturnResult(w)
  BY <1>1, Stutter DEF ReadDocument, LoadOriginal, ExtractChunks, PublishReady,
     PublishError, PublishFailed, ReturnResult, storeVars
<1>2. ASSUME pc[w] # "idle"
      PROVE  job[w] \in Docs /\ status[job[w]] \notin {"absent", "uploaded"}
  BY <1>2, RunningSlot DEF WorkIsClaimed
<1>3. CASE StoreChunks(w)
  <2>1. CASE UNCHANGED storeVars
    BY <1>3, <2>1, Stutter DEF StoreChunks, storeVars
  <2>2. CASE CreateChunks(job[w], made[w])
    <3>1. made[w] > 0 /\ job[w] \in Docs /\ status[job[w]] \notin {"absent", "uploaded"}
      BY <1>2, <1>3 DEF StoreChunks, ChunksToStore
    <3>2. Indexed' = Indexed \cup {job[w]}
      BY <2>2, <3>1 DEF CreateChunks, Indexed
    <3>3. UNCHANGED <<status, asset>>
      BY <1>3, <2>2 DEF StoreChunks, CreateChunks
    <3>4. Lifecycle!Index(job[w])
      BY <3>1, <3>2, <3>3 DEF Indexed, Lifecycle!Index
    <3>5. job[w] \in Docs
      BY <3>1
    <3> QED BY <3>4, <3>5 DEF Lifecycle!Next, Lifecycle!Index
  <2> QED BY <1>3, <2>1, <2>2 DEF StoreChunks
<1>4. CASE RecordResult(w)
  <2>1. job[w] \in Docs /\ status[job[w]] \notin {"absent", "uploaded"}
    BY <1>2, <1>4 DEF RecordResult
  <2>2. CASE UNCHANGED <<status, chunkRows>>
    BY <1>4, <2>2, Stutter DEF RecordResult
  <2>3. CASE UpdateDocumentProcessingResult(job[w], made[w]) /\ HasRow(job[w])
    <3>1. status[job[w]] \in {"processing", "failed", "completed"} /\ chunkRows[job[w]] > 0
      BY <1>4, <2>1, <2>3 DEF RecordResult, HasRow, StoredBeforeRecord, Statuses
    <3>2. Lifecycle!Complete(job[w])
      BY <1>4, <2>1, <2>3, <3>1
      DEF RecordResult, UpdateDocumentProcessingResult, Lifecycle!Complete
    <3> QED BY <2>1, <3>2 DEF Lifecycle!Next
  <2>4. CASE UpdateDocumentProcessingResult(job[w], made[w]) /\ ~HasRow(job[w])
    <3>1. UNCHANGED <<status, chunkRows>>
      BY <2>4 DEF UpdateDocumentProcessingResult
    <3> QED BY <2>2, <3>1
  <2> QED BY <1>4, <2>2, <2>3, <2>4 DEF RecordResult, storeVars
<1>5. CASE DestroyOriginal(w)
  <2>1. /\ job[w] \in Docs
        /\ asset[job[w]] # "none"
        /\ chunkRows[job[w]] > 0 \/ status[job[w]] = "deleted"
    BY <1>2, <1>5 DEF DestroyOriginal, SavedOnce, OriginalInv, StoredBeforeRecord
  <2>2. CASE UNCHANGED asset
    BY <1>5, <2>2, Stutter DEF DestroyOriginal, storeVars
  <2>3. CASE asset' = [asset EXCEPT ![job[w]] = "destroyed"] /\ asset[job[w]] = "stored"
    <3>1. Lifecycle!Discard(job[w])
      BY <1>5, <2>1, <2>3 DEF DestroyOriginal, storeVars, Lifecycle!Discard
    <3> QED BY <2>1, <3>1 DEF Lifecycle!Next
  <2>4. CASE asset' = [asset EXCEPT ![job[w]] = "destroyed"] /\ asset[job[w]] = "destroyed"
    <3>1. UNCHANGED asset
      BY <2>4
    <3> QED BY <2>2, <3>1
  <2> QED BY <1>5, <2>1, <2>2, <2>3, <2>4 DEF DestroyOriginal
<1>6. CASE MarkFailed(w)
  <2>1. job[w] \in Docs /\ status[job[w]] \notin {"absent", "uploaded"}
    BY <1>2, <1>6 DEF MarkFailed
  <2>2. CASE UNCHANGED <<status, chunkRows>>
    BY <1>6, <2>2, Stutter DEF MarkFailed
  <2>3. CASE UpdateDocumentProcessingStatus(job[w]) /\ HasRow(job[w])
    <3>1. status[job[w]] \in {"processing", "failed", "completed"}
      BY <2>1, <2>3 DEF HasRow, Statuses
    <3>2. Lifecycle!Fail(job[w])
      BY <1>6, <2>1, <2>3, <3>1
      DEF MarkFailed, UpdateDocumentProcessingStatus, Lifecycle!Fail
    <3> QED BY <2>1, <3>2 DEF Lifecycle!Next
  <2>4. CASE UpdateDocumentProcessingStatus(job[w]) /\ ~HasRow(job[w])
    <3>1. UNCHANGED <<status, chunkRows>>
      BY <2>4 DEF UpdateDocumentProcessingStatus
    <3> QED BY <2>2, <3>1
  <2> QED BY <1>6, <2>2, <2>3, <2>4 DEF MarkFailed, storeVars
<1> QED BY <1>1, <1>3, <1>4, <1>5, <1>6 DEF RunStep

\* The queue, the timeouts and the crashes are invisible.
LEMMA LifecycleStep ==
  SafetyInv /\ OriginalInv /\ [Next]_vars => [Lifecycle!Next]_(Lifecycle!lifecycleVars)
<1> SUFFICES ASSUME SafetyInv, OriginalInv, [Next]_vars
             PROVE  [Lifecycle!Next]_(Lifecycle!lifecycleVars)
  OBVIOUS
<1>1. ASSUME NEW d \in Docs, RecoverLease(d)
      PROVE  [Lifecycle!Next]_(Lifecycle!lifecycleVars)
  BY <1>1, Stutter DEF RecoverLease, storeVars
<1>2. ASSUME NEW w \in Workers, TimeoutTask(w) \/ (\E d \in Docs : StartTask(w, d))
      PROVE  [Lifecycle!Next]_(Lifecycle!lifecycleVars)
  BY <1>2, Stutter DEF TimeoutTask, StartTask, storeVars
<1>3. CASE CrashApi \/ StopWorker \/ UNCHANGED vars
  BY <1>3, Stutter DEF CrashApi, StopWorker, vars, storeVars
<1> QED BY <1>1, <1>2, <1>3, LifecycleApi, LifecycleRun DEF Next

\* Handlers, queue and worker together live the promised life of a document.
THEOREM PipelineImplementsLifecycle == Spec => ImplementsLifecycle
  BY LifecycleInit, LifecycleStep, SafetyInvariant, OriginalInvariant, PTL
  DEF Spec, ImplementsLifecycle, Lifecycle!Spec

\* The abstract document has no way back from deleted.
LEMMA LifecycleKeepsDeleted ==
  ASSUME StoreTypeOK, [Lifecycle!Next]_(Lifecycle!lifecycleVars), NEW d \in Docs,
         status[d] = "deleted"
  PROVE  status'[d] = "deleted"
  BY DEF StoreTypeOK, Lifecycle!Next, Lifecycle!lifecycleVars, Lifecycle!Keep,
     Lifecycle!Register, Lifecycle!Claim, Lifecycle!Index, Lifecycle!Complete,
     Lifecycle!Fail, Lifecycle!Discard, Lifecycle!Delete

\* A late attempt, a retry or a webhook never brings a deleted row back.
THEOREM DeletedIsFinal == Spec => DeletedStaysDeleted
<1>1. SafetyInv /\ OriginalInv /\ [Next]_vars
        => [\A d \in Docs : status[d] = "deleted" => status'[d] = "deleted"]_vars
  BY LifecycleStep, LifecycleKeepsDeleted DEF SafetyInv, TypeInv, TypeOK
<1> QED BY <1>1, SafetyInvariant, OriginalInvariant, PTL DEF Spec, DeletedStaysDeleted
=============================================================================
