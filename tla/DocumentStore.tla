---------------------------- MODULE DocumentStore ----------------------------
(***************************************************************************)
(* The PostgreSQL tables `documents' and `document_chunks', seen through   *)
(* the statements of internal/store/documentStore.go.  Every operator is   *)
(* one statement or one transaction, so it is one atomic step.  The        *)
(* columns status and proccessing_status are always written together       *)
(* (uploaded/uploaded, processing/processing, ready/completed,             *)
(* failed/failed): one variable holds the pair and carries the             *)
(* proccessing_status.  A chunk is abstracted to its place in the document *)
(* and chunkRows counts the rows a document has.                           *)
(***************************************************************************)
EXTENDS Naturals, Documents

CONSTANT MaxChunks   \* bound on the chunks one extraction may produce

ASSUME ChunkAssumption == MaxChunks \in Nat \ {0}

VARIABLES status,      \* the row of a document, "absent" and "deleted": no row
          chunkRows,   \* rows of document_chunks with that document_id
          chunkCount   \* column documents.chunk_count

storeVars == <<status, chunkRows, chunkCount>>

Statuses == {"absent", "uploaded", "processing", "completed", "failed", "deleted"}

StoreTypeOK ==
    /\ status \in [Docs -> Statuses]
    /\ chunkRows \in [Docs -> 0..MaxChunks]
    /\ chunkCount \in [Docs -> 0..MaxChunks]

StoreInit ==
    /\ status = [d \in Docs |-> "absent"]
    /\ chunkRows = [d \in Docs |-> 0]
    /\ chunkCount = [d \in Docs |-> 0]

HasRow(d) == status[d] \notin {"absent", "deleted"}

-----------------------------------------------------------------------------
\* The upsert of a fresh uuid: it always inserts.
InsertDocument(d) ==
    /\ status' = [status EXCEPT ![d] = "uploaded"]
    /\ chunkCount' = [chunkCount EXCEPT ![d] = 0]
    /\ UNCHANGED chunkRows

\* Slip: the WHERE clause forgets 'processing'.
ClaimWhileProcessing(d) == HasRow(d) /\ status[d] # "completed"

\* WHERE proccessing_status NOT IN ('processing', 'completed') of the
\* conditional UPDATE: the rows it affects, none when there is no row.
ShouldProcessDocument(d) == status[d] \in {"uploaded", "failed"}

\* What that UPDATE writes.
MarkProcessing(d) ==
    /\ status' = [status EXCEPT ![d] = "processing"]
    /\ UNCHANGED <<chunkRows, chunkCount>>

\* Only ever called with failed/failed and chunkCount = 0, which leaves the
\* column alone.  No row: the UPDATE affects nothing and reports no error.
UpdateDocumentProcessingStatus(d) ==
    /\ status' = [status EXCEPT ![d] = IF HasRow(d) THEN "failed" ELSE @]
    /\ UNCHANGED <<chunkRows, chunkCount>>

\* One transaction: delete the document's chunks, insert the n new ones.
\* document_chunks has no foreign key, the documents row is not looked at.
CreateChunks(d, n) ==
    /\ chunkRows' = [chunkRows EXCEPT ![d] = n]
    /\ UNCHANGED <<status, chunkCount>>

\* Slip: Save instead of Updates, which inserts a missing row.
UpsertProcessingResult(d, n) ==
    /\ status' = [status EXCEPT ![d] = "completed"]
    /\ chunkCount' = [chunkCount EXCEPT ![d] = n]
    /\ UNCHANGED chunkRows

\* Slip: chunk_count is written by the first success only.
KeepOldCount(d, n) ==
    /\ status' = [status EXCEPT ![d] = IF HasRow(d) THEN "completed" ELSE @]
    /\ chunkCount' = [chunkCount EXCEPT ![d] = IF HasRow(d) /\ @ = 0 THEN n ELSE @]
    /\ UNCHANGED chunkRows

\* Only ever called with ready/completed.  No row: no effect and no error.
UpdateDocumentProcessingResult(d, n) ==
    /\ status' = [status EXCEPT ![d] = IF HasRow(d) THEN "completed" ELSE @]
    /\ chunkCount' = [chunkCount EXCEPT ![d] = IF HasRow(d) THEN n ELSE @]
    /\ UNCHANGED chunkRows

\* Slip: the transaction forgets the chunks.
DeleteRowOnly(d) ==
    /\ status' = [status EXCEPT ![d] = "deleted"]
    /\ chunkCount' = [chunkCount EXCEPT ![d] = 0]
    /\ UNCHANGED chunkRows

\* One transaction: the chunks, then the row.
DeleteRows(d) ==
    /\ status' = [status EXCEPT ![d] = "deleted"]
    /\ chunkRows' = [chunkRows EXCEPT ![d] = 0]
    /\ chunkCount' = [chunkCount EXCEPT ![d] = 0]
=============================================================================
