----------------------------- MODULE ChatSession -----------------------------
(***************************************************************************)
(* What one guest does with documents and questions: the guest limits of   *)
(* UploadDocumentHandler, SearchThroughDocumentHandler with the            *)
(* conversation it writes, and DeleteDocumentHandler.  A registered user   *)
(* has the same steps without the two limits.                              *)
(*                                                                         *)
(* The requests of a user pass the gate one at a time (OneAtATime of       *)
(* UserGate).  An action is a statement, with the reads and the calls to   *)
(* the model provider before it; the worker, which the gate does not hold  *)
(* back, and a crash of the API come between any two.  Analytics events    *)
(* that nothing reads are left out.                                        *)
(***************************************************************************)
EXTENDS Conversations, FiniteSets

CONSTANTS NoDoc,           \* the target of a request that names no document
          Slots,           \* goroutines that may serve the user
          UploadLimit,     \* guestDocumentUploadLimit
          QuestionLimit    \* guestQuestionLimit

ASSUME ChatAssumption ==
    /\ NoDoc \notin Docs
    /\ UploadLimit \in Nat \ {0}
    /\ QuestionLimit \in Nat \ {0}

VARIABLES
    rows,           \* documents the user has
    indexed,        \* documents with rows in document_chunks
    uploadEvents,   \* documents with a document.uploaded event (its dedupe key)
    step,           \* the next step of a slot
    target,         \* the document its request is about
    place,          \* which conversation of that document it writes
    question,       \* the number of the question it answers
    reply,          \* the answer of its last request
    saved,          \* history: documents the user has ever had
    asked           \* history: questions ever saved

tables == <<rows, indexed, uploadEvents, conversations>>
slotVars == <<step, target, place, question, reply>>
vars == <<tables, slotVars, saved, asked>>

Steps == {"idle", "checkUploads", "upload", "trackUpload", "delete",
          "checkQuestions", "find", "create", "ask", "retrieve", "answer"}

Replies == {"none", "ok", "error", "forbidden", "not_found", "no_results", "answered"}

TypeOK ==
    /\ ConversationsTypeOK
    /\ rows \subseteq Docs
    /\ indexed \subseteq Docs
    /\ uploadEvents \subseteq Docs
    /\ step \in [Slots -> Steps]
    /\ target \in [Slots -> Docs \cup {NoDoc}]
    /\ place \in [Slots -> Nat]
    /\ question \in [Slots -> Nat]
    /\ reply \in [Slots -> Replies]
    /\ saved \subseteq Docs
    /\ asked \in Nat

Init ==
    /\ ConversationsInit
    /\ rows = {}
    /\ indexed = {}
    /\ uploadEvents = {}
    /\ step = [s \in Slots |-> "idle"]
    /\ target = [s \in Slots |-> NoDoc]
    /\ place = [s \in Slots |-> 0]
    /\ question = [s \in Slots |-> 0]
    /\ reply = [s \in Slots |-> "none"]
    /\ saved = {}
    /\ asked = 0

-----------------------------------------------------------------------------
Goto(s, next) ==
    /\ step' = [step EXCEPT ![s] = next]
    /\ UNCHANGED <<target, place, question, reply>>

\* The handler returns.
Return(s, answer) ==
    /\ step' = [step EXCEPT ![s] = "idle"]
    /\ target' = [target EXCEPT ![s] = NoDoc]
    /\ place' = [place EXCEPT ![s] = 0]
    /\ question' = [question EXCEPT ![s] = 0]
    /\ reply' = [reply EXCEPT ![s] = answer]

\* Slip: the routes are mounted without ConcurrencyMiddleware.
BeginUngated(s) ==
    /\ step[s] = "idle"
    /\ \/ /\ step' = [step EXCEPT ![s] = "checkUploads"]
          /\ UNCHANGED target
       \/ \E d \in Docs, next \in {"delete", "checkQuestions"} :
             /\ step' = [step EXCEPT ![s] = next]
             /\ target' = [target EXCEPT ![s] = d]
    /\ reply' = [reply EXCEPT ![s] = "none"]
    /\ UNCHANGED <<tables, place, question, saved, asked>>

\* A request enters its handler: ConcurrencyMiddleware lets it through when no
\* other request of the user is in one.
Begin(s) ==
    /\ \A t \in Slots : step[t] = "idle"
    /\ \/ /\ step' = [step EXCEPT ![s] = "checkUploads"]
          /\ UNCHANGED target
       \/ \E d \in Docs, next \in {"delete", "checkQuestions"} :
             /\ step' = [step EXCEPT ![s] = next]
             /\ target' = [target EXCEPT ![s] = d]
    /\ reply' = [reply EXCEPT ![s] = "none"]
    /\ UNCHANGED <<tables, place, question, saved, asked>>

\* A statement or a call to a provider fails, or the client has gone and the
\* request's context with it: an early return with an error.  What follows
\* the two steps left out is logged only.
StatementFails(s) ==
    /\ step[s] \notin {"idle", "trackUpload", "answer"}
    /\ Return(s, "error")
    /\ UNCHANGED <<tables, saved, asked>>

-----------------------------------------------------------------------------
(* UploadDocumentHandler. *)

\* Slip: the events of deleted documents are not counted.
CheckRowsOnly(s) ==
    /\ step[s] = "checkUploads"
    /\ \/ /\ Cardinality(rows) < UploadLimit
          /\ Goto(s, "upload")
       \/ /\ Cardinality(rows) >= UploadLimit
          /\ Return(s, "forbidden")
    /\ UNCHANGED <<tables, saved, asked>>

CheckUploadLimit(s) ==
    /\ step[s] = "checkUploads"
    /\ LET allowed == Cardinality(rows) < UploadLimit /\ Cardinality(uploadEvents) < UploadLimit
       IN  \/ allowed /\ Goto(s, "upload")
           \/ ~allowed /\ Return(s, "forbidden")
    /\ UNCHANGED <<tables, saved, asked>>

\* The file goes to Cloudinary under a fresh uuid, then SaveDocument.
UploadDocument(s, d) ==
    /\ step[s] = "upload"
    /\ d \notin saved
    /\ rows' = rows \cup {d}
    /\ saved' = saved \cup {d}
    /\ target' = [target EXCEPT ![s] = d]
    /\ step' = [step EXCEPT ![s] = "trackUpload"]
    /\ UNCHANGED <<indexed, uploadEvents, conversations, place, question, reply, asked>>

\* Slip: the event is written without its document.
TrackNoDocument(s) ==
    /\ step[s] = "trackUpload"
    /\ uploadEvents' = uploadEvents \cup {NoDoc}
    /\ Return(s, "ok")
    /\ UNCHANGED <<rows, indexed, conversations, saved, asked>>

\* An error of Track is logged and the upload succeeds all the same.
TrackUpload(s) ==
    /\ step[s] = "trackUpload"
    /\ \/ uploadEvents' = uploadEvents \cup {target[s]}
       \/ UNCHANGED uploadEvents
    /\ Return(s, "ok")
    /\ UNCHANGED <<rows, indexed, conversations, saved, asked>>

-----------------------------------------------------------------------------
(* DeleteDocumentHandler. *)

\* Slip: the transaction forgets the conversations.
DeleteWithoutConversations(s) ==
    /\ step[s] = "delete"
    /\ target[s] \in rows
    /\ rows' = rows \ {target[s]}
    /\ indexed' = indexed \ {target[s]}
    /\ Return(s, "ok")
    /\ UNCHANGED <<uploadEvents, conversations, saved, asked>>

DeleteDocument(s) ==
    /\ step[s] = "delete"
    /\ \/ /\ target[s] \in rows
          /\ DeleteConversations(target[s])
          /\ rows' = rows \ {target[s]}
          /\ indexed' = indexed \ {target[s]}
          /\ Return(s, "ok")
       \/ /\ target[s] \notin rows
          /\ Return(s, "not_found")
          /\ UNCHANGED <<rows, indexed, conversations>>
    /\ UNCHANGED <<uploadEvents, saved, asked>>

-----------------------------------------------------------------------------
(* SearchThroughDocumentHandler. *)

CheckQuestionLimit(s) ==
    /\ step[s] = "checkQuestions"
    /\ LET allowed == Cardinality(StoredQuestions) < QuestionLimit
       IN  \/ allowed /\ Goto(s, "find")
           \/ ~allowed /\ Return(s, "forbidden")
    /\ UNCHANGED <<tables, saved, asked>>

\* The two reads of GetOrCreateByDocumentID.  First orders by a random uuid:
\* any conversation of the document.
FindConversation(s) ==
    /\ step[s] = "find"
    /\ \/ /\ target[s] \notin rows
          /\ Return(s, "not_found")
       \/ /\ target[s] \in rows
          /\ conversations[target[s]] = <<>>
          /\ Goto(s, "create")
       \/ \E c \in DOMAIN conversations[target[s]] :
             /\ target[s] \in rows
             /\ place' = [place EXCEPT ![s] = c]
             /\ step' = [step EXCEPT ![s] = "ask"]
             /\ UNCHANGED <<target, question, reply>>
    /\ UNCHANGED <<tables, saved, asked>>

\* Its insert.
AddConversation(s) ==
    /\ step[s] = "create"
    /\ CreateConversation(target[s])
    /\ place' = [place EXCEPT ![s] = Len(conversations[target[s]]) + 1]
    /\ step' = [step EXCEPT ![s] = "ask"]
    /\ UNCHANGED <<rows, indexed, uploadEvents, target, question, reply, saved, asked>>

\* The history is read, the query is rewritten, the question is saved.
SaveQuestion(s) ==
    /\ step[s] = "ask"
    /\ CreateMessage(target[s], place[s], [role |-> "user", question |-> asked + 1])
    /\ question' = [question EXCEPT ![s] = asked + 1]
    /\ asked' = asked + 1
    /\ step' = [step EXCEPT ![s] = "retrieve"]
    /\ UNCHANGED <<rows, indexed, uploadEvents, target, place, reply, saved>>

\* Both queries join documents.  `chunks, err =' in the branch of
\* SearchDocumentChunks assigns the err of that branch, so the check after
\* the branches does not see its error and there are no chunks.
RetrieveChunks(s) ==
    /\ step[s] = "retrieve"
    /\ \/ /\ target[s] \in rows \cap indexed
          /\ Goto(s, "answer")
       \/ /\ target[s] \notin rows \cap indexed
          /\ Return(s, "no_results")
       \/ Return(s, "no_results")
    /\ UNCHANGED <<tables, saved, asked>>

\* The answer is streamed and saved, in part when the stream breaks; an error
\* of CreateMessage is logged.
SaveAnswer(s) ==
    /\ step[s] = "answer"
    /\ \/ CreateMessage(target[s], place[s], [role |-> "assistant", question |-> question[s]])
       \/ UNCHANGED conversations
    /\ Return(s, "answered")
    /\ UNCHANGED <<rows, indexed, uploadEvents, saved, asked>>

-----------------------------------------------------------------------------
(* Outside the gate. *)

\* CreateChunks in the worker, which may come after a deletion.
IndexDocument(d) ==
    /\ d \in saved
    /\ indexed' = indexed \cup {d}
    /\ UNCHANGED <<rows, uploadEvents, conversations, slotVars, saved, asked>>

\* The API process dies and is started again.
CrashApi ==
    /\ \E s \in Slots : step[s] # "idle"
    /\ step' = [s \in Slots |-> "idle"]
    /\ target' = [s \in Slots |-> NoDoc]
    /\ place' = [s \in Slots |-> 0]
    /\ question' = [s \in Slots |-> 0]
    /\ reply' = [s \in Slots |-> "none"]
    /\ UNCHANGED <<tables, saved, asked>>

UploadStep(s) ==
    \/ CheckUploadLimit(s)
    \/ \E d \in Docs : UploadDocument(s, d)
    \/ TrackUpload(s)

SearchStep(s) ==
    \/ CheckQuestionLimit(s)
    \/ FindConversation(s)
    \/ AddConversation(s)
    \/ SaveQuestion(s)
    \/ RetrieveChunks(s)
    \/ SaveAnswer(s)

Next ==
    \/ \E s \in Slots : Begin(s) \/ UploadStep(s) \/ DeleteDocument(s) \/ SearchStep(s)
                      \/ StatementFails(s)
    \/ \E d \in Docs : IndexDocument(d)
    \/ CrashApi

Spec == Init /\ [][Next]_vars

-----------------------------------------------------------------------------
\* A document has one conversation, although GetOrCreateByDocumentID reads and
\* inserts in separate statements and no index keeps it unique: it is the gate
\* that keeps two requests of a user from creating one each.
OneConversation == \A d \in Docs : Len(conversations[d]) <= 1

\* In a conversation every answer comes directly after the question it
\* answers, although the two are saved by different statements with a search
\* and a stream in between, and either may be missing after an error, a crash
\* or a disconnect.
AnswersFollowQuestions ==
    \A d \in Docs : \A c \in DOMAIN conversations[d] :
        LET talk == conversations[d][c]
        IN  \A i \in DOMAIN talk : talk[i].role = "assistant" =>
                i > 1 /\ talk[i - 1] = [role |-> "user", question |-> talk[i].question]

\* A guest never has more saved questions than the limit.  When the event of
\* every upload was recorded, neither deleting documents nor crashes give a
\* guest a question or an upload beyond the limits.
GuestLimits ==
    /\ Cardinality(StoredQuestions) <= QuestionLimit
    /\ saved \subseteq uploadEvents => asked <= QuestionLimit /\ Cardinality(saved) <= UploadLimit

\* No conversation outlives its document, and a request that writes to one
\* finds it there: a deletion does not run beside a search of the same user.
HistoryHasDocument ==
    /\ \A d \in Docs : conversations[d] # <<>> => d \in rows
    /\ \A s \in Slots : step[s] \in {"ask", "retrieve", "answer"}
                            => place[s] \in DOMAIN conversations[target[s]]
=============================================================================
