---------------------------- MODULE DocumentIntake ----------------------------
(***************************************************************************)
(* One file on its way from the upload form to its summary, with the       *)
(* functions of DocumentAnalysis: UploadDocumentHandler stores it under a  *)
(* bare UUID, Cloudinary reports it, ProcessTask reads, analyses, embeds   *)
(* and records it, and asynq retries what may be retried.  What happens    *)
(* beside it (other attempts, other requests, lost processes) is the       *)
(* subject of DocumentPipeline.                                            *)
(***************************************************************************)
EXTENDS DocumentAnalysis

CONSTANTS Files,         \* files a user may choose: their suffix and their type
          Texts,         \* texts a local parser may return
          Extracts,      \* those among them that OpenAI may return
          MaxChunks,     \* DOCUMENT_MAX_CHUNKS; no limit if 0
          MaxAttempts,   \* asynq runs a task that fails at most so often
          Nothing        \* no text, no file

ASSUME IntakeAssumption ==
    /\ Files \subseteq [suffix : Extensions, type : Types]
    /\ \A t \in Texts : /\ t.bytes \in Seq(Bytes)
                        /\ t.email \in BOOLEAN
                        /\ t.phone \in BOOLEAN
                        /\ t.matches \in [Topics -> Nat]
                        /\ t.chunks \in Nat
    /\ Extracts \subseteq {t \in Texts : ValidUTF8(t.bytes) /\ t.bytes # <<>>}
    /\ MaxChunks \in Nat
    /\ MaxAttempts \in Nat \ {0}
    /\ Nothing \notin Texts \cup Files

VARIABLES stage,      \* where the file is
          file,       \* its suffix and its type
          parser,     \* the parser of its payload
          reading,    \* what that parser makes of it; Nothing: an error
          text,       \* the text of the current attempt
          fellBack,   \* history: OpenAI was asked for the text
          attempts    \* what each attempt found: text, class, confidence, summary

vars == <<stage, file, parser, reading, text, fellBack, attempts>>

TypeOK ==
    /\ stage \in {"new", "refused", "stored", "queued", "reading", "extracted", "analysed",
                  "ready", "failed"}
    /\ file \in Files \cup {Nothing}
    /\ parser \in {"none", "pdf", "text", "any"}
    /\ reading \in Texts \cup {Nothing}
    /\ text \in Texts \cup {Nothing}
    /\ fellBack \in BOOLEAN
    /\ Len(attempts) <= MaxAttempts
    /\ \A i \in DOMAIN attempts : /\ attempts[i].text \in Texts
                                  /\ attempts[i].class \in Topics \cup {"general"}
                                  /\ attempts[i].confidence \in 50..95
                                  /\ attempts[i].summary.dots \in BOOLEAN

Init ==
    /\ stage = "new"
    /\ file = Nothing
    /\ parser = "none"
    /\ reading = Nothing
    /\ text = Nothing
    /\ fellBack = FALSE
    /\ attempts = <<>>

-----------------------------------------------------------------------------
UploadDocument(f) ==
    /\ stage = "new"
    /\ file' = f
    /\ stage' = IF IsAllowedDocumentUpload(f.suffix, f.type) THEN "stored" ELSE "refused"
    /\ UNCHANGED <<parser, reading, text, fellBack, attempts>>

\* Images and archives have a byte that no text has among their first few,
\* before any place a summary may end at.
Binary(b) == \E i \in DOMAIN b : i <= SummaryFloor + 1 /\ b[i] = "bad"

\* The library's parsers.  TextParser takes the bytes as they are.  The format
\* the third parser goes by is the extension of the download, which has none.
Readings(f, p) ==
    CASE p = "text" /\ f.type \in {"text", "pdf"} -> Texts
      [] p = "text" /\ f.type \notin {"text", "pdf"} -> {t \in Texts : Binary(t.bytes)}
      [] p = "pdf" -> {t \in Texts : ValidUTF8(t.bytes)} \cup {Nothing}
      [] OTHER -> {Nothing}

\* CloudinaryUploadWebhook copies what Cloudinary reports, which may or may
\* not know a format and a name; the URL is that of a raw upload under the
\* UUID of the document.
QueueTask(format, filename) ==
    /\ stage = "stored"
    /\ format \in {file.suffix, "none"}
    /\ filename \in {file.suffix, "none"}
    /\ parser' = ParserForPayload(format, filename, [raw |-> TRUE, suffix |-> "none"])
    /\ \E t \in Readings(file, parser') : reading' = t
    /\ stage' = "queued"
    /\ UNCHANGED <<file, text, fellBack, attempts>>

ParseLocally ==
    /\ stage = "queued"
    /\ IF reading # Nothing
       THEN stage' = "extracted" /\ text' = reading
       ELSE stage' = "reading" /\ UNCHANGED text
    /\ UNCHANGED <<file, parser, reading, fellBack, attempts>>

\* ExtractTextWithOpenAI: a text of the model's making, or an error that
\* SkipRetry makes final.
ExtractTextWithOpenAI ==
    /\ stage = "reading"
    /\ fellBack' = TRUE
    /\ \/ /\ \E t \in Extracts : text' = t
          /\ stage' = "extracted"
       \/ /\ stage' = "failed"
          /\ UNCHANGED text
    /\ UNCHANGED <<file, parser, reading, attempts>>

\* Classification and summary come before the bounds on the chunks, whose
\* errors are final.
Analyse ==
    /\ stage = "extracted"
    /\ \E order \in SetToSeqs(Topics) :
         LET result == ClassifyDocument(text, order)
         IN attempts' = Append(attempts, [text |-> text,
                                          class |-> result.class,
                                          confidence |-> result.confidence,
                                          summary |-> SummarizeDocument(text.bytes)])
    /\ stage' = IF text.chunks = 0 \/ (MaxChunks > 0 /\ text.chunks > MaxChunks)
                THEN "failed" ELSE "analysed"
    /\ UNCHANGED <<file, parser, reading, text, fellBack>>

\* Slip: one attempt too many.
RetryOnceMore == stage' = IF Len(attempts) <= MaxAttempts THEN "queued" ELSE "failed"

Retry == stage' = IF Len(attempts) < MaxAttempts THEN "queued" ELSE "failed"

\* The embedding service or a statement fails.
EmbedFails ==
    /\ stage = "analysed"
    /\ Retry
    /\ text' = Nothing
    /\ UNCHANGED <<file, parser, reading, fellBack, attempts>>

\* UpdateDocumentProcessingResult: PostgreSQL refuses a summary that is not
\* valid UTF-8, an error like any other.
RecordResult ==
    /\ stage = "analysed"
    /\ IF ValidUTF8(Last(attempts).summary.body)
       THEN stage' = "ready" /\ UNCHANGED text
       ELSE Retry /\ text' = Nothing
    /\ UNCHANGED <<file, parser, reading, fellBack, attempts>>

Next ==
    \/ \E f \in Files : UploadDocument(f)
    \/ \E format, filename \in Extensions : QueueTask(format, filename)
    \/ ParseLocally
    \/ ExtractTextWithOpenAI
    \/ Analyse
    \/ EmbedFails
    \/ RecordResult

Spec == Init /\ [][Next]_vars

-----------------------------------------------------------------------------
\* What is answered from was read as what it is: the bytes of an image or an
\* archive, which TextParser hands on without an error because every upload
\* is a raw one, get as far as the summary and no further.  (A PDF that
\* Cloudinary reports without a name is read as text, too, and may pass.)
ReadyIsReadable ==
    stage = "ready" /\ file.type \notin {"text", "pdf"} => parser # "text"

\* What a summary is, said without the algorithm: a beginning of the text
\* that is all of it, or ends with the last sentence that ends between floor
\* and limit, or, if there is none, breaks off at the limit with an ellipsis,
\* but for a space there, which goes.
SummaryFollowsText ==
    \A i \in DOMAIN attempts :
        LET whole == Normalize(attempts[i].text.bytes)
            body == attempts[i].summary.body
            Ends(k) == k \in DOMAIN whole /\ whole[k] = "stop" /\ k > SummaryFloor
        IN /\ IsPrefix(body, whole)
           /\ Len(body) <= SummaryLimit
           /\ attempts[i].summary.dots =>
                  /\ Len(whole) > SummaryLimit
                  /\ \A k \in 1..SummaryLimit : ~Ends(k)
                  /\ \/ Len(body) = SummaryLimit
                     \/ Len(body) = SummaryLimit - 1 /\ whole[SummaryLimit] = "space"
           /\ ~attempts[i].summary.dots /\ body # whole =>
                  /\ Ends(Len(body))
                  /\ \A k \in (Len(body) + 1)..SummaryLimit : ~Ends(k)

\* A valid text gets a valid summary unless it is cut at the limit, where the
\* cut may go through a character: an end of sentence is a safe place.
OnlyEllipsisSplits ==
    \A i \in DOMAIN attempts :
        ValidUTF8(attempts[i].text.bytes) /\ ~attempts[i].summary.dots
            => ValidUTF8(attempts[i].summary.body)

\* Attempts that read the same text agree on confidence and summary and, but
\* for a tie, on the class, although each ranges over the scores in an order
\* of its own: a retry does not reclassify a document.
AttemptsAgree ==
    \A i, j \in DOMAIN attempts :
        attempts[i].text = attempts[j].text =>
            /\ attempts[i].confidence = attempts[j].confidence
            /\ attempts[i].summary = attempts[j].summary
            /\ attempts[i].class # attempts[j].class =>
                   Score(attempts[i].text, attempts[i].class)
                       = Score(attempts[i].text, attempts[j].class)

\* A class other than general has a keyword to show for it, and no class of a
\* higher score was passed over, unless the text is a resume by its contacts.
ClassIsEarned ==
    \A i \in DOMAIN attempts :
        LET t == attempts[i].text
            class == attempts[i].class
        IN IF class = "general" THEN \A topic \in Topics : Score(t, topic) = 0
           ELSE /\ Score(t, class) > 0
                /\ \/ class = "resume" /\ ResumeScore(t) >= 5
                   \/ \A topic \in Topics : Score(t, topic) <= Score(t, class)

-----------------------------------------------------------------------------
(* What the documentation says and the code does not do. *)

\* OpenAI reads the files the local parser cannot read, the README says: an
\* image or an archive, of which TextParser has the bytes and no text, is not
\* analysed before OpenAI was asked for its text.
UnreadableFallsBack ==
    attempts # <<>> /\ file.type \notin {"text", "pdf"} => fellBack
=============================================================================
