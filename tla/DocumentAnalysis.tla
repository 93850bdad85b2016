--------------------------- MODULE DocumentAnalysis ---------------------------
(***************************************************************************)
(* The functions that decide what happens to a file: which uploads are     *)
(* admitted, which parser reads them, how a text is classified and         *)
(* summarised.  A text is its bytes, abstracted to the kinds of byte that  *)
(* SummarizeDocument and PostgreSQL tell apart, with the e-mail address,   *)
(* telephone number and numbers of keywords ClassifyDocument finds in it.  *)
(***************************************************************************)
EXTENDS Integers, Sequences, FiniteSets, SequencesExt

CONSTANTS Topics,         \* keys of the map of scores, "resume" among them
          SummaryLimit,   \* 600 bytes
          SummaryFloor    \* 240, the least index of a sentence end to cut after

ASSUME AnalysisAssumption ==
    /\ IsFiniteSet(Topics)
    /\ "resume" \in Topics
    /\ "general" \notin Topics
    /\ SummaryLimit \in Nat \ {0}
    /\ SummaryFloor \in 0..(SummaryLimit - 1)

\* "first" begins a character of two bytes, which "second" ends; "bad" is in
\* no UTF-8 text.
Bytes == {"letter", "space", "stop", "first", "second", "bad"}

ValidUTF8(b) ==
    \A i \in DOMAIN b :
        /\ b[i] # "bad"
        /\ b[i] = "first" => i < Len(b) /\ b[i + 1] = "second"
        /\ b[i] = "second" => i > 1 /\ b[i - 1] = "first"

-----------------------------------------------------------------------------
(* Uploads and parsers. *)

Extensions == {"pdf", "jpg", "jpeg", "png", "md", "markdown", "txt", "docx", "none"}

\* What http.DetectContentType says of the first 512 bytes.
Types == {"pdf", "jpeg", "png", "text", "zip", "other"}

IsAllowedDocumentUpload(suffix, type) ==
    \/ suffix = "pdf" /\ type = "pdf"
    \/ suffix \in {"jpg", "jpeg"} /\ type = "jpeg"
    \/ suffix = "png" /\ type = "png"
    \/ suffix \in {"md", "markdown", "txt"} /\ type = "text"
    \/ suffix = "docx" /\ type = "zip"

TextExtensions == {"txt", "md", "markdown"}

\* format and filename are what the webhook reports, without the dot and down
\* to the suffix.
ParserForPayload(format, filename, url) ==
    IF "pdf" \in {format, filename, url.suffix} THEN "pdf"
    ELSE IF format \in TextExtensions \cup {"text"} \/ filename \in TextExtensions \/ url.raw
         THEN "text"
    ELSE "any"

-----------------------------------------------------------------------------
(* Classification. *)

ResumeScore(text) ==
    (IF text.email THEN 3 ELSE 0) + (IF text.phone THEN 2 ELSE 0) + text.matches["resume"]

Score(text, topic) == IF topic = "resume" THEN ResumeScore(text) ELSE text.matches[topic]

\* In hundredths.
ConfidenceFromScore(score) == IF 60 + 5 * score > 95 THEN 95 ELSE 60 + 5 * score

\* Slip: the comparison of the loop lets an equal score win.
ClassifyLast(text, order) ==
    LET Better(best, topic) ==
            IF Score(text, topic) >= Score(text, best) THEN topic ELSE best
        class == FoldLeft(Better, Head(order), Tail(order))
    IN IF ResumeScore(text) >= 5
       THEN [class |-> "resume", confidence |-> ConfidenceFromScore(ResumeScore(text))]
       ELSE [class |-> class,
             confidence |-> IF Score(text, class) = 0 THEN 50
                            ELSE ConfidenceFromScore(Score(text, class))]

\* Slip: the confidence is that of the last topic of the loop.
ClassifyWithLastScore(text, order) ==
    LET Better(best, topic) ==
            IF Score(text, topic) > best.score
            THEN [class |-> topic, score |-> Score(text, topic)] ELSE best
        best == FoldLeft(Better, [class |-> "general", score |-> 0], order)
    IN IF ResumeScore(text) >= 5
       THEN [class |-> "resume", confidence |-> ConfidenceFromScore(ResumeScore(text))]
       ELSE [class |-> best.class, confidence |-> ConfidenceFromScore(Score(text, Last(order)))]

\* Go ranges over the map of scores in any order.
ClassifyDocument(text, order) ==
    LET Better(best, topic) ==
            IF Score(text, topic) > best.score
            THEN [class |-> topic, score |-> Score(text, topic)] ELSE best
        best == FoldLeft(Better, [class |-> "general", score |-> 0], order)
    IN IF ResumeScore(text) >= 5
       THEN [class |-> "resume", confidence |-> ConfidenceFromScore(ResumeScore(text))]
       ELSE [class |-> best.class,
             confidence |-> IF best.score = 0 THEN 50 ELSE ConfidenceFromScore(best.score)]

-----------------------------------------------------------------------------
(* The summary. *)

\* strings.Join(strings.Fields(text), " "): a space stays if it is the last
\* of several between two words.
Normalize(b) ==
    LET Kept(i) == b[i] # "space" \/ /\ i < Len(b)
                                     /\ b[i + 1] # "space"
                                     /\ \E j \in 1..(i - 1) : b[j] # "space"
    IN FoldLeft(LAMBDA kept, i : IF Kept(i) THEN Append(kept, b[i]) ELSE kept,
                <<>>, [i \in DOMAIN b |-> i])

TrimRight(b) == IF b # <<>> /\ Last(b) = "space" THEN Front(b) ELSE b

\* Slip: the least index decides on the ellipsis only, not on the place.
SummarizeEarly(b) ==
    LET normalized == Normalize(b)
        cut == SubSeq(normalized, 1, SummaryLimit)
        stops == {i \in DOMAIN cut : cut[i] = "stop"}
    IN CASE Len(normalized) <= SummaryLimit -> [body |-> normalized, dots |-> FALSE]
         [] Len(normalized) > SummaryLimit /\ stops # {} ->
                [body |-> SubSeq(cut, 1, Max(stops)), dots |-> Max(stops) <= SummaryFloor]
         [] OTHER -> [body |-> TrimRight(cut), dots |-> TRUE]

\* Slip: strings.ToValidUTF8 is applied to the summary.
SummarizeValid(b) ==
    LET normalized == SelectSeq(Normalize(b), LAMBDA x : x # "bad")
    IN IF Len(normalized) <= SummaryLimit THEN [body |-> normalized, dots |-> FALSE]
       ELSE [body |-> TrimRight(SubSeq(normalized, 1, SummaryLimit)), dots |-> TRUE]

\* Slip: no ellipsis after a cut in the middle of a sentence.
SummarizeBare(b) ==
    LET normalized == Normalize(b)
        cut == SubSeq(normalized, 1, SummaryLimit)
    IN [body |-> IF Len(normalized) <= SummaryLimit THEN normalized ELSE TrimRight(cut),
        dots |-> FALSE]

\* The text if it fits; else its first bytes, up to the end of a sentence if
\* one ends late enough, with an ellipsis otherwise.
SummarizeDocument(b) ==
    LET normalized == Normalize(b)
        cut == SubSeq(normalized, 1, SummaryLimit)
        stops == {i \in DOMAIN cut : cut[i] = "stop"}
    IN CASE Len(normalized) <= SummaryLimit -> [body |-> normalized, dots |-> FALSE]
         [] Len(normalized) > SummaryLimit /\ \E i \in stops : i > SummaryFloor ->
                [body |-> SubSeq(cut, 1, Max(stops)), dots |-> FALSE]
         [] OTHER -> [body |-> TrimRight(cut), dots |-> TRUE]
=============================================================================
