------------------------------ MODULE MCIntake -------------------------------
EXTENDS DocumentIntake, TLC

ThreeTopics == {"resume", "legal", "research"}

\* One suffix of each branch of IsAllowedDocumentUpload, and none of them.
SomeFiles == [suffix : {"pdf", "jpeg", "png", "md", "docx", "none"}, type : Types]

Text(bytes, email, phone, matches, chunks) ==
    [bytes |-> bytes, email |-> email, phone |-> phone, matches |-> matches, chunks |-> chunks]

NoMatches == [topic \in ThreeTopics |-> 0]

\* Every text of up to four bytes: one beyond the limit of the instance.
ByBytes ==
    {Text(b, FALSE, FALSE, NoMatches, 1) :
        b \in UNION {[1..n -> {"letter", "space", "stop", "first", "second", "bad"}] : n \in 0..4}}

\* Every outcome of the three scores around the threshold of a resume.
ByScore ==
    {Text(<<"letter">>, email, phone, matches, 1) :
        email \in BOOLEAN, phone \in BOOLEAN, matches \in [ThreeTopics -> 0..2]}

\* Texts on both sides of the bounds on chunks.
ByChunks == {Text(<<"letter">>, FALSE, FALSE, NoMatches, n) : n \in 0..3}

\* A text of either kind: one that is cut, and ties of the scores.
SomeExtracts ==
    {Text(<<"letter", "stop", "first", "second">>, FALSE, FALSE, NoMatches, 1)}
        \cup {t \in ByScore : t.email = t.phone}

AllTexts == ByBytes \cup ByScore \cup ByChunks
=============================================================================
