------------------------------ MODULE Transcript ------------------------------
(***************************************************************************)
(* What a user sees of the chat: one transcript per document, to which a   *)
(* question is added, or the answer to the question it ends with, and      *)
(* which disappears with its document and not before.                      *)
(***************************************************************************)
EXTENDS Naturals, Sequences, Documents

VARIABLES documents,    \* the documents the user has
          transcript,   \* what was said about each
          asked         \* number of the last question

transcriptVars == <<documents, transcript, asked>>

Question(n) == [role |-> "user", question |-> n]
Answer(n) == [role |-> "assistant", question |-> n]

Init ==
    /\ documents = {}
    /\ transcript = [d \in Docs |-> <<>>]
    /\ asked = 0

Upload(d) ==
    /\ d \notin documents
    /\ documents' = documents \cup {d}
    /\ UNCHANGED <<transcript, asked>>

Ask(d) ==
    /\ d \in documents
    /\ asked' = asked + 1
    /\ transcript' = [transcript EXCEPT ![d] = Append(@, Question(asked + 1))]
    /\ UNCHANGED documents

Reply(d, n) ==
    /\ transcript[d] # <<>>
    /\ transcript[d][Len(transcript[d])] = Question(n)
    /\ transcript' = [transcript EXCEPT ![d] = Append(@, Answer(n))]
    /\ UNCHANGED <<documents, asked>>

Delete(d) ==
    /\ d \in documents
    /\ documents' = documents \ {d}
    /\ transcript' = [transcript EXCEPT ![d] = <<>>]
    /\ UNCHANGED asked

Next == \E d \in Docs : Upload(d) \/ Ask(d) \/ (\E n \in 1..asked : Reply(d, n)) \/ Delete(d)

Spec == Init /\ [][Next]_transcriptVars
=============================================================================
