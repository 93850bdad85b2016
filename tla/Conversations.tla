---------------------------- MODULE Conversations ----------------------------
(***************************************************************************)
(* The tables `document_conversations' and `document_messages' of one      *)
(* user, seen through internal/store/conversationStore.go.  A conversation *)
(* is the sequence of its messages by created_at, and a document has a     *)
(* sequence of conversations: nothing in the schema keeps it at one.  The  *)
(* text of a message is abstracted to the number of the question it asks   *)
(* or answers.                                                             *)
(***************************************************************************)
EXTENDS Naturals, Sequences, Documents

VARIABLE conversations

Messages == [role : {"user", "assistant"}, question : Nat]

ConversationsTypeOK == conversations \in [Docs -> Seq(Seq(Messages))]

ConversationsInit == conversations = [d \in Docs |-> <<>>]

\* The questions a conversation holds.
QuestionsIn(conversation) ==
    {conversation[i].question :
        i \in {k \in DOMAIN conversation : conversation[k].role = "user"}}

\* What CountUserMessagesByUserID counts: the join drops deleted conversations.
StoredQuestions ==
    UNION {UNION {QuestionsIn(conversations[d][c]) : c \in DOMAIN conversations[d]} : d \in Docs}

CreateConversation(d) ==
    conversations' = [conversations EXCEPT ![d] = Append(@, <<>>)]

\* A message of a conversation that is gone violates its foreign key.
CreateMessage(d, c, message) ==
    /\ c \in DOMAIN conversations[d]
    /\ conversations' = [conversations EXCEPT ![d][c] = Append(@, message)]

\* The part of DeleteDocument's transaction on these tables.
DeleteConversations(d) == conversations' = [conversations EXCEPT ![d] = <<>>]
=============================================================================
