------------------------------ MODULE ChatProofs ------------------------------
(***************************************************************************)
(* The chat for every set of documents and of slots and all limits.        *)
(***************************************************************************)
EXTENDS ChatSession, FiniteSetTheorems, TLAPS

\* What the gate grants: the handlers of a user run one at a time.
OneHandler == \A s, t \in Slots : step[s] # "idle" /\ step[t] # "idle" => s = t

\* What a handler has found out about its document.
TargetsKnown ==
    \A s \in Slots :
        /\ step[s] \notin {"idle", "checkUploads", "upload"} => target[s] \in Docs
        /\ step[s] = "create" => target[s] \in rows /\ conversations[target[s]] = <<>>

TypeInv == TypeOK /\ OneHandler /\ TargetsKnown

\* The part of TypeOK about the slots.
SlotTypes ==
    /\ step \in [Slots -> Steps]
    /\ target \in [Slots -> Docs \cup {NoDoc}]
    /\ place \in [Slots -> Nat]
    /\ question \in [Slots -> Nat]
    /\ reply \in [Slots -> Replies]

ChatInv == TypeInv /\ OneConversation /\ HistoryHasDocument

\* A message that is appended keeps a document's conversations typed, keeps
\* their number, and leaves the others as they were.
LEMMA MessageAdded ==
    ASSUME NEW d \in Docs, NEW c \in Nat, NEW message \in Messages,
           ConversationsTypeOK, CreateMessage(d, c, message)
    PROVE  /\ ConversationsTypeOK'
           /\ \A e \in Docs : DOMAIN conversations'[e] = DOMAIN conversations[e]
           /\ \A e \in Docs : Len(conversations'[e]) = Len(conversations[e])
           /\ \A e \in Docs : conversations'[e] = <<>> <=> conversations[e] = <<>>
           /\ \A e \in Docs : e # d => conversations'[e] = conversations[e]
           /\ \A b \in DOMAIN conversations[d] : b # c => conversations'[d][b] = conversations[d][b]
           /\ conversations'[d][c] = Append(conversations[d][c], message)
<1> DEFINE talks == conversations[d]
           grown == [talks EXCEPT ![c] = Append(talks[c], message)]
<1> USE DEF ConversationsTypeOK, CreateMessage
<1>1. talks \in Seq(Seq(Messages)) /\ c \in 1..Len(talks) /\ talks[c] \in Seq(Messages)
  OBVIOUS
<1>2. Append(talks[c], message) \in Seq(Messages)
  BY <1>1
<1>3. conversations' = [conversations EXCEPT ![d] = grown]
  OBVIOUS
<1>4. grown \in Seq(Seq(Messages)) /\ Len(grown) = Len(talks) /\ DOMAIN grown = DOMAIN talks
  BY <1>1, <1>2
<1>5. \A e \in Docs : conversations'[e] = IF e = d THEN grown ELSE conversations[e]
  BY <1>3
<1>6. talks # <<>> /\ grown # <<>>
  BY <1>1, <1>4
<1>7. ConversationsTypeOK'
  BY <1>3, <1>4
<1> QED BY <1>1, <1>3, <1>4, <1>5, <1>6, <1>7

LEMMA ChatInit == Init => ChatInv
  BY ChatAssumption DEF Init, ConversationsInit, ConversationsTypeOK, ChatInv, TypeInv, TypeOK,
     OneHandler, TargetsKnown, Steps, Replies, OneConversation, HistoryHasDocument

\* A handler that goes on or returns keeps the slots typed and alone, and
\* forgets nothing about its document.
LEMMA GotoKeeps ==
    ASSUME NEW s \in Slots, NEW next \in Steps \ {"create"}, SlotTypes, OneHandler,
           step[s] # "idle", Goto(s, next)
    PROVE  /\ SlotTypes' /\ OneHandler'
           /\ TargetsKnown /\ (next = "upload" \/ target[s] \in Docs)
              /\ UNCHANGED <<rows, conversations>> => TargetsKnown'
  BY DEF SlotTypes, OneHandler, TargetsKnown, Goto

LEMMA ReturnKeeps ==
    ASSUME NEW s \in Slots, NEW answer \in Replies, SlotTypes, OneHandler, Return(s, answer)
    PROVE  /\ SlotTypes' /\ OneHandler'
           /\ TargetsKnown /\ UNCHANGED <<rows, conversations>> => TargetsKnown'
  BY DEF SlotTypes, OneHandler, TargetsKnown, Return, Steps

LEMMA ChatTypes == TypeInv /\ [Next]_vars => TypeInv'
<1> SUFFICES ASSUME TypeInv, [Next]_vars PROVE TypeInv'
  OBVIOUS
<1> USE ChatAssumption DEF TypeInv, tables, Steps, Replies
<1>0. SlotTypes /\ (SlotTypes' /\ UNCHANGED <<tables, saved, asked>> => TypeOK')
  BY DEF TypeOK, SlotTypes, ConversationsTypeOK
<1>1. ASSUME NEW s \in Slots, Begin(s) PROVE TypeInv'
  <2>1. TypeOK'
    BY <1>0, <1>1 DEF Begin, SlotTypes
  <2> QED BY <1>1, <2>1 DEF Begin, TypeOK, OneHandler, TargetsKnown
<1>2. ASSUME NEW s \in Slots, StatementFails(s) PROVE TypeInv'
  BY <1>0, <1>2, ReturnKeeps DEF StatementFails
<1>3. ASSUME NEW s \in Slots, CheckUploadLimit(s) PROVE TypeInv'
  BY <1>0, <1>3, ReturnKeeps, GotoKeeps DEF CheckUploadLimit
<1>4. ASSUME NEW s \in Slots, NEW d \in Docs, UploadDocument(s, d) PROVE TypeInv'
  <2>1. TypeOK'
    BY <1>4 DEF UploadDocument, TypeOK, ConversationsTypeOK
  <2> QED BY <1>4, <2>1 DEF UploadDocument, TypeOK, OneHandler, TargetsKnown
<1>5. ASSUME NEW s \in Slots, TrackUpload(s) PROVE TypeInv'
  <2>1. SlotTypes' /\ OneHandler' /\ TargetsKnown'
    BY <1>0, <1>5, ReturnKeeps DEF TrackUpload
  <2>2. TypeOK'
    BY <1>5, <2>1 DEF TrackUpload, TypeOK, SlotTypes, ConversationsTypeOK, TargetsKnown
  <2> QED BY <2>1, <2>2
<1>6. ASSUME NEW s \in Slots, DeleteDocument(s) PROVE TypeInv'
  <2>1. CASE Return(s, "not_found") /\ UNCHANGED <<rows, indexed, conversations>>
    BY <1>0, <1>6, <2>1, ReturnKeeps DEF DeleteDocument
  <2>2. ASSUME DeleteConversations(target[s]), rows' = rows \ {target[s]},
               indexed' = indexed \ {target[s]}, Return(s, "ok")
        PROVE  TypeInv'
    <3>1. SlotTypes' /\ OneHandler'
      BY <1>0, <2>2, ReturnKeeps
    <3>2. ConversationsTypeOK'
      <4>1. <<>> \in Seq(Seq(Messages))
        OBVIOUS
      <4>2. conversations' = [conversations EXCEPT ![target[s]] = <<>>]
        BY <2>2 DEF DeleteConversations
      <4> QED BY <4>1, <4>2 DEF TypeOK, ConversationsTypeOK
    <3>3. TypeOK'
      BY <1>6, <2>2, <3>1, <3>2 DEF DeleteDocument, TypeOK, SlotTypes
    <3>4. \A t \in Slots : step'[t] = "idle"
      BY <1>6, <2>2 DEF DeleteDocument, Return, TypeOK, OneHandler
    <3> QED BY <3>1, <3>3, <3>4 DEF TargetsKnown
  <2> QED BY <1>6, <2>1, <2>2 DEF DeleteDocument
<1>7. ASSUME NEW s \in Slots, CheckQuestionLimit(s) PROVE TypeInv'
  <2>1. target[s] \in Docs
    BY <1>7 DEF CheckQuestionLimit, TargetsKnown
  <2> QED BY <1>0, <1>7, <2>1, ReturnKeeps, GotoKeeps DEF CheckQuestionLimit
<1>8. ASSUME NEW s \in Slots, FindConversation(s) PROVE TypeInv'
  <2>0. UNCHANGED <<tables, saved, asked>>
    BY <1>8 DEF FindConversation
  <2>1. CASE Return(s, "not_found")
    BY <1>0, <2>0, <2>1, ReturnKeeps
  <2>2. CASE target[s] \in rows /\ conversations[target[s]] = <<>> /\ Goto(s, "create")
    <3>1. step[s] = "find"
      BY <1>8 DEF FindConversation
    <3>2. SlotTypes'
      BY <1>0, <2>2 DEF Goto, SlotTypes
    <3> QED BY <1>0, <2>0, <2>2, <3>1, <3>2 DEF Goto, TypeOK, OneHandler, TargetsKnown
  <2>3. ASSUME NEW c \in DOMAIN conversations[target[s]], target[s] \in rows,
               place' = [place EXCEPT ![s] = c], step' = [step EXCEPT ![s] = "ask"],
               UNCHANGED <<target, question, reply>>
        PROVE  TypeInv'
    <3>1. c \in Nat
      BY <2>3 DEF TypeOK, ConversationsTypeOK
    <3>2. SlotTypes'
      BY <1>0, <2>3, <3>1 DEF SlotTypes
    <3>3. step[s] = "find"
      BY <1>8 DEF FindConversation
    <3> QED BY <1>0, <2>0, <2>3, <3>2, <3>3 DEF TypeOK, OneHandler, TargetsKnown
  <2> QED BY <1>8, <2>1, <2>2, <2>3 DEF FindConversation
<1>9. ASSUME NEW s \in Slots, AddConversation(s) PROVE TypeInv'
  <2>1. ConversationsTypeOK' /\ Len(conversations[target[s]]) \in Nat
    BY <1>9
    DEF AddConversation, CreateConversation, TypeOK, ConversationsTypeOK, TargetsKnown
  <2>2. TypeOK'
    BY <1>9, <2>1 DEF AddConversation, TypeOK
  <2> QED BY <1>9, <2>2 DEF AddConversation, TypeOK, OneHandler, TargetsKnown
<1>10. ASSUME NEW s \in Slots, SaveQuestion(s) PROVE TypeInv'
  <2>0. [role |-> "user", question |-> asked + 1] \in Messages
    BY DEF TypeOK, Messages
  <2>1. target[s] \in Docs /\ place[s] \in Nat
    BY <1>10 DEF SaveQuestion, TypeOK, TargetsKnown
  <2>2. ConversationsTypeOK'
    BY <1>10, <2>0, <2>1, MessageAdded DEF SaveQuestion, TypeOK
  <2>3. TypeOK'
    BY <1>10, <2>2 DEF SaveQuestion, TypeOK
  <2> QED BY <1>10, <2>3 DEF SaveQuestion, TypeOK, OneHandler, TargetsKnown
<1>11. ASSUME NEW s \in Slots, RetrieveChunks(s) PROVE TypeInv'
  <2>1. target[s] \in Docs
    BY <1>11 DEF RetrieveChunks, TargetsKnown
  <2> QED BY <1>0, <1>11, <2>1, ReturnKeeps, GotoKeeps DEF RetrieveChunks
<1>12. ASSUME NEW s \in Slots, SaveAnswer(s) PROVE TypeInv'
  <2>1. target[s] \in Docs /\ place[s] \in Nat
        /\ [role |-> "assistant", question |-> question[s]] \in Messages
    BY <1>12 DEF SaveAnswer, TypeOK, TargetsKnown, Messages
  <2>2. ConversationsTypeOK'
    BY <1>12, <2>1, MessageAdded DEF SaveAnswer, TypeOK, ConversationsTypeOK
  <2>3. SlotTypes' /\ OneHandler'
    BY <1>0, <1>12, ReturnKeeps DEF SaveAnswer
  <2>4. TypeOK'
    BY <1>12, <2>2, <2>3 DEF SaveAnswer, SlotTypes, TypeOK
  <2> QED BY <1>12, <2>3, <2>4 DEF SaveAnswer, Return, TypeOK, OneHandler, TargetsKnown
<1>13. ASSUME NEW d \in Docs, IndexDocument(d) PROVE TypeInv'
  BY <1>13 DEF IndexDocument, TypeOK, ConversationsTypeOK, OneHandler, TargetsKnown, slotVars
<1>14. CASE CrashApi
  BY <1>14 DEF CrashApi, TypeOK, ConversationsTypeOK, OneHandler, TargetsKnown
<1>15. CASE UNCHANGED vars
  BY <1>15 DEF vars, slotVars, TypeOK, ConversationsTypeOK, OneHandler, TargetsKnown
<1> QED
  BY <1>1, <1>2, <1>3, <1>4, <1>5, <1>6, <1>7, <1>8, <1>9, <1>10, <1>11, <1>12, <1>13, <1>14,
     <1>15 DEF Next, UploadStep, SearchStep

LEMMA ChatStep == ChatInv /\ [Next]_vars => ChatInv'
<1> SUFFICES ASSUME ChatInv, [Next]_vars PROVE OneConversation' /\ HistoryHasDocument'
  BY ChatTypes DEF ChatInv
<1> USE DEF ChatInv, tables
<1>0. TypeInv /\ TypeInv'
  BY ChatTypes
<1>1. ASSUME NEW s \in Slots, Begin(s) PROVE OneConversation' /\ HistoryHasDocument'
  BY <1>0, <1>1 DEF Begin, TypeInv, TypeOK, OneConversation, HistoryHasDocument
<1>2. ASSUME NEW s \in Slots, StatementFails(s) PROVE OneConversation' /\ HistoryHasDocument'
  BY <1>0, <1>2 DEF StatementFails, Return, TypeInv, TypeOK, OneConversation, HistoryHasDocument
<1>3. ASSUME NEW s \in Slots, CheckUploadLimit(s) PROVE OneConversation' /\ HistoryHasDocument'
  BY <1>0, <1>3
  DEF CheckUploadLimit, Goto, Return, TypeInv, TypeOK, OneConversation, HistoryHasDocument
<1>4. ASSUME NEW s \in Slots, NEW d \in Docs, UploadDocument(s, d)
      PROVE  OneConversation' /\ HistoryHasDocument'
  BY <1>0, <1>4
  DEF UploadDocument, TypeInv, TypeOK, OneConversation, HistoryHasDocument, OneHandler
<1>5. ASSUME NEW s \in Slots, TrackUpload(s) PROVE OneConversation' /\ HistoryHasDocument'
  BY <1>0, <1>5 DEF TrackUpload, Return, TypeInv, TypeOK, OneConversation, HistoryHasDocument
<1>6. ASSUME NEW s \in Slots, DeleteDocument(s) PROVE OneConversation' /\ HistoryHasDocument'
  <2>1. CASE Return(s, "not_found") /\ UNCHANGED <<rows, indexed, conversations>>
    BY <1>0, <2>1 DEF Return, TypeInv, TypeOK, OneConversation, HistoryHasDocument
  <2>2. ASSUME DeleteConversations(target[s]), rows' = rows \ {target[s]}, Return(s, "ok")
        PROVE  OneConversation' /\ HistoryHasDocument'
    <3>1. \A t \in Slots : step'[t] = "idle"
      BY <1>0, <1>6, <2>2 DEF DeleteDocument, Return, TypeInv, TypeOK, OneHandler
    <3>2. \A d \in Docs : conversations'[d] = IF d = target[s] THEN <<>> ELSE conversations[d]
      BY <1>0, <2>2 DEF DeleteConversations, TypeInv, TypeOK, ConversationsTypeOK
    <3> QED BY <2>2, <3>1, <3>2 DEF OneConversation, HistoryHasDocument
  <2> QED BY <1>6, <2>1, <2>2 DEF DeleteDocument
<1>7. ASSUME NEW s \in Slots, CheckQuestionLimit(s) PROVE OneConversation' /\ HistoryHasDocument'
  BY <1>0, <1>7
  DEF CheckQuestionLimit, Goto, Return, TypeInv, TypeOK, OneConversation, HistoryHasDocument
<1>8. ASSUME NEW s \in Slots, FindConversation(s) PROVE OneConversation' /\ HistoryHasDocument'
  BY <1>0, <1>8
  DEF FindConversation, Goto, Return, TypeInv, TypeOK, OneConversation, HistoryHasDocument
<1>9. ASSUME NEW s \in Slots, AddConversation(s) PROVE OneConversation' /\ HistoryHasDocument'
  <2>1. target[s] \in Docs /\ target[s] \in rows /\ conversations[target[s]] = <<>>
    BY <1>0, <1>9 DEF AddConversation, TypeInv, TargetsKnown
  <2>2. \A d \in Docs : conversations'[d] = IF d = target[s] THEN << <<>> >> ELSE conversations[d]
    BY <1>0, <1>9, <2>1
    DEF AddConversation, CreateConversation, TypeInv, TypeOK, ConversationsTypeOK
  <2>3. place'[s] = 1 /\ rows' = rows /\ \A t \in Slots : t # s => step'[t] = "idle"
    BY <1>0, <1>9, <2>1 DEF AddConversation, TypeInv, TypeOK, OneHandler
  <2>4. target' = target
    BY <1>9 DEF AddConversation
  <2>5. Len(<< <<>> >>) = 1 /\ 1 \in DOMAIN << <<>> >>
    OBVIOUS
  <2>6. OneConversation'
    <3>1. ASSUME NEW d \in Docs PROVE Len(conversations'[d]) <= 1
      <4>1. CASE d = target[s]
        <5>1. Len(conversations'[d]) = 1
          BY <2>2, <2>5, <4>1, Zenon
        <5> QED BY <5>1
      <4>2. CASE d # target[s]
        BY <2>2, <4>2 DEF OneConversation
      <4> QED BY <4>1, <4>2
    <3> QED BY <3>1 DEF OneConversation
  <2> QED BY <2>1, <2>2, <2>3, <2>4, <2>5, <2>6 DEF HistoryHasDocument
<1>10. ASSUME NEW s \in Slots, SaveQuestion(s) PROVE OneConversation' /\ HistoryHasDocument'
  <2>1. target[s] \in Docs /\ place[s] \in Nat
    BY <1>0, <1>10 DEF SaveQuestion, TypeInv, TypeOK, TargetsKnown
  <2>2. [role |-> "user", question |-> asked + 1] \in Messages
    BY <1>0 DEF TypeInv, TypeOK, Messages
  <2> HIDE DEF ChatInv
  <2>3. /\ \A e \in Docs : DOMAIN conversations'[e] = DOMAIN conversations[e]
        /\ \A e \in Docs : Len(conversations'[e]) = Len(conversations[e])
        /\ \A e \in Docs : conversations'[e] = <<>> <=> conversations[e] = <<>>
    BY <1>0, <1>10, <2>1, <2>2, MessageAdded DEF SaveQuestion, TypeInv, TypeOK
  <2>4. /\ rows' = rows /\ target' = target /\ place' = place
        /\ step[s] = "ask" /\ \A t \in Slots : t # s => step'[t] = step[t]
    BY <1>0, <1>10 DEF SaveQuestion, TypeInv, TypeOK
  <2>5. \A t \in Slots : step'[t] \notin {"idle", "checkUploads", "upload"} => target[t] \in Docs
    BY <1>0, <2>4 DEF TypeInv, TargetsKnown
  <2> QED BY <2>3, <2>4, <2>5 DEF ChatInv, OneConversation, HistoryHasDocument
<1>11. ASSUME NEW s \in Slots, RetrieveChunks(s) PROVE OneConversation' /\ HistoryHasDocument'
  BY <1>0, <1>11
  DEF RetrieveChunks, Goto, Return, TypeInv, TypeOK, OneConversation, HistoryHasDocument
<1>12. ASSUME NEW s \in Slots, SaveAnswer(s) PROVE OneConversation' /\ HistoryHasDocument'
  <2>1. target[s] \in Docs /\ place[s] \in Nat
    BY <1>0, <1>12 DEF SaveAnswer, TypeInv, TypeOK, TargetsKnown
  <2>2. [role |-> "assistant", question |-> question[s]] \in Messages
    BY <1>0 DEF TypeInv, TypeOK, Messages
  <2>3. /\ \A e \in Docs : Len(conversations'[e]) = Len(conversations[e])
        /\ \A e \in Docs : conversations'[e] = <<>> <=> conversations[e] = <<>>
    BY <1>0, <1>12, <2>1, <2>2, MessageAdded DEF SaveAnswer, TypeInv, TypeOK
  <2>4. rows' = rows /\ \A t \in Slots : step'[t] = "idle"
    BY <1>0, <1>12 DEF SaveAnswer, Return, TypeInv, TypeOK, OneHandler
  <2> QED BY <2>3, <2>4 DEF OneConversation, HistoryHasDocument
<1>13. ASSUME NEW d \in Docs, IndexDocument(d) PROVE OneConversation' /\ HistoryHasDocument'
  BY <1>13 DEF IndexDocument, slotVars, OneConversation, HistoryHasDocument
<1>14. CASE CrashApi
  BY <1>14 DEF CrashApi, OneConversation, HistoryHasDocument
<1>15. CASE UNCHANGED vars
  BY <1>15 DEF vars, slotVars, OneConversation, HistoryHasDocument
<1> QED
  BY <1>1, <1>2, <1>3, <1>4, <1>5, <1>6, <1>7, <1>8, <1>9, <1>10, <1>11, <1>12, <1>13, <1>14,
     <1>15 DEF Next, UploadStep, SearchStep

LEMMA ChatInvariant == Spec => []ChatInv
  BY ChatInit, ChatStep, PTL DEF Spec

\* Types, for every conversation, slot and number of questions.
THEOREM ChatTypeCorrect == Spec => []TypeOK
<1>1. ChatInv => TypeOK
  BY DEF ChatInv, TypeInv
<1> QED BY <1>1, ChatInvariant, PTL

\* Reading and inserting in two statements is safe behind the gate, for any
\* number of documents and requests and whatever fails or crashes.
THEOREM ChatOneConversation == Spec => []OneConversation
<1>1. ChatInv => OneConversation
  BY DEF ChatInv
<1> QED BY <1>1, ChatInvariant, PTL

\* Deleting a document leaves no history behind, and a search that goes on
\* always finds the conversation it writes to.
THEOREM ChatHistory == Spec => []HistoryHasDocument
<1>1. ChatInv => HistoryHasDocument
  BY DEF ChatInv
<1> QED BY <1>1, ChatInvariant, PTL

-----------------------------------------------------------------------------
(* Answers and their questions. *)

\* AnswersFollowQuestions of one conversation.
Paired(talk) ==
    \A i \in DOMAIN talk : talk[i].role = "assistant" =>
        i > 1 /\ talk[i - 1] = [role |-> "user", question |-> talk[i].question]

EndsWith(talk, message) == Len(talk) > 0 /\ talk[Len(talk)] = message

\* While a search is between its two messages its question stays the last
\* message of the conversation: the gate keeps everybody else away from it.
QuestionPending ==
    \A s \in Slots : step[s] \in {"retrieve", "answer"} =>
        EndsWith(conversations[target[s]][place[s]], [role |-> "user", question |-> question[s]])

TalkInv == AnswersFollowQuestions /\ QuestionPending

LEMMA QuestionAppended ==
    ASSUME NEW talk \in Seq(Messages), NEW n \in Nat, Paired(talk)
    PROVE  LET message == [role |-> "user", question |-> n]
           IN  Paired(Append(talk, message)) /\ EndsWith(Append(talk, message), message)
<1> DEFINE message == [role |-> "user", question |-> n]
           longer == Append(talk, message)
<1>1. Len(longer) = Len(talk) + 1 /\ DOMAIN longer = 1..Len(longer) /\ Len(talk) \in Nat
      /\ longer[Len(longer)] = message
  BY DEF Messages
<1>2. \A i \in 1..Len(talk) : longer[i] = talk[i]
  BY DEF Messages
<1>3. message.role # "assistant"
  OBVIOUS
<1> HIDE DEF longer, message
<1>4. Paired(longer)
  BY <1>1, <1>2, <1>3 DEF Paired
<1>5. EndsWith(longer, message)
  BY <1>1 DEF EndsWith
<1> QED BY <1>4, <1>5 DEF longer, message

LEMMA AnswerAppended ==
    ASSUME NEW talk \in Seq(Messages), NEW n \in Nat, Paired(talk),
           EndsWith(talk, [role |-> "user", question |-> n])
    PROVE  Paired(Append(talk, [role |-> "assistant", question |-> n]))
<1> DEFINE message == [role |-> "assistant", question |-> n]
           longer == Append(talk, message)
<1>1. Len(longer) = Len(talk) + 1 /\ DOMAIN longer = 1..Len(longer) /\ Len(talk) \in Nat
      /\ longer[Len(longer)] = message
  BY DEF Messages
<1>2. \A i \in 1..Len(talk) : longer[i] = talk[i]
  BY DEF Messages
<1>3. message.question = n
  OBVIOUS
<1> HIDE DEF longer, message
<1>4. Paired(longer)
  BY <1>1, <1>2, <1>3 DEF Paired, EndsWith
<1> QED BY <1>4 DEF longer, message

LEMMA TalkInit == Init => TalkInv
  BY DEF Init, ConversationsInit, TalkInv, AnswersFollowQuestions, QuestionPending

LEMMA TalkStep == ChatInv /\ ChatInv' /\ TalkInv /\ [Next]_vars => TalkInv'
<1> SUFFICES ASSUME ChatInv, ChatInv', TalkInv, [Next]_vars PROVE TalkInv'
  OBVIOUS
<1>0. TypeOK /\ OneHandler /\ TargetsKnown /\ HistoryHasDocument
  BY DEF ChatInv, TypeInv
<1>a. ASSUME UNCHANGED conversations PROVE AnswersFollowQuestions'
  BY <1>a DEF TalkInv, AnswersFollowQuestions
<1> USE DEF tables
<1>1. ASSUME NEW s \in Slots, Begin(s) PROVE TalkInv'
  BY <1>0, <1>a, <1>1 DEF Begin, TalkInv, QuestionPending, TypeOK
<1>2. ASSUME NEW s \in Slots, StatementFails(s) PROVE TalkInv'
  BY <1>0, <1>a, <1>2 DEF StatementFails, Return, TalkInv, QuestionPending, TypeOK
<1>3. ASSUME NEW s \in Slots, CheckUploadLimit(s) PROVE TalkInv'
  BY <1>0, <1>a, <1>3 DEF CheckUploadLimit, Goto, Return, TalkInv, QuestionPending, TypeOK
<1>4. ASSUME NEW s \in Slots, NEW d \in Docs, UploadDocument(s, d) PROVE TalkInv'
  BY <1>0, <1>a, <1>4 DEF UploadDocument, TalkInv, QuestionPending, TypeOK, OneHandler
<1>5. ASSUME NEW s \in Slots, TrackUpload(s) PROVE TalkInv'
  BY <1>0, <1>a, <1>5 DEF TrackUpload, Return, TalkInv, QuestionPending, TypeOK
<1>6. ASSUME NEW s \in Slots, DeleteDocument(s) PROVE TalkInv'
  <2>1. CASE Return(s, "not_found") /\ UNCHANGED <<rows, indexed, conversations>>
    BY <1>0, <1>a, <2>1 DEF Return, TalkInv, QuestionPending, TypeOK
  <2>2. ASSUME DeleteConversations(target[s]), Return(s, "ok") PROVE TalkInv'
    <3>1. \A t \in Slots : step'[t] = "idle"
      BY <1>0, <1>6, <2>2 DEF DeleteDocument, Return, TypeOK, OneHandler
    <3>2. \A d \in Docs : conversations'[d] = IF d = target[s] THEN <<>> ELSE conversations[d]
      BY <1>0, <2>2 DEF DeleteConversations, TypeOK, ConversationsTypeOK
    <3>3. AnswersFollowQuestions'
      BY <3>2 DEF TalkInv, AnswersFollowQuestions
    <3> QED BY <3>1, <3>3 DEF TalkInv, QuestionPending
  <2> QED BY <1>6, <2>1, <2>2 DEF DeleteDocument
<1>7. ASSUME NEW s \in Slots, CheckQuestionLimit(s) PROVE TalkInv'
  BY <1>0, <1>a, <1>7 DEF CheckQuestionLimit, Goto, Return, TalkInv, QuestionPending, TypeOK
<1>8. ASSUME NEW s \in Slots, FindConversation(s) PROVE TalkInv'
  BY <1>0, <1>a, <1>8 DEF FindConversation, Goto, Return, TalkInv, QuestionPending, TypeOK
<1>9. ASSUME NEW s \in Slots, AddConversation(s) PROVE TalkInv'
  <2>1. target[s] \in Docs /\ conversations[target[s]] = <<>>
    BY <1>0, <1>9 DEF AddConversation, TargetsKnown
  <2>2. \A d \in Docs : conversations'[d] = IF d = target[s] THEN << <<>> >> ELSE conversations[d]
    BY <1>0, <1>9, <2>1 DEF AddConversation, CreateConversation, TypeOK, ConversationsTypeOK
  <2>3. \A c \in DOMAIN << <<>> >> : << <<>> >>[c] = <<>>
    OBVIOUS
  <2>4. AnswersFollowQuestions'
    BY <2>2, <2>3 DEF TalkInv, AnswersFollowQuestions
  <2>5. \A t \in Slots : step'[t] \notin {"retrieve", "answer"}
    BY <1>0, <1>9 DEF AddConversation, TypeOK, OneHandler
  <2> QED BY <2>4, <2>5 DEF TalkInv, QuestionPending
<1>10. ASSUME NEW s \in Slots, SaveQuestion(s) PROVE TalkInv'
  <2> DEFINE message == [role |-> "user", question |-> asked + 1]
             d == target[s]
             c == place[s]
  <2>0. message \in Messages /\ asked + 1 \in Nat
    BY <1>0 DEF TypeOK, Messages
  <2>1. d \in Docs /\ c \in Nat /\ message \in Messages /\ asked + 1 \in Nat
    BY <1>0, <1>10, <2>0 DEF SaveQuestion, TypeOK, TargetsKnown
  <2>2. c \in DOMAIN conversations[d] /\ conversations[d][c] \in Seq(Messages)
    BY <1>0, <1>10, <2>1 DEF SaveQuestion, TypeOK, ConversationsTypeOK, HistoryHasDocument
  <2>3. /\ \A e \in Docs : DOMAIN conversations'[e] = DOMAIN conversations[e]
        /\ \A e \in Docs : e # d => conversations'[e] = conversations[e]
        /\ \A b \in DOMAIN conversations[d] : b # c => conversations'[d][b] = conversations[d][b]
        /\ conversations'[d][c] = Append(conversations[d][c], message)
    BY <1>0, <1>10, <2>1, MessageAdded DEF SaveQuestion, TypeOK
  <2>4. Paired(conversations[d][c])
    BY <2>1, <2>2 DEF TalkInv, AnswersFollowQuestions, Paired
  <2>5. Paired(conversations'[d][c]) /\ EndsWith(conversations'[d][c], message)
    BY <2>1, <2>2, <2>3, <2>4, QuestionAppended
  <2> HIDE DEF message, d, c
  <2>6. ASSUME NEW e \in Docs, NEW b \in DOMAIN conversations'[e]
        PROVE  Paired(conversations'[e][b])
    <3>1. Paired(conversations[e][b])
      BY <2>3, <2>6 DEF TalkInv, AnswersFollowQuestions, Paired
    <3> QED BY <2>3, <2>5, <3>1
  <2>7. AnswersFollowQuestions'
    BY <2>6 DEF AnswersFollowQuestions, Paired
  <2>8. \A t \in Slots : step'[t] \in {"retrieve", "answer"} => t = s
    BY <1>0, <1>10 DEF SaveQuestion, TypeOK, OneHandler
  <2>9. target'[s] = d /\ place'[s] = c /\ [role |-> "user", question |-> question'[s]] = message
    BY <1>0, <1>10 DEF SaveQuestion, TypeOK, d, c, message
  <2> QED BY <2>5, <2>7, <2>8, <2>9 DEF TalkInv, QuestionPending
<1>11. ASSUME NEW s \in Slots, RetrieveChunks(s) PROVE TalkInv'
  BY <1>0, <1>a, <1>11 DEF RetrieveChunks, Goto, Return, TalkInv, QuestionPending, TypeOK
<1>12. ASSUME NEW s \in Slots, SaveAnswer(s) PROVE TalkInv'
  <2>1. \A t \in Slots : step'[t] = "idle"
    BY <1>0, <1>12 DEF SaveAnswer, Return, TypeOK, OneHandler
  <2>2. CASE UNCHANGED conversations
    BY <1>a, <2>1, <2>2 DEF TalkInv, QuestionPending
  <2> DEFINE message == [role |-> "assistant", question |-> question[s]]
             d == target[s]
             c == place[s]
  <2>3. CASE CreateMessage(d, c, message)
    <3>1. d \in Docs /\ c \in Nat /\ message \in Messages /\ question[s] \in Nat
      BY <1>0, <1>12 DEF SaveAnswer, TypeOK, TargetsKnown, Messages
    <3>2. c \in DOMAIN conversations[d] /\ conversations[d][c] \in Seq(Messages)
      BY <1>0, <1>12, <3>1 DEF SaveAnswer, TypeOK, ConversationsTypeOK, HistoryHasDocument
    <3>3. /\ \A e \in Docs : DOMAIN conversations'[e] = DOMAIN conversations[e]
          /\ \A e \in Docs : e # d => conversations'[e] = conversations[e]
          /\ \A b \in DOMAIN conversations[d] :
                b # c => conversations'[d][b] = conversations[d][b]
          /\ conversations'[d][c] = Append(conversations[d][c], message)
      BY <1>0, <2>3, <3>1, MessageAdded DEF TypeOK
    <3>4. Paired(conversations[d][c])
      BY <3>1, <3>2 DEF TalkInv, AnswersFollowQuestions, Paired
    <3>5. EndsWith(conversations[d][c], [role |-> "user", question |-> question[s]])
      BY <1>12 DEF SaveAnswer, TalkInv, QuestionPending
    <3>6. Paired(conversations'[d][c])
      BY <3>1, <3>2, <3>3, <3>4, <3>5, AnswerAppended
    <3> HIDE DEF message, d, c
    <3>7. ASSUME NEW e \in Docs, NEW b \in DOMAIN conversations'[e]
          PROVE  Paired(conversations'[e][b])
      <4>1. Paired(conversations[e][b])
        BY <3>3, <3>7 DEF TalkInv, AnswersFollowQuestions, Paired
      <4> QED BY <3>3, <3>6, <4>1
    <3>8. AnswersFollowQuestions'
      BY <3>7 DEF AnswersFollowQuestions, Paired
    <3> QED BY <2>1, <3>8 DEF TalkInv, QuestionPending
  <2> QED BY <1>12, <2>2, <2>3 DEF SaveAnswer
<1>13. ASSUME NEW d \in Docs, IndexDocument(d) PROVE TalkInv'
  BY <1>a, <1>13 DEF IndexDocument, slotVars, TalkInv, QuestionPending
<1>14. CASE CrashApi
  BY <1>a, <1>14 DEF CrashApi, TalkInv, QuestionPending
<1>15. CASE UNCHANGED vars
  BY <1>a, <1>15 DEF vars, slotVars, TalkInv, QuestionPending
<1> QED
  BY <1>1, <1>2, <1>3, <1>4, <1>5, <1>6, <1>7, <1>8, <1>9, <1>10, <1>11, <1>12, <1>13, <1>14,
     <1>15 DEF Next, UploadStep, SearchStep

\* An answer is always saved directly after its own question, although the
\* search and the stream between the two take as long as they take.
THEOREM ChatAnswers == Spec => []AnswersFollowQuestions
<1>1. TalkInv => AnswersFollowQuestions
  BY DEF TalkInv
<1> QED BY <1>1, ChatInvariant, TalkInit, TalkStep, PTL DEF Spec

-----------------------------------------------------------------------------
(* The guest limits. *)

LEMMA StoredQuestionMember ==
    ASSUME NEW n
    PROVE  n \in StoredQuestions <=>
             \E d \in Docs : \E c \in DOMAIN conversations[d] :
                \E i \in DOMAIN conversations[d][c] :
                    /\ conversations[d][c][i].role = "user"
                    /\ conversations[d][c][i].question = n
  BY DEF StoredQuestions, QuestionsIn

\* A message adds its question, or none if it is an answer.
LEMMA QuestionsAfterMessage ==
    ASSUME NEW d \in Docs, NEW c \in Nat, NEW message \in Messages,
           ConversationsTypeOK, CreateMessage(d, c, message)
    PROVE  StoredQuestions'
             = StoredQuestions \cup (IF message.role = "user" THEN {message.question} ELSE {})
<1> DEFINE talk == conversations[d][c]
           Stored(n) == \E e \in Docs : \E b \in DOMAIN conversations[e] :
                            \E i \in DOMAIN conversations[e][b] :
                                /\ conversations[e][b][i].role = "user"
                                /\ conversations[e][b][i].question = n
           StoredNext(n) == \E e \in Docs : \E b \in DOMAIN conversations'[e] :
                                \E i \in DOMAIN conversations'[e][b] :
                                    /\ conversations'[e][b][i].role = "user"
                                    /\ conversations'[e][b][i].question = n
<1>1. c \in DOMAIN conversations[d] /\ talk \in Seq(Messages)
  BY DEF CreateMessage, ConversationsTypeOK
<1>2. /\ \A e \in Docs : DOMAIN conversations'[e] = DOMAIN conversations[e]
      /\ \A e \in Docs : e # d => conversations'[e] = conversations[e]
      /\ \A b \in DOMAIN conversations[d] : b # c => conversations'[d][b] = conversations[d][b]
      /\ conversations'[d][c] = Append(talk, message)
  BY MessageAdded
<1>3. /\ DOMAIN Append(talk, message) = 1..(Len(talk) + 1) /\ DOMAIN talk = 1..Len(talk)
      /\ Len(talk) \in Nat
      /\ Append(talk, message)[Len(talk) + 1] = message
      /\ \A i \in 1..Len(talk) : Append(talk, message)[i] = talk[i]
  BY <1>1
<1>4. ASSUME NEW n, StoredNext(n)
      PROVE  Stored(n) \/ (message.role = "user" /\ message.question = n)
  <2>0. PICK e \in Docs : \E b \in DOMAIN conversations[e] :
            \E i \in DOMAIN conversations'[e][b] :
                /\ conversations'[e][b][i].role = "user"
                /\ conversations'[e][b][i].question = n
    BY <1>2, <1>4
  <2>a. PICK b \in DOMAIN conversations[e] : \E i \in DOMAIN conversations'[e][b] :
            /\ conversations'[e][b][i].role = "user"
            /\ conversations'[e][b][i].question = n
    BY <2>0
  <2>1. PICK i \in DOMAIN conversations'[e][b] :
            /\ conversations'[e][b][i].role = "user"
            /\ conversations'[e][b][i].question = n
    BY <2>a
  <2>2. CASE e # d \/ b # c
    BY <1>2, <2>1, <2>2
  <2>3. CASE e = d /\ b = c /\ i # Len(talk) + 1
    <3>1. i \in DOMAIN talk /\ conversations'[e][b][i] = talk[i]
      BY <1>2, <1>3, <2>1, <2>3
    <3> QED BY <1>1, <2>1, <2>3, <3>1
  <2>4. CASE e = d /\ b = c /\ i = Len(talk) + 1
    <3>1. conversations'[e][b][i] = message
      BY <1>2, <1>3, <2>4
    <3> QED BY <2>1, <3>1
  <2> QED BY <2>2, <2>3, <2>4
<1>5. ASSUME NEW n, Stored(n) PROVE StoredNext(n)
  <2>0. PICK e \in Docs : \E b \in DOMAIN conversations[e] :
            \E i \in DOMAIN conversations[e][b] :
                /\ conversations[e][b][i].role = "user"
                /\ conversations[e][b][i].question = n
    BY <1>5
  <2>a. PICK b \in DOMAIN conversations[e] : \E i \in DOMAIN conversations[e][b] :
            /\ conversations[e][b][i].role = "user"
            /\ conversations[e][b][i].question = n
    BY <2>0
  <2>1. PICK i \in DOMAIN conversations[e][b] :
            /\ conversations[e][b][i].role = "user"
            /\ conversations[e][b][i].question = n
    BY <2>a
  <2>2. CASE e # d \/ b # c
    BY <1>2, <2>1, <2>2
  <2>3. CASE e = d /\ b = c
    BY <1>1, <1>2, <1>3, <2>1, <2>3
  <2> QED BY <2>2, <2>3
<1>6. ASSUME message.role = "user" PROVE StoredNext(message.question)
  <2>1. Len(talk) + 1 \in DOMAIN conversations'[d][c] /\ c \in DOMAIN conversations'[d]
    BY <1>1, <1>2, <1>3
  <2>2. conversations'[d][c][Len(talk) + 1] = message
    BY <1>2, <1>3
  <2> QED BY <1>6, <2>1, <2>2
<1>7. \A n : n \in StoredQuestions <=> Stored(n)
  BY StoredQuestionMember
<1>8. \A n : n \in StoredQuestions' <=> StoredNext(n)
  BY DEF StoredQuestions, QuestionsIn
<1> HIDE DEF Stored, StoredNext
<1> QED BY <1>4, <1>5, <1>6, <1>7, <1>8

LEMMA QuestionsUnchanged == UNCHANGED conversations => StoredQuestions' = StoredQuestions
  BY DEF StoredQuestions, QuestionsIn

\* A new conversation has no questions, and a deletion adds none.
LEMMA QuestionsAfterCreate ==
    ASSUME NEW d \in Docs, ConversationsTypeOK, CreateConversation(d), conversations[d] = <<>>
    PROVE  StoredQuestions' = StoredQuestions
<1>1. \A e \in Docs : conversations'[e] = IF e = d THEN << <<>> >> ELSE conversations[e]
  BY DEF ConversationsTypeOK, CreateConversation
<1>2. DOMAIN << <<>> >> = 1..1 /\ << <<>> >>[1] = <<>> /\ \A i : i \notin DOMAIN <<>>
  OBVIOUS
<1>3. \A n : n \in StoredQuestions' <=>
             \E e \in Docs : \E c \in DOMAIN conversations'[e] :
                \E i \in DOMAIN conversations'[e][c] :
                    /\ conversations'[e][c][i].role = "user"
                    /\ conversations'[e][c][i].question = n
  BY DEF StoredQuestions, QuestionsIn
<1>4. ASSUME NEW e \in Docs, NEW n
      PROVE  (\E c \in DOMAIN conversations'[e] : \E i \in DOMAIN conversations'[e][c] :
                    /\ conversations'[e][c][i].role = "user"
                    /\ conversations'[e][c][i].question = n)
             <=> (\E c \in DOMAIN conversations[e] : \E i \in DOMAIN conversations[e][c] :
                    /\ conversations[e][c][i].role = "user"
                    /\ conversations[e][c][i].question = n)
  <2>1. CASE e # d
    BY <1>1, <2>1
  <2>2. CASE e = d
    <3>1. conversations'[e] = << <<>> >> /\ conversations[e] = <<>>
      BY <1>1, <2>2
    <3> QED BY <1>2, <3>1
  <2> QED BY <2>1, <2>2
<1>5. ASSUME NEW n, n \in StoredQuestions' PROVE n \in StoredQuestions
  <2>1. PICK e \in Docs : \E c \in DOMAIN conversations'[e] :
                \E i \in DOMAIN conversations'[e][c] :
                    /\ conversations'[e][c][i].role = "user"
                    /\ conversations'[e][c][i].question = n
    BY <1>3, <1>5
  <2> QED BY <1>4, <2>1, StoredQuestionMember
<1>6. ASSUME NEW n, n \in StoredQuestions PROVE n \in StoredQuestions'
  <2>1. PICK e \in Docs : \E c \in DOMAIN conversations[e] :
                \E i \in DOMAIN conversations[e][c] :
                    /\ conversations[e][c][i].role = "user"
                    /\ conversations[e][c][i].question = n
    BY <1>6, StoredQuestionMember
  <2>2. \E c \in DOMAIN conversations'[e] :
                \E i \in DOMAIN conversations'[e][c] :
                    /\ conversations'[e][c][i].role = "user"
                    /\ conversations'[e][c][i].question = n
    BY <1>4, <2>1
  <2> QED BY <1>3, <2>2
<1> QED BY <1>5, <1>6

LEMMA QuestionsAfterDelete ==
    ASSUME NEW d \in Docs, ConversationsTypeOK, DeleteConversations(d)
    PROVE  StoredQuestions' \subseteq StoredQuestions
<1>1. \A e \in Docs : conversations'[e] = IF e = d THEN <<>> ELSE conversations[e]
  BY DEF ConversationsTypeOK, DeleteConversations
<1>2. \A i : i \notin DOMAIN <<>>
  OBVIOUS
<1>3. \A n : n \in StoredQuestions' <=>
             \E e \in Docs : \E c \in DOMAIN conversations'[e] :
                \E i \in DOMAIN conversations'[e][c] :
                    /\ conversations'[e][c][i].role = "user"
                    /\ conversations'[e][c][i].question = n
  BY DEF StoredQuestions, QuestionsIn
<1>4. ASSUME NEW n, n \in StoredQuestions' PROVE n \in StoredQuestions
  <2>1. PICK e \in Docs : \E c \in DOMAIN conversations'[e] :
                \E i \in DOMAIN conversations'[e][c] :
                    /\ conversations'[e][c][i].role = "user"
                    /\ conversations'[e][c][i].question = n
    BY <1>3, <1>4
  <2>2. conversations'[e] = conversations[e]
    BY <1>1, <1>2, <2>1
  <2> QED BY <2>1, <2>2, StoredQuestionMember
<1> QED BY <1>4

\* Questions are counted when they are allowed, and a handler that was allowed
\* to ask or to upload finds the counts as they were.
Counted ==
    /\ StoredQuestions \subseteq 1..asked
    /\ Cardinality(StoredQuestions) <= QuestionLimit
    /\ IsFiniteSet(uploadEvents)
    /\ rows \subseteq saved

Allowed ==
    \A s \in Slots :
        /\ step[s] \in {"find", "create", "ask"} => Cardinality(StoredQuestions) < QuestionLimit
        /\ step[s] = "upload" => uploadEvents = {}

\* The event of every upload is written or still on its way.
Recorded ==
    \A d \in saved : \/ d \in uploadEvents
                     \/ \E s \in Slots : step[s] = "trackUpload" /\ target[s] = d

\* Then there was one upload, and no question was forgotten but by its deletion.
OneUpload ==
    Recorded => /\ \A d, e \in saved : d = e
                /\ asked <= QuestionLimit
                /\ rows = saved => StoredQuestions = 1..asked

LimitInv == Counted /\ Allowed /\ OneUpload

\* A step that changes no table of these keeps the invariant when it lets a
\* handler ask or upload after a count only, and leaves no upload untracked.
LEMMA QuietKeeps ==
    ASSUME LimitInv, UNCHANGED <<rows, uploadEvents, conversations, saved, asked>>,
           Recorded' => Recorded,
           \A s \in Slots :
              /\ step'[s] \in {"find", "create", "ask"} =>
                    \/ step[s] \in {"find", "create", "ask"}
                    \/ Cardinality(StoredQuestions) < QuestionLimit
              /\ step'[s] = "upload" => step[s] = "upload" \/ uploadEvents = {}
    PROVE  LimitInv'
<1>1. StoredQuestions' = StoredQuestions
  BY QuestionsUnchanged
<1>2. Counted'
  BY <1>1 DEF LimitInv, Counted
<1>3. Allowed'
  BY <1>1 DEF LimitInv, Allowed
<1>4. OneUpload'
  BY <1>1 DEF LimitInv, OneUpload
<1> QED BY <1>2, <1>3, <1>4 DEF LimitInv

LEMMA LimitInit == Init => LimitInv
<1> SUFFICES ASSUME Init PROVE LimitInv
  OBVIOUS
<1> USE ChatAssumption DEF Init, ConversationsInit
<1>1. \A n : n \notin StoredQuestions
  BY StoredQuestionMember
<1>2. StoredQuestions = {} /\ Cardinality(StoredQuestions) = 0 /\ IsFiniteSet({})
  BY <1>1, FS_EmptySet
<1>3. Counted
  BY <1>2 DEF Counted
<1>4. Allowed
  BY DEF Allowed
<1>5. OneUpload
  BY <1>2 DEF OneUpload
<1> QED BY <1>3, <1>4, <1>5 DEF LimitInv

\* A question that is saved is the next, and was allowed.
LEMMA LimitSaveQuestion ==
    ASSUME ChatInv, LimitInv, NEW s \in Slots, SaveQuestion(s)
    PROVE  LimitInv'
<1> DEFINE new == [role |-> "user", question |-> asked + 1]
<1>a. asked \in Nat /\ target[s] \in Docs /\ place[s] \in Nat /\ ConversationsTypeOK
  BY DEF ChatInv, TypeInv, TypeOK, TargetsKnown, SaveQuestion
<1>1. asked \in Nat /\ new \in Messages /\ target[s] \in Docs /\ place[s] \in Nat
      /\ ConversationsTypeOK
  BY <1>a DEF Messages
<1>2. CreateMessage(target[s], place[s], new)
  BY DEF SaveQuestion
<1>3. new.role = "user" /\ new.question = asked + 1
  OBVIOUS
<1> HIDE DEF new
<1>4. StoredQuestions' = StoredQuestions \cup {asked + 1}
  BY <1>1, <1>2, <1>3, QuestionsAfterMessage
<1>5. StoredQuestions \subseteq 1..asked /\ IsFiniteSet(1..asked)
  BY <1>1, FS_Interval DEF LimitInv, Counted
<1>6. /\ IsFiniteSet(StoredQuestions) /\ Cardinality(StoredQuestions) \in Nat
      /\ asked + 1 \notin StoredQuestions
      /\ Cardinality(StoredQuestions') = Cardinality(StoredQuestions) + 1
  <2>1. IsFiniteSet(StoredQuestions) /\ Cardinality(StoredQuestions) \in Nat
    BY <1>5, FS_Subset, FS_CardinalityType
  <2>2. asked + 1 \notin StoredQuestions
    BY <1>1, <1>5
  <2> QED BY <1>4, <2>1, <2>2, FS_AddElement
<1>7. Cardinality(StoredQuestions) < QuestionLimit
  BY DEF SaveQuestion, LimitInv, Allowed
<1>8. Counted'
  <2>1. StoredQuestions' \subseteq 1..asked'
    BY <1>1, <1>4, <1>5 DEF SaveQuestion
  <2>2. Cardinality(StoredQuestions') <= QuestionLimit
    BY <1>6, <1>7, ChatAssumption
  <2> QED BY <2>1, <2>2 DEF Counted, LimitInv, SaveQuestion
<1>9. \A t \in Slots : step'[t] \in {"idle", "retrieve"}
  BY DEF SaveQuestion, ChatInv, TypeInv, TypeOK, OneHandler
<1>10. Allowed'
  BY <1>9 DEF Allowed
<1>11. ASSUME Recorded'
       PROVE  /\ \A d, e \in saved : d = e
              /\ asked' <= QuestionLimit
              /\ StoredQuestions' = 1..asked'
  <2>1. Recorded
    BY <1>9, <1>11 DEF Recorded, SaveQuestion
  <2>2. target[s] \in rows
    <3>1. conversations[target[s]] # <<>>
      BY <1>1, <1>2 DEF CreateMessage
    <3> QED BY <1>1, <3>1 DEF ChatInv, HistoryHasDocument
  <2>3. rows = saved /\ StoredQuestions = 1..asked /\ \A d, e \in saved : d = e
    BY <2>1, <2>2 DEF LimitInv, Counted, OneUpload
  <2>4. Cardinality(1..asked) = asked
    BY <1>1, FS_Interval
  <2>5. asked < QuestionLimit
    BY <1>7, <2>3, <2>4
  <2>6. asked' = asked + 1
    BY DEF SaveQuestion
  <2>7. (1..asked) \cup {asked + 1} = 1..(asked + 1)
    BY <1>1
  <2> QED BY <1>1, <1>4, <2>3, <2>5, <2>6, <2>7, ChatAssumption
<1>12. OneUpload'
  BY <1>11 DEF OneUpload, SaveQuestion
<1> QED BY <1>8, <1>10, <1>12 DEF LimitInv

\* An answer leaves the questions as they are, whether it is saved or not.
LEMMA LimitSaveAnswer ==
    ASSUME ChatInv, LimitInv, NEW s \in Slots, SaveAnswer(s)
    PROVE  LimitInv'
<1> DEFINE answer == [role |-> "assistant", question |-> question[s]]
<1>1. answer \in Messages /\ target[s] \in Docs /\ place[s] \in Nat /\ ConversationsTypeOK
      /\ step \in [Slots -> Steps]
  BY DEF ChatInv, TypeInv, TypeOK, TargetsKnown, SaveAnswer, Messages
<1>2. answer.role # "user"
  OBVIOUS
<1>3. CreateMessage(target[s], place[s], answer) \/ UNCHANGED conversations
  BY DEF SaveAnswer
<1> HIDE DEF answer
<1>4. StoredQuestions' = StoredQuestions
  BY <1>1, <1>2, <1>3, QuestionsAfterMessage, QuestionsUnchanged
<1>5. step' = [step EXCEPT ![s] = "idle"] /\ target' = [target EXCEPT ![s] = NoDoc]
      /\ step[s] = "answer" /\ UNCHANGED <<rows, uploadEvents, saved, asked>>
  BY DEF SaveAnswer, Return
<1>6. Counted'
  BY <1>4, <1>5 DEF LimitInv, Counted
<1>7. Allowed'
  BY <1>1, <1>4, <1>5 DEF LimitInv, Allowed
<1>8. Recorded' => Recorded
  BY <1>1, <1>5 DEF Recorded, ChatInv, TypeInv, TypeOK
<1>9. OneUpload'
  BY <1>4, <1>5, <1>8 DEF LimitInv, OneUpload
<1> QED BY <1>6, <1>7, <1>9 DEF LimitInv

\* A deletion can only take questions away.
LEMMA LimitDelete ==
    ASSUME ChatInv, LimitInv, NEW s \in Slots, DeleteDocument(s)
    PROVE  LimitInv'
<1>1. /\ target[s] \in Docs /\ ConversationsTypeOK /\ step \in [Slots -> Steps]
      /\ asked \in Nat /\ rows \subseteq saved
  BY DEF ChatInv, TypeInv, TypeOK, TargetsKnown, DeleteDocument, LimitInv, Counted
<1>2. step' = [step EXCEPT ![s] = "idle"] /\ target' = [target EXCEPT ![s] = NoDoc]
      /\ step[s] = "delete" /\ UNCHANGED <<uploadEvents, saved, asked>>
  BY DEF DeleteDocument, Return
<1>3. \A t \in Slots : step'[t] = "idle"
  BY <1>1, <1>2 DEF ChatInv, TypeInv, OneHandler
<1>4. Recorded' => Recorded
  BY <1>2, <1>3 DEF Recorded
<1>5. CASE UNCHANGED <<rows, conversations>>
  BY <1>2, <1>3, <1>4, <1>5, QuietKeeps
<1>6. CASE target[s] \in rows /\ DeleteConversations(target[s]) /\ rows' = rows \ {target[s]}
  <2>1. StoredQuestions' \subseteq StoredQuestions
    BY <1>1, <1>6, QuestionsAfterDelete
  <2>2. StoredQuestions \subseteq 1..asked /\ IsFiniteSet(1..asked)
    BY <1>1, FS_Interval DEF LimitInv, Counted
  <2>3. IsFiniteSet(StoredQuestions) /\ IsFiniteSet(StoredQuestions')
    BY <2>1, <2>2, FS_Subset
  <2>4. Cardinality(StoredQuestions') <= Cardinality(StoredQuestions)
    BY <2>1, <2>3, FS_Subset
  <2>5. Cardinality(StoredQuestions') <= QuestionLimit
    <3>1. Cardinality(StoredQuestions) \in Nat /\ Cardinality(StoredQuestions') \in Nat
      BY <2>3, FS_CardinalityType
    <3> QED BY <2>4, <3>1, ChatAssumption DEF LimitInv, Counted
  <2>6. Counted'
    BY <1>2, <1>6, <2>1, <2>5 DEF LimitInv, Counted
  <2>7. Allowed'
    BY <1>3 DEF Allowed
  <2>8. rows' # saved'
    BY <1>1, <1>2, <1>6
  <2>9. OneUpload'
    BY <1>2, <1>4, <2>8 DEF LimitInv, OneUpload
  <2> QED BY <2>6, <2>7, <2>9 DEF LimitInv
<1> QED BY <1>5, <1>6 DEF DeleteDocument

\* With a limit of one a document is uploaded before any event was written: if
\* the events tell all uploads afterwards, it is the first.
LEMMA LimitUpload ==
    ASSUME ChatInv, LimitInv, NEW s \in Slots, NEW d \in Docs, UploadDocument(s, d)
    PROVE  LimitInv'
<1>1. /\ step \in [Slots -> Steps] /\ target \in [Slots -> Docs \cup {NoDoc}]
      /\ step[s] = "upload" /\ uploadEvents = {} /\ d \notin saved
      /\ step' = [step EXCEPT ![s] = "trackUpload"] /\ target' = [target EXCEPT ![s] = d]
      /\ rows' = rows \cup {d} /\ saved' = saved \cup {d}
      /\ UNCHANGED <<uploadEvents, conversations, asked>>
  BY DEF ChatInv, TypeInv, TypeOK, UploadDocument, LimitInv, Allowed
<1>2. \A t \in Slots : t # s => step[t] = "idle" /\ step'[t] = "idle"
  BY <1>1 DEF ChatInv, TypeInv, OneHandler
<1>3. StoredQuestions' = StoredQuestions
  BY <1>1, QuestionsUnchanged
<1>4. Counted'
  BY <1>1, <1>3 DEF LimitInv, Counted
<1>5. Allowed'
  BY <1>1, <1>2 DEF Allowed
<1>6. ASSUME Recorded' PROVE saved = {} /\ Recorded
  <2>1. ASSUME NEW e \in saved PROVE FALSE
    <3>1. e # d /\ e \in saved' /\ e \notin uploadEvents'
      BY <1>1, <2>1
    <3>2. PICK t \in Slots : step'[t] = "trackUpload" /\ target'[t] = e
      BY <1>6, <3>1 DEF Recorded
    <3> QED BY <1>1, <1>2, <3>1, <3>2
  <2> QED BY <2>1 DEF Recorded
<1>7. OneUpload'
  BY <1>1, <1>3, <1>6 DEF LimitInv, Counted, OneUpload
<1> QED BY <1>4, <1>5, <1>7 DEF LimitInv

LEMMA LimitTrack ==
    ASSUME ChatInv, LimitInv, NEW s \in Slots, TrackUpload(s)
    PROVE  LimitInv'
<1>1. /\ step \in [Slots -> Steps] /\ target \in [Slots -> Docs \cup {NoDoc}]
      /\ step[s] = "trackUpload"
      /\ step' = [step EXCEPT ![s] = "idle"] /\ target' = [target EXCEPT ![s] = NoDoc]
      /\ uploadEvents' = uploadEvents \cup {target[s]} \/ uploadEvents' = uploadEvents
      /\ UNCHANGED <<rows, conversations, saved, asked>>
  BY DEF ChatInv, TypeInv, TypeOK, TrackUpload, Return
<1>2. StoredQuestions' = StoredQuestions
  BY <1>1, QuestionsUnchanged
<1>3. IsFiniteSet(uploadEvents')
  BY <1>1, FS_AddElement DEF LimitInv, Counted
<1>4. Counted'
  BY <1>1, <1>2, <1>3 DEF LimitInv, Counted
<1>5. \A t \in Slots : step'[t] = "idle"
  BY <1>1 DEF ChatInv, TypeInv, OneHandler
<1>6. Allowed'
  BY <1>5 DEF Allowed
<1>7. Recorded' => Recorded
  BY <1>1, <1>5 DEF Recorded
<1>8. OneUpload'
  BY <1>1, <1>2, <1>7 DEF LimitInv, OneUpload
<1> QED BY <1>4, <1>6, <1>8 DEF LimitInv

LEMMA LimitCreate ==
    ASSUME ChatInv, LimitInv, NEW s \in Slots, AddConversation(s)
    PROVE  LimitInv'
<1>1. /\ target[s] \in Docs /\ ConversationsTypeOK /\ step \in [Slots -> Steps]
      /\ conversations[target[s]] = <<>>
  BY DEF ChatInv, TypeInv, TypeOK, TargetsKnown, AddConversation
<1>2. CreateConversation(target[s]) /\ step[s] = "create" /\ step' = [step EXCEPT ![s] = "ask"]
      /\ UNCHANGED <<rows, uploadEvents, target, saved, asked>>
  BY DEF AddConversation
<1>3. StoredQuestions' = StoredQuestions
  BY <1>1, <1>2, QuestionsAfterCreate
<1>4. Counted'
  BY <1>2, <1>3 DEF LimitInv, Counted
<1>5. Allowed'
  BY <1>1, <1>2, <1>3 DEF LimitInv, Allowed
<1>6. Recorded' => Recorded
  BY <1>1, <1>2 DEF Recorded
<1>7. OneUpload'
  BY <1>2, <1>3, <1>6 DEF LimitInv, OneUpload
<1> QED BY <1>4, <1>5, <1>7 DEF LimitInv

LEMMA LimitStep == ASSUME UploadLimit = 1 PROVE ChatInv /\ LimitInv /\ [Next]_vars => LimitInv'
<1> SUFFICES ASSUME ChatInv, LimitInv, [Next]_vars PROVE LimitInv'
  OBVIOUS
<1> USE DEF tables
<1>0. step \in [Slots -> Steps] /\ target \in [Slots -> Docs \cup {NoDoc}]
  BY DEF ChatInv, TypeInv, TypeOK
<1>1. ASSUME NEW s \in Slots, Begin(s) PROVE LimitInv'
  <2>1. \A t \in Slots : step'[t] \notin {"find", "create", "ask", "upload", "trackUpload"}
    BY <1>0, <1>1 DEF Begin
  <2>2. Recorded' => Recorded
    BY <1>1, <2>1 DEF Begin, Recorded
  <2> QED BY <1>1, <2>1, <2>2, QuietKeeps DEF Begin
<1>2. ASSUME NEW s \in Slots, NEW answer, Return(s, answer), step[s] # "trackUpload",
             UNCHANGED <<rows, uploadEvents, conversations, saved, asked>>
      PROVE  LimitInv'
  <2>1. \A t \in Slots : step'[t] = IF t = s THEN "idle" ELSE step[t]
    BY <1>0, <1>2 DEF Return
  <2>2. \A t \in Slots : t # s => target'[t] = target[t]
    BY <1>0, <1>2 DEF Return
  <2>3. Recorded' => Recorded
    BY <1>2, <2>1, <2>2 DEF Recorded
  <2> QED BY <1>2, <2>1, <2>3, QuietKeeps
<1>3. ASSUME NEW s \in Slots, NEW next \in Steps \ {"trackUpload"}, step[s] # "trackUpload",
             step' = [step EXCEPT ![s] = next],
             UNCHANGED <<rows, uploadEvents, conversations, saved, asked, target>>,
             next \in {"find", "create", "ask"} =>
                \/ step[s] \in {"find", "create", "ask"}
                \/ Cardinality(StoredQuestions) < QuestionLimit,
             next = "upload" => uploadEvents = {}
      PROVE  LimitInv'
  <2>1. \A t \in Slots : step'[t] = IF t = s THEN next ELSE step[t]
    BY <1>0, <1>3
  <2>2. Recorded' => Recorded
    BY <1>3, <2>1 DEF Recorded
  <2> QED BY <1>3, <2>1, <2>2, QuietKeeps
<1>4. ASSUME NEW s \in Slots, CheckUploadLimit(s) PROVE LimitInv'
  <2>1. CASE Return(s, "forbidden")
    BY <1>2, <1>4, <2>1 DEF CheckUploadLimit
  <2>2. CASE Goto(s, "upload") /\ Cardinality(uploadEvents) < UploadLimit
    <3>1. IsFiniteSet(uploadEvents) /\ Cardinality(uploadEvents) \in Nat
      BY FS_CardinalityType DEF LimitInv, Counted
    <3>2. Cardinality(uploadEvents) = 0
      BY <2>2, <3>1
    <3>3. uploadEvents = {}
      BY <3>1, <3>2, FS_EmptySet
    <3> QED BY <1>3, <1>4, <2>2, <3>3 DEF CheckUploadLimit, Goto, Steps
  <2> QED BY <1>4, <2>1, <2>2 DEF CheckUploadLimit
<1>5. ASSUME NEW s \in Slots, CheckQuestionLimit(s) PROVE LimitInv'
  <2>1. CASE Return(s, "forbidden")
    BY <1>2, <1>5, <2>1 DEF CheckQuestionLimit
  <2>2. CASE Goto(s, "find") /\ Cardinality(StoredQuestions) < QuestionLimit
    BY <1>3, <1>5, <2>2 DEF CheckQuestionLimit, Goto, Steps
  <2> QED BY <1>5, <2>1, <2>2 DEF CheckQuestionLimit
<1>6. ASSUME NEW s \in Slots, FindConversation(s) PROVE LimitInv'
  <2>1. CASE Return(s, "not_found")
    BY <1>2, <1>6, <2>1 DEF FindConversation
  <2>2. CASE Goto(s, "create")
    BY <1>3, <1>6, <2>2 DEF FindConversation, Goto, Steps
  <2>3. CASE step' = [step EXCEPT ![s] = "ask"] /\ UNCHANGED target
    BY <1>3, <1>6, <2>3 DEF FindConversation, Steps
  <2> QED BY <1>6, <2>1, <2>2, <2>3 DEF FindConversation
<1>7. ASSUME NEW s \in Slots, RetrieveChunks(s) PROVE LimitInv'
  <2>1. CASE Return(s, "no_results")
    BY <1>2, <1>7, <2>1 DEF RetrieveChunks
  <2>2. CASE Goto(s, "answer")
    BY <1>3, <1>7, <2>2 DEF RetrieveChunks, Goto, Steps
  <2> QED BY <1>7, <2>1, <2>2 DEF RetrieveChunks
<1>8. ASSUME NEW s \in Slots, StatementFails(s) PROVE LimitInv'
  BY <1>2, <1>8 DEF StatementFails
<1>9. ASSUME NEW d \in Docs, IndexDocument(d) PROVE LimitInv'
  <2>1. Recorded' => Recorded
    BY <1>9 DEF IndexDocument, slotVars, Recorded
  <2> QED BY <1>9, <2>1, QuietKeeps DEF IndexDocument, slotVars
<1>10. CASE CrashApi
  <2>1. \A t \in Slots : step'[t] = "idle"
    BY <1>10 DEF CrashApi
  <2>2. Recorded' => Recorded
    BY <1>10, <2>1 DEF CrashApi, Recorded
  <2> QED BY <1>10, <2>1, <2>2, QuietKeeps DEF CrashApi
<1>11. CASE UNCHANGED vars
  <2>1. Recorded' => Recorded
    BY <1>11 DEF vars, slotVars, Recorded
  <2> QED BY <1>11, <2>1, QuietKeeps DEF vars, slotVars
<1> QED
  BY <1>1, <1>4, <1>5, <1>6, <1>7, <1>8, <1>9, <1>10, <1>11, LimitUpload, LimitTrack,
     LimitDelete, LimitCreate, LimitSaveQuestion, LimitSaveAnswer
     DEF Next, UploadStep, SearchStep

\* A guest, whose limit is one document (guestDocumentUploadLimit), never has
\* more saved questions than the limit; and when the event of the upload was
\* recorded, deleting and crashing buy neither a question nor a document.
THEOREM ChatLimits == ASSUME UploadLimit = 1 PROVE Spec => []GuestLimits
<1>1. ChatInv /\ LimitInv => GuestLimits
  <2> SUFFICES ASSUME ChatInv, LimitInv, saved \subseteq uploadEvents
               PROVE  asked <= QuestionLimit /\ Cardinality(saved) <= UploadLimit
    BY DEF GuestLimits, LimitInv, Counted
  <2>1. Recorded
    BY DEF Recorded
  <2>2. asked <= QuestionLimit /\ \A d, e \in saved : d = e
    BY <2>1 DEF LimitInv, OneUpload
  <2>3. saved = {} \/ \E d : saved = {d}
    BY <2>2
  <2>4. Cardinality(saved) \in {0, 1}
    BY <2>3, FS_EmptySet, FS_Singleton
  <2> QED BY <2>2, <2>4
<1> QED BY <1>1, ChatInvariant, LimitInit, LimitStep, PTL DEF Spec

-----------------------------------------------------------------------------
(* What the chat asks of the gate. *)

\* The goroutines that are inside a handler.
Busy == {s \in Slots : step[s] # "idle"}

Gate == INSTANCE Turnstile WITH Visitors <- Slots, inside <- Busy

\* The handlers on routes of their own, without ConcurrencyMiddleware.
UngatedNext ==
    \/ \E s \in Slots : BeginUngated(s) \/ UploadStep(s) \/ DeleteDocument(s) \/ SearchStep(s)
                      \/ StatementFails(s)
    \/ \E d \in Docs : IndexDocument(d)
    \/ CrashApi

UngatedSpec == Init /\ [][UngatedNext]_vars

\* A step of a handler keeps its goroutine inside or is its last.
LEMMA StepStaysOrLeaves ==
    ASSUME ChatInv, NEW s \in Slots, step[s] # "idle", NEW next \in Steps,
           step' = [step EXCEPT ![s] = next]
    PROVE  Busy' = Busy \/ Gate!Leave(s)
<1>1. step \in [Slots -> Steps]
  BY DEF ChatInv, TypeInv, TypeOK
<1>2. Busy = {s}
  BY DEF ChatInv, TypeInv, OneHandler, Busy
<1>3. CASE next = "idle"
  <2>1. Busy' = {}
    BY <1>1, <1>2, <1>3 DEF Busy
  <2> QED BY <1>2, <2>1 DEF Gate!Leave
<1>4. CASE next # "idle"
  BY <1>1, <1>4 DEF Busy
<1> QED BY <1>3, <1>4

LEMMA HandlerGoto ==
    ASSUME NEW s \in Slots,
           UploadStep(s) \/ DeleteDocument(s) \/ SearchStep(s) \/ StatementFails(s)
    PROVE  step[s] # "idle" /\ \E next \in Steps : step' = [step EXCEPT ![s] = next]
<1> USE DEF Goto, Return, Steps
<1>1. CASE UploadStep(s)
  BY <1>1 DEF UploadStep, CheckUploadLimit, UploadDocument, TrackUpload
<1>2. CASE DeleteDocument(s)
  BY <1>2 DEF DeleteDocument
<1>3. CASE SearchStep(s)
  <2>1. CASE CheckQuestionLimit(s) \/ FindConversation(s)
    BY <2>1 DEF CheckQuestionLimit, FindConversation
  <2>2. CASE AddConversation(s) \/ SaveQuestion(s)
    BY <2>2 DEF AddConversation, SaveQuestion
  <2>3. CASE RetrieveChunks(s) \/ SaveAnswer(s)
    BY <2>3 DEF RetrieveChunks, SaveAnswer
  <2> QED BY <1>3, <2>1, <2>2, <2>3 DEF SearchStep
<1>4. CASE StatementFails(s)
  BY <1>4 DEF StatementFails
<1> QED BY <1>1, <1>2, <1>3, <1>4

LEMMA ChatAtTurnstile == ChatInv /\ [Next]_vars => [Gate!Next]_Busy
<1> SUFFICES ASSUME ChatInv, [Next]_vars PROVE Gate!Next \/ Busy' = Busy
  OBVIOUS
<1>0. step \in [Slots -> Steps]
  BY DEF ChatInv, TypeInv, TypeOK
<1>1. ASSUME NEW s \in Slots, Begin(s) PROVE Gate!Next
  <2>1. Busy = {}
    BY <1>1 DEF Begin, Busy
  <2>2. Busy' = {s}
    BY <1>0, <1>1 DEF Begin, Busy
  <2> QED BY <2>1, <2>2 DEF Gate!Next, Gate!Enter
<1>2. ASSUME NEW s \in Slots,
             UploadStep(s) \/ DeleteDocument(s) \/ SearchStep(s) \/ StatementFails(s)
      PROVE  Gate!Next \/ Busy' = Busy
  <2>1. step[s] # "idle" /\ \E next \in Steps : step' = [step EXCEPT ![s] = next]
    BY <1>2, HandlerGoto
  <2>2. Busy' = Busy \/ Gate!Leave(s)
    BY <2>1, StepStaysOrLeaves
  <2> QED BY <2>2 DEF Gate!Next
<1>3. ASSUME NEW d \in Docs, IndexDocument(d) PROVE Busy' = Busy
  BY <1>3 DEF IndexDocument, slotVars, Busy
<1>4. CASE CrashApi
  <2>1. PICK s \in Slots : step[s] # "idle"
    BY <1>4 DEF CrashApi
  <2>2. Busy = {s}
    BY <2>1 DEF ChatInv, TypeInv, OneHandler, Busy
  <2>3. Busy' = {}
    BY <1>4 DEF CrashApi, Busy
  <2> QED BY <2>2, <2>3 DEF Gate!Next, Gate!Leave
<1>5. CASE UNCHANGED vars
  BY <1>5 DEF vars, slotVars, Busy
<1> QED BY <1>1, <1>2, <1>3, <1>4, <1>5 DEF Next

LEMMA TurnstileGates ==
    ChatInv /\ [UngatedNext]_vars /\ [Gate!Next]_Busy => [Next]_vars
<1> SUFFICES ASSUME ChatInv, [Gate!Next]_Busy, NEW s \in Slots, BeginUngated(s) PROVE Begin(s)
  BY DEF UngatedNext, Next
<1>1. step \in [Slots -> Steps]
  BY DEF ChatInv, TypeInv, TypeOK
<1>2. s \notin Busy
  BY DEF BeginUngated, Busy
<1>3. s \in Busy'
  BY <1>1 DEF BeginUngated, Busy
<1>4. Gate!Next
  BY <1>2, <1>3
<1>5. Busy = {}
  BY <1>3, <1>4 DEF Gate!Next, Gate!Enter, Gate!Leave
<1>6. \A t \in Slots : step[t] = "idle"
  BY <1>5 DEF Busy
<1> QED BY <1>6 DEF Begin, BeginUngated

\* The chat as specified is the ungated handlers behind a turnstile, no more
\* and no less; and GateIsTurnstile says that ConcurrencyMiddleware is one.
THEOREM ChatBehindTurnstile == Spec <=> UngatedSpec /\ Gate!Spec
<1>1. Init => Gate!Init
  BY DEF Init, Gate!Init, Busy
<1>2. ASSUME NEW s \in Slots, Begin(s) PROVE BeginUngated(s)
  BY <1>2 DEF Begin, BeginUngated
<1>3. [Next]_vars => [UngatedNext]_vars
  BY <1>2 DEF Next, UngatedNext
<1>4. Init => ChatInv
  BY ChatInit
<1>5. ChatInv /\ [Next]_vars => ChatInv'
  BY ChatStep
<1> QED BY <1>1, <1>3, <1>4, <1>5, ChatAtTurnstile, TurnstileGates, PTL
     DEF Spec, UngatedSpec, Gate!Spec

-----------------------------------------------------------------------------
(* What the user sees. *)

\* The messages of a document, in its only conversation if it has one.
Said(talks) == IF talks = <<>> THEN <<>> ELSE talks[1]

Shown == [d \in Docs |-> Said(conversations[d])]

Seen == INSTANCE Transcript WITH documents <- rows, transcript <- Shown

\* A search that has its question saved knows the number of that question.
QuestionNumbered ==
    \A s \in Slots : step[s] \in {"retrieve", "answer"} => question[s] \in 1..asked

\* A document that is to be uploaded is new.
RowsAreSaved == rows \subseteq saved

ViewInv == ChatInv /\ TalkInv /\ QuestionNumbered /\ RowsAreSaved

LEMMA NumbersKept == ChatInv /\ QuestionNumbered /\ [Next]_vars => QuestionNumbered'
<1> SUFFICES ASSUME ChatInv, QuestionNumbered, [Next]_vars PROVE QuestionNumbered'
  OBVIOUS
<1>0. TypeOK
  BY DEF ChatInv, TypeInv
<1> USE DEF QuestionNumbered, TypeOK, tables
<1>1. ASSUME NEW s \in Slots, Begin(s) \/ StatementFails(s) \/ DeleteDocument(s)
      PROVE  QuestionNumbered'
  BY <1>0, <1>1 DEF Begin, StatementFails, DeleteDocument, Return
<1>2. ASSUME NEW s \in Slots, UploadStep(s) PROVE QuestionNumbered'
  BY <1>0, <1>2 DEF UploadStep, CheckUploadLimit, UploadDocument, TrackUpload, Goto, Return
<1>3. ASSUME NEW s \in Slots, CheckQuestionLimit(s) \/ FindConversation(s) PROVE QuestionNumbered'
  BY <1>0, <1>3 DEF CheckQuestionLimit, FindConversation, Goto, Return
<1>4. ASSUME NEW s \in Slots, AddConversation(s) PROVE QuestionNumbered'
  BY <1>0, <1>4 DEF AddConversation
<1>5. ASSUME NEW s \in Slots, SaveQuestion(s) PROVE QuestionNumbered'
  BY <1>0, <1>5 DEF SaveQuestion
<1>6. ASSUME NEW s \in Slots, RetrieveChunks(s) \/ SaveAnswer(s) PROVE QuestionNumbered'
  BY <1>0, <1>6 DEF RetrieveChunks, SaveAnswer, Goto, Return
<1>7. ASSUME NEW d \in Docs, IndexDocument(d) PROVE QuestionNumbered'
  BY <1>7 DEF IndexDocument, slotVars
<1>8. CASE CrashApi
  BY <1>8 DEF CrashApi
<1>9. CASE UNCHANGED vars
  BY <1>9 DEF vars, slotVars
<1> QED BY <1>1, <1>2, <1>3, <1>4, <1>5, <1>6, <1>7, <1>8, <1>9 DEF Next, SearchStep

\* Only an upload adds a row, and it records it.
LEMMA RowsKept ==
    ASSUME [Next]_vars
    PROVE  \/ rows' \subseteq rows /\ saved' = saved
           \/ \E s \in Slots, d \in Docs : UploadDocument(s, d)
<1>1. ASSUME NEW s \in Slots, UploadStep(s), ~ \E d \in Docs : UploadDocument(s, d)
      PROVE  rows' = rows /\ saved' = saved
  BY <1>1 DEF UploadStep, CheckUploadLimit, TrackUpload, tables
<1>2. ASSUME NEW s \in Slots, SearchStep(s) PROVE rows' = rows /\ saved' = saved
  BY <1>2 DEF SearchStep, CheckQuestionLimit, FindConversation, AddConversation, SaveQuestion,
              RetrieveChunks, SaveAnswer, tables
<1>3. ASSUME NEW s \in Slots, Begin(s) \/ StatementFails(s) PROVE rows' = rows /\ saved' = saved
  BY <1>3 DEF Begin, StatementFails, tables
<1>4. ASSUME NEW s \in Slots, DeleteDocument(s) PROVE rows' \subseteq rows /\ saved' = saved
  BY <1>4 DEF DeleteDocument
<1>5. ASSUME (\E d \in Docs : IndexDocument(d)) \/ CrashApi \/ UNCHANGED vars
      PROVE  rows' = rows /\ saved' = saved
  BY <1>5 DEF IndexDocument, CrashApi, vars, tables
<1> QED BY <1>1, <1>2, <1>3, <1>4, <1>5 DEF Next

LEMMA ViewInvariant == Spec => []ViewInv
<1>1. Init => QuestionNumbered /\ RowsAreSaved
  BY DEF Init, QuestionNumbered, RowsAreSaved
<1>2. RowsAreSaved /\ [Next]_vars => RowsAreSaved'
  BY RowsKept DEF RowsAreSaved, UploadDocument
<1> QED BY <1>1, <1>2, ChatInit, ChatStep, TalkInit, TalkStep, NumbersKept, PTL DEF Spec, ViewInv

\* A message that is appended to a conversation is appended to what is shown.
LEMMA MessageShown ==
    ASSUME ChatInv, NEW d \in Docs, NEW c \in Nat, NEW message \in Messages,
           CreateMessage(d, c, message)
    PROVE  /\ Shown' = [Shown EXCEPT ![d] = Append(@, message)]
           /\ conversations[d] # <<>>
           /\ c = 1
<1>0. ConversationsTypeOK /\ OneConversation
  BY DEF ChatInv, TypeInv, TypeOK
<1>1. conversations[d] \in Seq(Seq(Messages)) /\ Len(conversations[d]) <= 1
  BY <1>0 DEF ConversationsTypeOK, OneConversation
<1>2. c \in DOMAIN conversations[d]
  BY DEF CreateMessage
<1>3. conversations[d] # <<>> /\ c = 1
  BY <1>1, <1>2
<1>4. /\ \A e \in Docs : conversations'[e] = <<>> <=> conversations[e] = <<>>
      /\ \A e \in Docs : e # d => conversations'[e] = conversations[e]
      /\ conversations'[d][c] = Append(conversations[d][c], message)
  BY <1>0, MessageAdded
<1>5. \A e \in Docs : e # d => Said(conversations'[e]) = Said(conversations[e])
  BY <1>4
<1>6. Said(conversations'[d]) = Append(Said(conversations[d]), message)
  BY <1>3, <1>4 DEF Said
<1> QED BY <1>3, <1>5, <1>6 DEF Shown

LEMMA StepSeen == ViewInv /\ ViewInv' /\ [Next]_vars => [Seen!Next]_(Seen!transcriptVars)
<1> SUFFICES ASSUME ViewInv, ViewInv', [Next]_vars
             PROVE  Seen!Next \/ UNCHANGED <<rows, Shown, asked>>
  BY DEF Seen!transcriptVars
<1>0. ChatInv /\ TypeOK /\ TargetsKnown /\ HistoryHasDocument
  BY DEF ViewInv, ChatInv, TypeInv
<1>q. ASSUME UNCHANGED <<rows, conversations, asked>> PROVE UNCHANGED <<rows, Shown, asked>>
  BY <1>q DEF Shown
<1> USE DEF tables
<1>1. ASSUME NEW s \in Slots, Begin(s) \/ StatementFails(s)
      PROVE  UNCHANGED <<rows, Shown, asked>>
  BY <1>1, <1>q DEF Begin, StatementFails
<1>2. ASSUME NEW s \in Slots, UploadStep(s) PROVE Seen!Next \/ UNCHANGED <<rows, Shown, asked>>
  <2>1. ASSUME NEW d \in Docs, UploadDocument(s, d) PROVE Seen!Upload(d)
    BY <2>1 DEF UploadDocument, ViewInv, RowsAreSaved, Seen!Upload, Shown
  <2>2. CASE CheckUploadLimit(s) \/ TrackUpload(s)
    BY <1>q, <2>2 DEF CheckUploadLimit, TrackUpload
  <2> QED BY <1>2, <2>1, <2>2 DEF UploadStep, Seen!Next
<1>3. ASSUME NEW s \in Slots, DeleteDocument(s) PROVE Seen!Next \/ UNCHANGED <<rows, Shown, asked>>
  <2>1. target[s] \in Docs
    BY <1>0, <1>3 DEF DeleteDocument, TargetsKnown
  <2>2. CASE target[s] \in rows /\ DeleteConversations(target[s]) /\ rows' = rows \ {target[s]}
    <3>1. \A d \in Docs : conversations'[d] = IF d = target[s] THEN <<>> ELSE conversations[d]
      BY <1>0, <2>1, <2>2 DEF DeleteConversations, TypeOK, ConversationsTypeOK
    <3>2. Shown' = [Shown EXCEPT ![target[s]] = <<>>]
      BY <3>1 DEF Shown, Said
    <3> QED BY <1>3, <2>1, <2>2, <3>2 DEF DeleteDocument, Seen!Next, Seen!Delete
  <2>3. CASE UNCHANGED <<rows, indexed, conversations>>
    BY <1>3, <1>q, <2>3 DEF DeleteDocument
  <2> QED BY <1>3, <2>2, <2>3 DEF DeleteDocument
<1>4. ASSUME NEW s \in Slots, AddConversation(s) PROVE UNCHANGED <<rows, Shown, asked>>
  <2>1. target[s] \in Docs /\ conversations[target[s]] = <<>>
    BY <1>0, <1>4 DEF AddConversation, TargetsKnown
  <2>2. \A d \in Docs : conversations'[d] = IF d = target[s] THEN << <<>> >> ELSE conversations[d]
    BY <1>0, <1>4, <2>1 DEF AddConversation, CreateConversation, TypeOK, ConversationsTypeOK
  <2>3. \A d \in Docs : Said(conversations'[d]) = Said(conversations[d])
    BY <2>1, <2>2 DEF Said
  <2> QED BY <1>4, <2>3 DEF AddConversation, Shown
<1>5. ASSUME NEW s \in Slots, SaveQuestion(s) PROVE Seen!Next
  <2>0. asked + 1 \in Nat
    BY <1>0 DEF TypeOK
  <2>1. target[s] \in Docs /\ place[s] \in Nat
    BY <1>0, <1>5 DEF SaveQuestion, TargetsKnown, TypeOK
  <2>2. [role |-> "user", question |-> asked + 1] \in Messages
    BY <2>0 DEF Messages
  <2>3. /\ Shown' = [Shown EXCEPT ![target[s]] = Append(@, Seen!Question(asked + 1))]
        /\ conversations[target[s]] # <<>>
    BY <1>0, <1>5, <2>1, <2>2, MessageShown DEF SaveQuestion, Seen!Question
  <2>4. target[s] \in rows
    BY <1>0, <2>1, <2>3 DEF HistoryHasDocument
  <2>5. Seen!Ask(target[s])
    BY <1>5, <2>3, <2>4 DEF SaveQuestion, Seen!Ask
  <2> QED BY <2>1, <2>5 DEF Seen!Next
<1>6. ASSUME NEW s \in Slots, SaveAnswer(s) PROVE Seen!Next \/ UNCHANGED <<rows, Shown, asked>>
  <2> DEFINE message == [role |-> "assistant", question |-> question[s]]
  <2>1. CASE UNCHANGED conversations
    BY <1>6, <1>q, <2>1 DEF SaveAnswer
  <2>2. CASE CreateMessage(target[s], place[s], message)
    <3>1. target[s] \in Docs /\ place[s] \in Nat /\ question[s] \in Nat
      BY <1>0, <1>6 DEF SaveAnswer, TargetsKnown, TypeOK
    <3>2. question[s] \in 1..asked
      BY <1>6 DEF SaveAnswer, ViewInv, QuestionNumbered
    <3>3. message \in Messages
      BY <3>1 DEF Messages
    <3>4. /\ Shown' = [Shown EXCEPT ![target[s]] = Append(@, Seen!Answer(question[s]))]
          /\ conversations[target[s]] # <<>> /\ place[s] = 1
      BY <1>0, <2>2, <3>1, <3>3, MessageShown DEF Seen!Answer
    <3>5. EndsWith(conversations[target[s]][1], [role |-> "user", question |-> question[s]])
      BY <1>6, <3>4 DEF SaveAnswer, ViewInv, TalkInv, QuestionPending
    <3>6. Shown[target[s]] = conversations[target[s]][1]
      BY <3>1, <3>4 DEF Shown, Said
    <3>7. /\ Shown[target[s]] # <<>>
          /\ Shown[target[s]][Len(Shown[target[s]])] = Seen!Question(question[s])
      BY <3>5, <3>6 DEF EndsWith, Seen!Question
    <3>8. Seen!Reply(target[s], question[s])
      BY <1>6, <3>4, <3>7 DEF SaveAnswer, Seen!Reply
    <3> QED BY <3>1, <3>2, <3>8 DEF Seen!Next
  <2> QED BY <1>6, <2>1, <2>2 DEF SaveAnswer
<1>7. ASSUME NEW s \in Slots, CheckQuestionLimit(s) \/ FindConversation(s) \/ RetrieveChunks(s)
      PROVE  UNCHANGED <<rows, Shown, asked>>
  BY <1>7, <1>q DEF CheckQuestionLimit, FindConversation, RetrieveChunks
<1>8. CASE (\E d \in Docs : IndexDocument(d)) \/ CrashApi \/ UNCHANGED vars
  BY <1>8, <1>q DEF IndexDocument, CrashApi, vars
<1> QED BY <1>1, <1>2, <1>3, <1>4, <1>5, <1>6, <1>7, <1>8 DEF Next, SearchStep

\* Whatever fails, crashes or is deleted between its statements, the chat only
\* ever adds a question to the transcript of a document the user has, or the
\* answer to the question the transcript ends with, and loses nothing of it
\* before the document is deleted.
THEOREM ChatImplementsTranscript == Spec => Seen!Spec
<1>1. Init => Seen!Init
  BY DEF Init, ConversationsInit, Seen!Init, Shown, Said
<1> QED BY <1>1, ViewInvariant, StepSeen, PTL DEF Spec, Seen!Spec
=============================================================================
