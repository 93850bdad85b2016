------------------------------ MODULE ChunkTable ------------------------------
(***************************************************************************)
(* The rows of `document_chunks' and the transactions that change them, as *)
(* PostgreSQL runs them under READ COMMITTED: a statement sees what was    *)
(* committed when it began, locks the rows it changes one after the other, *)
(* waits for a row another transaction has locked, looks at that row again *)
(* when it gets it, and nobody sees a change before the commit.  Three     *)
(* transactions exist: EncryptPlaintextChunks of a starting runner, the    *)
(* replacement of a document's chunks by CreateChunks, and the part of     *)
(* DeleteDocument that concerns chunks.  A text is abstracted to whether   *)
(* and how often it is encrypted; a lookalike is a text of its own accord  *)
(* of the form v1:_:_, and a prefixed one begins with v1: without having   *)
(* that form.                                                              *)
(***************************************************************************)
EXTENDS Naturals, Documents

CONSTANTS Rows,        \* ids of chunk rows; an id is never used again
          Owner,       \* the document of a row
          Sessions,    \* database sessions that run transactions on chunks
          NoRow        \* a session that waits for no row

ASSUME ChunkTableAssumption ==
    /\ Owner \in [Rows -> Docs]
    /\ NoRow \notin Rows

VARIABLES content,   \* the committed rows; "none": not inserted yet, "gone": deleted
          op,        \* the transaction a session is in
          snap,      \* what its SELECT returned
          todo,      \* rows its statement has still to come to
          done,      \* rows it has locked and changed
          fresh,     \* rows it is going to insert
          want       \* the locked row it waits for

chunkVars == <<content, op, snap, todo, done, fresh, want>>

Contents == {"none", "text", "prefixed", "lookalike", "sealed", "twice", "gone"}

ChunkTypeOK ==
    /\ content \in [Rows -> Contents]
    /\ op \in [Sessions -> {"idle", "seal", "remove"}]
    /\ snap \in [Sessions -> [Rows -> Contents]]
    /\ todo \in [Sessions -> SUBSET Rows]
    /\ done \in [Sessions -> SUBSET Rows]
    /\ fresh \in [Sessions -> SUBSET Rows]
    /\ want \in [Sessions -> Rows \cup {NoRow}]

Unread == [r \in Rows |-> "none"]

\* The rows of a deployment that wrote its chunks unencrypted, some of which
\* may have been encrypted since, or no rows at all.
ChunkInit(old) ==
    /\ \E stored \in [old -> {"text", "prefixed", "lookalike", "sealed"}] :
         content = [r \in Rows |-> IF r \in old THEN stored[r] ELSE "none"]
    /\ op = [s \in Sessions |-> "idle"]
    /\ snap = [s \in Sessions |-> Unread]
    /\ todo = [s \in Sessions |-> {}]
    /\ done = [s \in Sessions |-> {}]
    /\ fresh = [s \in Sessions |-> {}]
    /\ want = [s \in Sessions |-> NoRow]

Exists(r) == content[r] \notin {"none", "gone"}

\* Slip: the nonce is left out, which makes a value of no form Decrypt knows.
EncryptMalformed(value) == "malformed"

\* ChunkCipher.Encrypt wraps whatever it is given.
Encrypt(value) == IF value = "sealed" THEN "twice" ELSE "sealed"

\* ChunkCipher.Decrypt: a value that is not of the form v1:_:_ is returned as
\* it is, one that is and does not open is an error.
Decrypt(value) ==
    CASE value = "twice" -> "sealed"
      [] value = "sealed" -> "text"
      [] value = "lookalike" -> "error"
      [] OTHER -> value

\* Slip: the WHERE clause is left out.
EveryRow(r) == Exists(r)

\* WHERE content NOT LIKE 'v1:%': less than what Decrypt takes for plaintext.
Plaintext(r) == content[r] = "text"

\* A row a transaction has changed and not committed yet.
LockedByOther(s, r) == \E t \in Sessions \ {s} : r \in done[t]

-----------------------------------------------------------------------------
Begin(s, kind, rows) ==
    /\ op[s] = "idle"
    /\ op' = [op EXCEPT ![s] = kind]
    /\ todo' = [todo EXCEPT ![s] = rows]
    /\ UNCHANGED <<content, done, want>>

\* EncryptPlaintextChunks up to its SELECT.
BeginSealing(s) ==
    /\ Begin(s, "seal", {r \in Rows : Plaintext(r)})
    /\ snap' = [snap EXCEPT ![s] = [r \in Rows |-> IF Plaintext(r) THEN content[r] ELSE "none"]]
    /\ UNCHANGED fresh

\* DELETE ... WHERE document_id = d, the first statement of CreateChunks and
\* the chunks' statement of DeleteDocument; new is what will be inserted.
BeginRemoval(s, d, new) ==
    /\ \A r \in new : content[r] = "none" /\ Owner[r] = d /\ \A t \in Sessions : r \notin fresh[t]
    /\ Begin(s, "remove", {r \in Rows : Owner[r] = d /\ Exists(r)})
    /\ fresh' = [fresh EXCEPT ![s] = new]
    /\ UNCHANGED snap

\* The session runs into a lock; the order in which rows are met is not
\* specified (neither statement has an ORDER BY).
WaitForRow(s, r) ==
    /\ want[s] = NoRow
    /\ r \in todo[s]
    /\ LockedByOther(s, r)
    /\ want' = [want EXCEPT ![s] = r]
    /\ UNCHANGED <<content, op, snap, todo, done, fresh>>

\* Slip: Save instead of Update, which inserts a missing row.
ChangeOrInsertRow(s, r) ==
    /\ want[s] \in {NoRow, r}
    /\ r \in todo[s]
    /\ ~LockedByOther(s, r)
    /\ todo' = [todo EXCEPT ![s] = @ \ {r}]
    /\ done' = [done EXCEPT ![s] = @ \cup {r}]
    /\ want' = [want EXCEPT ![s] = NoRow]
    /\ UNCHANGED <<content, op, snap, fresh>>

\* The row is free: it is changed, unless it was deleted in the meantime.
ChangeRow(s, r) ==
    /\ want[s] \in {NoRow, r}
    /\ r \in todo[s]
    /\ ~LockedByOther(s, r)
    /\ todo' = [todo EXCEPT ![s] = @ \ {r}]
    /\ done' = [done EXCEPT ![s] = IF Exists(r) THEN @ \cup {r} ELSE @]
    /\ want' = [want EXCEPT ![s] = NoRow]
    /\ UNCHANGED <<content, op, snap, fresh>>

Leave(s) ==
    /\ op' = [op EXCEPT ![s] = "idle"]
    /\ snap' = [snap EXCEPT ![s] = Unread]
    /\ todo' = [todo EXCEPT ![s] = {}]
    /\ done' = [done EXCEPT ![s] = {}]
    /\ fresh' = [fresh EXCEPT ![s] = {}]
    /\ want' = [want EXCEPT ![s] = NoRow]

\* Every row was updated to the encryption of what the SELECT returned for it.
CommitSealing(s) ==
    /\ op[s] = "seal"
    /\ todo[s] = {}
    /\ content' = [r \in Rows |-> IF r \in done[s] THEN Encrypt(snap[s][r]) ELSE content[r]]
    /\ Leave(s)

\* The rows met are deleted; CreateChunks has inserted those of its
\* extraction, always encrypted, before it commits.
CommitRemoval(s) ==
    /\ op[s] = "remove"
    /\ todo[s] = {}
    /\ content' = [r \in Rows |-> IF r \in done[s] THEN "gone"
                                  ELSE IF r \in fresh[s] THEN "sealed" ELSE content[r]]
    /\ Leave(s)

\* A statement fails, the session ends, or it is the victim of a deadlock.
Rollback(s) ==
    /\ op[s] # "idle"
    /\ Leave(s)
    /\ UNCHANGED content

WaitsFor(s, t) == want[s] # NoRow /\ want[s] \in done[t]

\* PostgreSQL's deadlock check of a waiting session: it is on a cycle.  Every
\* session waits for at most one other, so a set in which each waits for one
\* and is waited for by one consists of cycles.
InDeadlock(s) ==
    \E D \in SUBSET Sessions :
        /\ s \in D
        /\ \A t \in D : (\E u \in D \ {t} : WaitsFor(t, u)) /\ (\E u \in D \ {t} : WaitsFor(u, t))
=============================================================================
