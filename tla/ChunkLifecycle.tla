---------------------------- MODULE ChunkLifecycle ----------------------------
(***************************************************************************)
(* What the transactions on `document_chunks' promise of the rows.  Each   *)
(* happens at once: plaintext rows are encrypted, or rows of a document    *)
(* are removed and encrypted ones inserted in their place.                 *)
(***************************************************************************)
EXTENDS Documents

CONSTANTS Rows, Owner

VARIABLE content   \* the form in which a row is stored

Init == content \in [Rows -> {"none", "text", "prefixed", "lookalike", "sealed"}]

Become(rows, form) == [r \in Rows |-> IF r \in rows THEN form ELSE content[r]]

Seal(rows) ==
    /\ \A r \in rows : content[r] = "text"
    /\ content' = Become(rows, "sealed")

Replace(d, old, new) ==
    /\ \A r \in old : Owner[r] = d /\ content[r] \notin {"none", "gone"}
    /\ \A r \in new : Owner[r] = d /\ content[r] = "none"
    /\ content' = [r \in Rows |-> IF r \in old THEN "gone" ELSE Become(new, "sealed")[r]]

Next ==
    \/ \E rows \in SUBSET Rows : Seal(rows)
    \/ \E d \in Docs, old, new \in SUBSET Rows : Replace(d, old, new)

Spec == Init /\ [][Next]_content
=============================================================================
