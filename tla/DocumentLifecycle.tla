-------------------------- MODULE DocumentLifecycle --------------------------
(***************************************************************************)
(* What the upload pipeline promises of a document, whoever calls: the     *)
(* status its row may show, whether it can be searched and what becomes of *)
(* the original file.  A document is completed only when it is indexed,    *)
(* and its original is discarded only when it is indexed or deleted.       *)
(* Any other process may fail it, retry it or delete it at any time.       *)
(***************************************************************************)
EXTENDS Documents

VARIABLES row,       \* status shown for each document
          indexed,   \* the documents that can be searched
          original   \* the uploaded file

lifecycleVars == <<row, indexed, original>>

Init ==
    /\ row = [d \in Docs |-> "absent"]
    /\ indexed = {}
    /\ original = [d \in Docs |-> "none"]

Keep(d) ==
    /\ original[d] = "none"
    /\ original' = [original EXCEPT ![d] = "stored"]
    /\ UNCHANGED <<row, indexed>>

Register(d) ==
    /\ row[d] = "absent"
    /\ original[d] = "stored"
    /\ row' = [row EXCEPT ![d] = "uploaded"]
    /\ UNCHANGED <<indexed, original>>

Claim(d) ==
    /\ row[d] \in {"uploaded", "failed"}
    /\ row' = [row EXCEPT ![d] = "processing"]
    /\ UNCHANGED <<indexed, original>>

Index(d) ==
    /\ row[d] \notin {"absent", "uploaded"}
    /\ indexed' = indexed \cup {d}
    /\ UNCHANGED <<row, original>>

Complete(d) ==
    /\ row[d] \in {"processing", "failed", "completed"}
    /\ d \in indexed
    /\ row' = [row EXCEPT ![d] = "completed"]
    /\ UNCHANGED <<indexed, original>>

Fail(d) ==
    /\ row[d] \in {"processing", "failed", "completed"}
    /\ row' = [row EXCEPT ![d] = "failed"]
    /\ UNCHANGED <<indexed, original>>

Discard(d) ==
    /\ original[d] = "stored"
    /\ d \in indexed \/ row[d] = "deleted"
    /\ original' = [original EXCEPT ![d] = "destroyed"]
    /\ UNCHANGED <<row, indexed>>

Delete(d) ==
    /\ row[d] \notin {"absent", "deleted"}
    /\ row' = [row EXCEPT ![d] = "deleted"]
    /\ indexed' = indexed \ {d}
    /\ UNCHANGED original

Next ==
    \E d \in Docs : Keep(d) \/ Register(d) \/ Claim(d) \/ Index(d)
                    \/ Complete(d) \/ Fail(d) \/ Discard(d) \/ Delete(d)

Spec == Init /\ [][Next]_lifecycleVars
=============================================================================
