-------------------------- MODULE PipelineRefinement --------------------------
(***************************************************************************)
(* The pipeline implements the promised life of a document.  A document is *)
(* indexed when it has chunk rows.                                         *)
(***************************************************************************)
EXTENDS DocumentPipeline

Lifecycle == INSTANCE DocumentLifecycle WITH
                 row <- status,
                 indexed <- {d \in Docs : chunkRows[d] > 0},
                 original <- asset

\* Every behaviour of the handlers, the queue and the worker is a life the
\* abstract document may have: ready only once indexed, the original dropped
\* only once indexed or deleted, no way back from deleted.
ImplementsLifecycle == Lifecycle!Spec
=============================================================================
