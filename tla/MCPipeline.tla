------------------------------ MODULE MCPipeline ------------------------------
EXTENDS PipelineRefinement, TLC

CONSTANTS d1, d2, h1, h2, w1, w2

OneDoc == {d1}
TwoDocs == {d1, d2}
OneDelivery == {h1}
TwoDeliveries == {h1, h2}
TwoWorkers == {w1, w2}
AllFaults == {"db", "redis", "panic", "timeout", "crash"}
StoreFaults == {"db", "panic"}
TimeoutOnly == {"timeout"}
NoFaults == {}

WorkerSymmetry == Permutations(TwoWorkers)
Symmetry == Permutations(TwoDeliveries) \cup WorkerSymmetry
=============================================================================
