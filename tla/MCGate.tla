-------------------------------- MODULE MCGate --------------------------------
EXTENDS UserGate

CONSTANTS r1, r2, r3, r4

FourRequests == {r1, r2, r3, r4}
TwoRequests == {r1, r2}

\* A free mutex is granted in less than two seconds: a request only gives up
\* while another one is being served.
PromptNext ==
    /\ Next
    /\ \A r \in Requests : GiveUp(r) => \E s \in Requests : request[s] = "serving"

PromptSpec ==
    /\ Init
    /\ [][PromptNext]_vars
    /\ \A r \in Requests : WF_vars(Lock(r)) /\ WF_vars(Enter(r)) /\ WF_vars(Finish(r))
=============================================================================
