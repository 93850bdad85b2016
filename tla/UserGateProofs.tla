---------------------------- MODULE UserGateProofs ----------------------------
(***************************************************************************)
(* The gate for any number of requests and any burst.                      *)
(***************************************************************************)
EXTENDS UserGate, TLAPS

\* The mutex belongs to the goroutine of its holder, and a request inside its
\* handler holds it.  AnsweredReleases is what makes a second grant impossible.
GateInv ==
    /\ TypeOK
    /\ holder # NoRequest => locker[holder] = "locked"
    /\ \A r \in Requests :
         /\ request[r] = "serving" => holder = r
         /\ request[r] = "waiting" /\ locker[r] = "locked" => holder = r
         /\ locker[r] = "blocked" => request[r] \in {"waiting", "refused"}
         /\ request[r] = "new" => locker[r] = "none"
    /\ AnsweredReleases

LEMMA GateInit == Init => GateInv
  BY GateAssumption DEF Init, GateInv, TypeOK, AnsweredReleases

LEMMA GateStep == GateInv /\ [Next]_vars => GateInv'
<1> SUFFICES ASSUME GateInv, [Next]_vars PROVE GateInv'
  OBVIOUS
<1> USE GateAssumption DEF GateInv, TypeOK, AnsweredReleases
<1>1. ASSUME NEW r \in Requests, Arrive(r) PROVE GateInv'
  BY <1>1 DEF Arrive
<1>2. ASSUME NEW r \in Requests, Lock(r) PROVE GateInv'
  BY <1>2 DEF Lock
<1>3. ASSUME NEW r \in Requests, Enter(r) PROVE GateInv'
  BY <1>3 DEF Enter
<1>4. ASSUME NEW r \in Requests, GiveUp(r) PROVE GateInv'
  BY <1>4 DEF GiveUp
<1>5. ASSUME NEW r \in Requests, Finish(r) PROVE GateInv'
  BY <1>5 DEF Finish
<1>6. CASE Refill
  BY <1>6 DEF Refill
<1>7. CASE UNCHANGED vars
  BY <1>7 DEF vars
<1> QED BY <1>1, <1>2, <1>3, <1>4, <1>5, <1>6, <1>7 DEF Next

LEMMA GateInvariant == Spec => []GateInv
  BY GateInit, GateStep, PTL DEF Spec

\* The variables of the gate keep their types.
THEOREM GateTypes == Spec => []TypeOK
<1>1. GateInv => TypeOK
  BY DEF GateInv
<1> QED BY <1>1, GateInvariant, PTL

\* Requests of one user never run together, however many arrive or give up.
THEOREM GateExcludes == Spec => []OneAtATime
<1>1. GateInv => OneAtATime
  BY DEF GateInv, OneAtATime
<1> QED BY <1>1, GateInvariant, PTL

\* Only a refused request can hold the lock after its answer.
THEOREM GateReleases == Spec => []AnsweredReleases
<1>1. GateInv => AnsweredReleases
  BY DEF GateInv
<1> QED BY <1>1, GateInvariant, PTL

-----------------------------------------------------------------------------
(* What the handlers may rely on. *)

\* The requests that are inside their handlers.
Serving == {r \in Requests : request[r] = "serving"}

Gate == INSTANCE Turnstile WITH Visitors <- Requests, inside <- Serving

LEMMA GateStepAtTurnstile == GateInv /\ GateInv' /\ [Next]_vars => [Gate!Next]_Serving
<1> SUFFICES ASSUME GateInv, GateInv', [Next]_vars PROVE Gate!Next \/ Serving' = Serving
  BY DEF GateInv
<1> USE GateAssumption DEF GateInv, TypeOK
<1>1. ASSUME NEW r \in Requests, Arrive(r) PROVE Serving' = Serving
  BY <1>1 DEF Arrive, Serving
<1>2. ASSUME NEW r \in Requests, Lock(r) PROVE Serving' = Serving
  BY <1>2 DEF Lock, Serving
<1>3. ASSUME NEW r \in Requests, Enter(r) PROVE Gate!Next \/ Serving' = Serving
  <2>1. CASE tokens > 0
    <3>1. holder = r
      BY <1>3 DEF Enter
    <3>2. Serving = {}
      BY <1>3, <3>1 DEF Enter, Serving
    <3>3. Serving' = {r}
      BY <1>3, <2>1, <3>2 DEF Enter, Serving
    <3> QED BY <3>2, <3>3 DEF Gate!Next, Gate!Enter
  <2>2. CASE tokens = 0
    BY <1>3, <2>2 DEF Enter, Serving
  <2> QED BY <2>1, <2>2
<1>4. ASSUME NEW r \in Requests, GiveUp(r) PROVE Serving' = Serving
  BY <1>4 DEF GiveUp, Serving
<1>5. ASSUME NEW r \in Requests, Finish(r) PROVE Gate!Next
  <2>1. Serving = {r}
    BY <1>5 DEF Finish, Serving
  <2>2. Serving' = {}
    BY <1>5, <2>1 DEF Finish, Serving
  <2> QED BY <2>1, <2>2 DEF Gate!Next, Gate!Leave
<1>6. CASE Refill
  BY <1>6 DEF Refill, Serving
<1>7. CASE UNCHANGED vars
  BY <1>7 DEF vars, Serving
<1> QED BY <1>1, <1>2, <1>3, <1>4, <1>5, <1>6, <1>7 DEF Next

\* ConcurrencyMiddleware is a turnstile: a request enters its handler when the
\* one before has left it, whatever timed out and whoever locked late.
THEOREM GateIsTurnstile == Spec => Gate!Spec
<1>1. Init => Gate!Init
  BY DEF Init, Gate!Init, Serving
<1> QED BY <1>1, GateInvariant, GateStepAtTurnstile, PTL DEF Spec, Gate!Spec

-----------------------------------------------------------------------------
(* What NoOneGivesUpAllPass rests on. *)

\* As long as no request gives up, one that waits never waits for nothing:
\* the goroutine of some request can lock, or the request that has the lock
\* can enter its handler or finish it, and those are the steps that FairSpec
\* makes happen.
SomeoneCanMove ==
    (\A r \in Requests : request[r] # "refused") =>
        \A r \in Requests : request[r] = "waiting" =>
            \E s \in Requests :
                \/ locker[s] = "blocked" /\ holder = NoRequest
                \/ locker[s] = "locked" /\ request[s] = "waiting"
                \/ request[s] = "serving"

\* A request that waits has a goroutine.
WaitingHasLocker == \A r \in Requests : request[r] = "waiting" => locker[r] # "none"

LEMMA WaitingStep == GateInv /\ WaitingHasLocker /\ [Next]_vars => WaitingHasLocker'
<1> SUFFICES ASSUME GateInv, WaitingHasLocker, [Next]_vars PROVE WaitingHasLocker'
  OBVIOUS
<1> USE DEF GateInv, TypeOK, WaitingHasLocker
<1>1. ASSUME NEW r \in Requests, Arrive(r) \/ Lock(r) PROVE WaitingHasLocker'
  BY <1>1 DEF Arrive, Lock
<1>2. ASSUME NEW r \in Requests, Enter(r) \/ GiveUp(r) \/ Finish(r) PROVE WaitingHasLocker'
  BY <1>2 DEF Enter, GiveUp, Finish
<1>3. CASE Refill \/ UNCHANGED vars
  BY <1>3 DEF Refill, vars
<1> QED BY <1>1, <1>2, <1>3 DEF Next

\* Without a request that gives up the gate never comes to a standstill.
THEOREM GateMoves == Spec => []SomeoneCanMove
<1>1. Init => WaitingHasLocker
  BY DEF Init, WaitingHasLocker
<1>2. ASSUME GateInv, WaitingHasLocker PROVE SomeoneCanMove
  <2> SUFFICES ASSUME \A r \in Requests : request[r] # "refused",
                      NEW r \in Requests, request[r] = "waiting"
               PROVE  \E s \in Requests :
                        \/ locker[s] = "blocked" /\ holder = NoRequest
                        \/ locker[s] = "locked" /\ request[s] = "waiting"
                        \/ request[s] = "serving"
    BY DEF SomeoneCanMove
  <2>1. locker[r] \in {"blocked", "locked"}
    BY <1>2 DEF GateInv, TypeOK, WaitingHasLocker
  <2>2. CASE holder = NoRequest
    BY <2>1, <2>2
  <2>3. CASE holder # NoRequest
    <3>1. holder \in Requests /\ locker[holder] = "locked"
      BY <1>2, <2>3 DEF GateInv, TypeOK
    <3>2. request[holder] \in {"waiting", "serving"}
      BY <1>2, <2>3, <3>1 DEF GateInv, AnsweredReleases
    <3> QED BY <3>1, <3>2
  <2> QED BY <2>2, <2>3
<1> QED BY <1>1, <1>2, WaitingStep, GateInvariant, PTL DEF Spec
=============================================================================
