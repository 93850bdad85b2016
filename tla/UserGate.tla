------------------------------- MODULE UserGate -------------------------------
(***************************************************************************)
(* ConcurrencyMiddleware and RateLimitMiddleware for the requests of one   *)
(* user that are not web sockets: a mutex per user, taken by a goroutine   *)
(* of its own so that the request can give up after two seconds, then a    *)
(* token bucket.  Time is abstracted: the two seconds may pass, and a      *)
(* token may come, at any moment.                                          *)
(***************************************************************************)
EXTENDS Naturals

CONSTANTS Requests,    \* the requests of the user
          NoRequest,   \* nobody holds the mutex
          Burst        \* capacity of the token bucket, 1 in getRateLimiter

ASSUME GateAssumption == NoRequest \notin Requests /\ Burst \in Nat \ {0}

VARIABLES request,   \* progress of each request
          locker,    \* progress of the goroutine that locks on its behalf
          holder,    \* the request on whose behalf the mutex is locked
          tokens     \* tokens in the user's bucket

vars == <<request, locker, holder, tokens>>

TypeOK ==
    /\ request \in [Requests -> {"new", "waiting", "serving", "served", "limited", "refused"}]
    /\ locker \in [Requests -> {"none", "blocked", "locked"}]
    /\ holder \in Requests \cup {NoRequest}
    /\ tokens \in 0..Burst

Init ==
    /\ request = [r \in Requests |-> "new"]
    /\ locker = [r \in Requests |-> "none"]
    /\ holder = NoRequest
    /\ tokens = Burst

\* The middleware starts the goroutine and waits for it or for the timer.
Arrive(r) ==
    /\ request[r] = "new"
    /\ request' = [request EXCEPT ![r] = "waiting"]
    /\ locker' = [locker EXCEPT ![r] = "blocked"]
    /\ UNCHANGED <<holder, tokens>>

\* lock.Lock() returns in the goroutine, which does not know whether its
\* request still waits.
Lock(r) ==
    /\ locker[r] = "blocked"
    /\ holder = NoRequest
    /\ holder' = r
    /\ locker' = [locker EXCEPT ![r] = "locked"]
    /\ UNCHANGED <<request, tokens>>

\* Slip: the handler is entered without waiting for the lock.
EnterUnlocked(r) ==
    /\ request[r] = "waiting"
    /\ tokens > 0
    /\ tokens' = tokens - 1
    /\ request' = [request EXCEPT ![r] = "serving"]
    /\ UNCHANGED <<locker, holder>>

\* Slip: the unlock is not deferred, and the early return skips it.
EnterKeepingLock(r) ==
    /\ request[r] = "waiting"
    /\ locker[r] = "locked"
    /\ \/ /\ tokens > 0
          /\ tokens' = tokens - 1
          /\ request' = [request EXCEPT ![r] = "serving"]
       \/ /\ tokens = 0
          /\ request' = [request EXCEPT ![r] = "limited"]
          /\ UNCHANGED tokens
    /\ UNCHANGED <<locker, holder>>

\* The select takes <-locked; limiter.Allow() decides between the handler and
\* an answer 429, after which the deferred Unlock runs.
Enter(r) ==
    /\ request[r] = "waiting"
    /\ locker[r] = "locked"
    /\ \/ /\ tokens > 0
          /\ tokens' = tokens - 1
          /\ request' = [request EXCEPT ![r] = "serving"]
          /\ UNCHANGED holder
       \/ /\ tokens = 0
          /\ request' = [request EXCEPT ![r] = "limited"]
          /\ holder' = NoRequest
          /\ UNCHANGED tokens
    /\ UNCHANGED locker

\* The select takes the timer, also when both cases are ready: an answer 429,
\* and nobody is left to unlock what the goroutine has locked or will lock.
GiveUp(r) ==
    /\ request[r] = "waiting"
    /\ request' = [request EXCEPT ![r] = "refused"]
    /\ UNCHANGED <<locker, holder, tokens>>

\* The handler returns or panics: the deferred Unlock runs.
Finish(r) ==
    /\ request[r] = "serving"
    /\ request' = [request EXCEPT ![r] = "served"]
    /\ holder' = NoRequest
    /\ UNCHANGED <<locker, tokens>>

\* Slip: the bucket has no capacity.
RefillUncapped ==
    /\ tokens <= Burst
    /\ tokens' = tokens + 1
    /\ UNCHANGED <<request, locker, holder>>

Refill ==
    /\ tokens < Burst
    /\ tokens' = tokens + 1
    /\ UNCHANGED <<request, locker, holder>>

Next == Refill \/ \E r \in Requests : Arrive(r) \/ Lock(r) \/ Enter(r) \/ GiveUp(r) \/ Finish(r)

Spec == Init /\ [][Next]_vars

\* Goroutines that can run do run and handlers return (middleware.Timeout
\* cancels their context).  Nothing makes a user send a request, and nothing
\* makes two seconds pass before the lock is granted.
FairSpec ==
    /\ Spec
    /\ \A r \in Requests : WF_vars(Lock(r)) /\ WF_vars(Enter(r)) /\ WF_vars(Finish(r))

-----------------------------------------------------------------------------
InProgress(r) == request[r] \in {"waiting", "serving"}

\* Two requests of one user are never inside their handlers together,
\* whichever of them timed out and whichever goroutine locked late: the
\* check-then-act sequences of the handlers rely on it.
OneAtATime ==
    \A r, s \in Requests : request[r] = "serving" /\ request[s] = "serving" => r = s

\* The lock is never left behind by a request that went through the gate: a
\* refused request is the only one that can hold it after its answer.
AnsweredReleases ==
    holder # NoRequest => request[holder] \in {"waiting", "serving", "refused"}

\* As long as no request gives up, each one that arrives gets through the
\* gate in the end: giving up is the only way to lock a user out.
NoOneGivesUpAllPass ==
    [](\A r \in Requests : request[r] # "refused")
        => \A r \in Requests : request[r] = "waiting" ~> request[r] \in {"served", "limited"}

\* What the comment of the middleware says it is for: requests of a user are
\* kept from running at the same time, so a user with no request in progress
\* is not locked out.
IdleUserIsUnlocked ==
    (\A r \in Requests : ~InProgress(r))
        ~> (holder = NoRequest \/ \E r \in Requests : InProgress(r))
=============================================================================
