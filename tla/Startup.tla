------------------------------- MODULE Startup -------------------------------
(***************************************************************************)
(* Processes that start on one database: API processes, which migrate the  *)
(* schema under an advisory lock before they serve, and standalone worker  *)
(* processes, which do not.  Each process that runs jobs encrypts the      *)
(* plaintext chunks it finds before its asynq server starts; meanwhile     *)
(* those that are up delete documents and replace chunks.                  *)
(*                                                                         *)
(* An action is one statement or one wait.  A process that is killed or    *)
(* ends with Fatal is down; it may be started again.                       *)
(***************************************************************************)
EXTENDS ChunkTable

CONSTANTS Apis,        \* processes of cmd/main.go
          JobApis,     \* those with PROCESS_JOBS_IN_API
          Binaries,    \* processes of cmd/worker/main.go
          Writers,     \* sessions of handlers and tasks of processes that are up
          NoSession,   \* nobody holds the advisory lock
          Ghost,       \* a session holds it whose client is cut off
          Faults,      \* kinds of fault that may occur
          MaxFaults    \* bound on how many do

Procs == Apis \cup Binaries
Hosts == JobApis \cup Binaries

ASSUME StartupAssumption ==
    /\ Apis \cap Binaries = {}
    /\ JobApis \subseteq Apis
    /\ Writers \cap Procs = {}
    /\ Sessions = Procs \cup Writers
    /\ NoSession # Ghost
    /\ NoSession \notin Procs
    /\ Ghost \notin Procs
    /\ Faults \subseteq {"crash", "db", "connection"}
    /\ MaxFaults \in Nat

VARIABLES main,       \* where a process's main goroutine is
          runner,     \* where its documentworker.Run is
          existed,    \* its last look into the catalog found what it is about to create
          cutOff,     \* history: this start lost the session of its lock
          schema,     \* what exists in the database
          lockOwner,  \* holder of the advisory lock
          faults      \* faults so far

procVars == <<main, runner, existed, cutOff>>
vars == <<chunkVars, procVars, schema, lockOwner, faults>>

Schema == {"extensions", "tables"}
Migrating(p) == main[p] \in {"looking", "creating", "unlocking"}

TypeOK ==
    /\ ChunkTypeOK
    /\ main \in [Procs -> {"down", "extending", "locking", "looking", "creating",
                           "unlocking", "up"}]
    /\ runner \in [Procs -> {"none", "sealing", "running", "stopped"}]
    /\ existed \in [Procs -> BOOLEAN]
    /\ cutOff \in [Procs -> BOOLEAN]
    /\ schema \in SUBSET Schema
    /\ lockOwner \in Procs \cup {NoSession, Ghost}
    /\ faults \in 0..MaxFaults

\* An empty database, or one of an earlier deployment with the rows old.
Init ==
    /\ \/ schema = {} /\ ChunkInit({})
       \/ \E old \in SUBSET Rows : schema = Schema /\ ChunkInit(old)
    /\ main = [p \in Procs |-> "down"]
    /\ runner = [p \in Procs |-> "none"]
    /\ existed = [p \in Procs |-> FALSE]
    /\ cutOff = [p \in Procs |-> FALSE]
    /\ lockOwner = NoSession
    /\ faults = 0

Fault(kind) ==
    /\ kind \in Faults
    /\ faults < MaxFaults
    /\ faults' = faults + 1

Goto(p, place) == main' = [main EXCEPT ![p] = place]

\* The process ends: its sessions end with it, and with them its advisory
\* lock and its transaction.
Exit(p) ==
    /\ Goto(p, "down")
    /\ runner' = [runner EXCEPT ![p] = "none"]
    /\ existed' = [existed EXCEPT ![p] = FALSE]
    /\ cutOff' = [cutOff EXCEPT ![p] = FALSE]
    /\ lockOwner' = IF lockOwner = p THEN NoSession ELSE lockOwner

-----------------------------------------------------------------------------
(* Starting and migrating. *)

\* db.New: CREATE EXTENSION IF NOT EXISTS looks first and creates then, and
\* is not under the lock.
Start(p) ==
    /\ main[p] = "down"
    /\ Goto(p, "extending")
    /\ existed' = [existed EXCEPT ![p] = "extensions" \in schema]
    /\ UNCHANGED <<chunkVars, runner, cutOff, schema, lockOwner, faults>>

\* What was missing at the look and exists now makes the statement fail, and
\* that is fatal.
CreateExtensions(p) ==
    /\ main[p] = "extending"
    /\ \/ /\ existed[p] \/ "extensions" \notin schema
          /\ schema' = schema \cup {"extensions"}
          /\ Goto(p, IF p \in Apis THEN "locking" ELSE "up")
          /\ existed' = [existed EXCEPT ![p] = FALSE]
          /\ UNCHANGED <<runner, cutOff, lockOwner>>
       \/ /\ ~existed[p] /\ "extensions" \in schema
          /\ Exit(p)
          /\ UNCHANGED schema
    /\ UNCHANGED <<chunkVars, faults>>

\* Slip: pg_try_advisory_lock, whose answer is not looked at.
TryLock(p) ==
    /\ main[p] = "locking"
    /\ lockOwner' = IF lockOwner = NoSession THEN p ELSE lockOwner
    /\ Goto(p, "looking")
    /\ UNCHANGED <<chunkVars, runner, existed, cutOff, schema, faults>>

\* AutoMigrate: pg_advisory_lock waits without a limit.
TakeLock(p) ==
    /\ main[p] = "locking"
    /\ lockOwner = NoSession
    /\ lockOwner' = p
    /\ Goto(p, "looking")
    /\ UNCHANGED <<chunkVars, runner, existed, cutOff, schema, faults>>

\* gorm's AutoMigrate asks the catalog for each table ...
LookForTables(p) ==
    /\ main[p] = "looking"
    /\ existed' = [existed EXCEPT ![p] = "tables" \in schema]
    /\ Goto(p, "creating")
    /\ UNCHANGED <<chunkVars, runner, cutOff, schema, lockOwner, faults>>

\* ... and creates it if it was missing: an error, and a fatal one, when it
\* is not missing any more.  The statements that follow, for the tsv column
\* and the index, are guarded by IF NOT EXISTS.
CreateTables(p) ==
    /\ main[p] = "creating"
    /\ \/ /\ existed[p] \/ "tables" \notin schema
          /\ schema' = schema \cup {"tables"}
          /\ Goto(p, "unlocking")
          /\ existed' = [existed EXCEPT ![p] = FALSE]
          /\ UNCHANGED <<runner, cutOff, lockOwner>>
       \/ /\ ~existed[p] /\ "tables" \in schema
          /\ Exit(p)
          /\ UNCHANGED schema
    /\ UNCHANGED <<chunkVars, faults>>

\* Slip: the deferred unlock is missing.
LeaveLocked(p) ==
    /\ main[p] = "unlocking"
    /\ Goto(p, "up")
    /\ UNCHANGED <<chunkVars, runner, existed, cutOff, schema, lockOwner, faults>>

\* The deferred pg_advisory_unlock: in a session that does not hold the lock
\* it does nothing, and its answer is not looked at.
ReleaseLock(p) ==
    /\ main[p] = "unlocking"
    /\ lockOwner' = IF lockOwner = p THEN NoSession ELSE lockOwner
    /\ Goto(p, "up")
    /\ UNCHANGED <<chunkVars, runner, existed, cutOff, schema, faults>>

\* The pooled connection of the lock is cut; database/sql replaces it without
\* the process noticing, and the server keeps the old session for a while.
LoseConnection(p) ==
    /\ Migrating(p)
    /\ lockOwner = p
    /\ Fault("connection")
    /\ lockOwner' = Ghost
    /\ cutOff' = [cutOff EXCEPT ![p] = TRUE]
    /\ UNCHANGED <<chunkVars, main, runner, existed, schema>>

\* The server finds the client gone.
DropGhost ==
    /\ lockOwner = Ghost
    /\ lockOwner' = NoSession
    /\ UNCHANGED <<chunkVars, procVars, schema, faults>>

-----------------------------------------------------------------------------
(* documentworker.Run and the transactions on chunks. *)

\* Without the tables the SELECT fails and Run returns its error, which ends
\* a worker process.
StartRunner(p) ==
    /\ p \in Hosts
    /\ main[p] = "up"
    /\ runner[p] = "none"
    /\ \/ /\ "tables" \in schema
          /\ BeginSealing(p)
          /\ runner' = [runner EXCEPT ![p] = "sealing"]
          /\ UNCHANGED <<main, existed, cutOff, lockOwner>>
       \/ /\ "tables" \notin schema
          /\ Exit(p)
          /\ UNCHANGED chunkVars
    /\ UNCHANGED <<schema, faults>>

\* The asynq server starts after the commit.
FinishSealing(p) ==
    /\ runner[p] = "sealing"
    /\ CommitSealing(p)
    /\ runner' = [runner EXCEPT ![p] = "running"]
    /\ UNCHANGED <<main, existed, cutOff, schema, lockOwner, faults>>

\* Slip: an error of EncryptPlaintextChunks is logged and ignored.
RunUnsealed(p) ==
    /\ runner[p] = "sealing"
    /\ \/ Fault("db")
       \/ InDeadlock(p) /\ UNCHANGED faults
    /\ Rollback(p)
    /\ runner' = [runner EXCEPT ![p] = "running"]
    /\ UNCHANGED <<main, existed, cutOff, schema, lockOwner>>

\* Run returns the error: the worker process ends, the API logs it and goes
\* on serving without a runner.
FailSealing(p) ==
    /\ runner[p] = "sealing"
    /\ \/ Fault("db")
       \/ InDeadlock(p) /\ UNCHANGED faults
    /\ Rollback(p)
    /\ \/ /\ p \in Binaries
          /\ Exit(p)
       \/ /\ p \notin Binaries
          /\ runner' = [runner EXCEPT ![p] = "stopped"]
          /\ UNCHANGED <<main, existed, cutOff, lockOwner>>
    /\ UNCHANGED schema

\* A task of a running runner replaces the chunks of a document ...
ReplaceChunks(w, d) ==
    /\ \E p \in Procs : runner[p] = "running"
    /\ \E new \in (SUBSET Rows) \ {{}} : BeginRemoval(w, d, new)
    /\ UNCHANGED <<procVars, schema, lockOwner, faults>>

\* ... and a handler deletes a document (without chunks: nothing to see here).
DeleteChunks(w, d) ==
    /\ \E p \in Apis : main[p] = "up"
    /\ \E r \in Rows : Owner[r] = d /\ Exists(r)
    /\ BeginRemoval(w, d, {})
    /\ UNCHANGED <<procVars, schema, lockOwner, faults>>

TransactionStep(s) ==
    /\ \/ \E r \in Rows : WaitForRow(s, r) \/ ChangeRow(s, r)
       \/ s \in Writers /\ CommitRemoval(s)
    /\ UNCHANGED <<procVars, schema, lockOwner, faults>>

FailRemoval(w) ==
    /\ \/ Fault("db")
       \/ InDeadlock(w) /\ UNCHANGED faults
    /\ Rollback(w)
    /\ UNCHANGED <<procVars, schema, lockOwner>>

\* A process dies, or a statement of its start fails, which is fatal.
Die(p) ==
    /\ main[p] # "down"
    /\ Fault("crash")
    /\ Exit(p)
    /\ IF op[p] = "idle" THEN UNCHANGED chunkVars ELSE Rollback(p)
    /\ UNCHANGED schema

-----------------------------------------------------------------------------
MigrationStep(p) ==
    \/ CreateExtensions(p)
    \/ TakeLock(p)
    \/ LookForTables(p)
    \/ CreateTables(p)
    \/ ReleaseLock(p)

RunnerStep(p) ==
    \/ StartRunner(p)
    \/ TransactionStep(p)
    \/ FinishSealing(p)

Next ==
    \/ \E p \in Procs :
         \/ Start(p)
         \/ MigrationStep(p)
         \/ RunnerStep(p)
         \/ FailSealing(p)
         \/ LoseConnection(p)
         \/ Die(p)
    \/ \E w \in Writers :
         \/ \E d \in Docs : ReplaceChunks(w, d) \/ DeleteChunks(w, d)
         \/ TransactionStep(w)
         \/ FailRemoval(w)
    \/ DropGhost

Spec == Init /\ [][Next]_vars

\* A process that has begun to start goes on, PostgreSQL resolves deadlocks
\* and ends dead sessions.  Strong fairness for transactions: a session that
\* waits for a row is queued and gets it before those that come later.
\* Nobody has to start a process, to delete a document or to process one.
FairSpec ==
    /\ Spec
    /\ \A p \in Procs : WF_vars(MigrationStep(p))
    /\ \A p \in Hosts : SF_vars(RunnerStep(p)) /\ WF_vars(FailSealing(p) /\ UNCHANGED faults)
    /\ \A w \in Writers : SF_vars(TransactionStep(w)) /\ WF_vars(FailRemoval(w) /\ UNCHANGED faults)
    /\ WF_vars(DropGhost)

-----------------------------------------------------------------------------
\* Two processes are never between the lock and the unlock of AutoMigrate
\* together, unless one of them lost the connection that held its lock: an
\* unlock issued in another session frees nobody's lock.
MigrationsExclude ==
    \A p, q \in Procs :
        p # q /\ Migrating(p) /\ Migrating(q) => cutOff[p] \/ cutOff[q]

\* While a runner runs, no stored chunk is readable without the key, whoever
\* encrypted it: several starting processes share the work, roll back in
\* parts, and other runners insert chunks meanwhile.  Rows whose text begins
\* with v1: are what the filter of EncryptPlaintextChunks cannot see.
RunnersFindNoPlaintext ==
    \A p \in Procs : runner[p] = "running" => \A r \in Rows : content[r] # "text"

\* Every chunk decrypts to its own text, also when two processes encrypt the
\* same rows from snapshots of their own, or one of them does so again after
\* a restart.  Of the texts the filter cannot see, that is one which Decrypt
\* takes for an envelope.
ChunksReadable ==
    \A r \in Rows : Exists(r) /\ content[r] # "lookalike"
                        => Decrypt(content[r]) \in {"text", "prefixed"}

\* Encrypting from a stale snapshot does not bring back a row that a deletion
\* or a replacement has removed since.
GoneStaysGone == [][\A r \in Rows : content[r] = "gone" => content'[r] = "gone"]_vars

AtRest(p) ==
    \/ main[p] = "down"
    \/ main[p] = "up" /\ (p \in Hosts => runner[p] \in {"running", "stopped"})

\* A process that starts comes to rest: it does not wait forever for the
\* advisory lock of another one that died, was cut off or finished, nor for
\* rows that another transaction has locked.
StartEnds == \A p \in Procs : []<>AtRest(p)
=============================================================================
