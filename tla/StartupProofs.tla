---------------------------- MODULE StartupProofs ----------------------------
(***************************************************************************)
(* Startup for any number of processes, writers, documents, rows and       *)
(* faults.  The processes only touch the table through the transactions of *)
(* ChunkTable, so the facts about chunks are proved for those alone and    *)
(* carried over.                                                           *)
(***************************************************************************)
EXTENDS Startup, FiniteSetTheorems, WellFoundedInduction, TLAPS

-----------------------------------------------------------------------------
(* The table. *)

\* What a sealing session holds on to: every plaintext row that exists is one
\* it will meet or has met, and it knows those rows by their plaintext.
SealingOK(s) ==
    op[s] = "seal" =>
        /\ \A r \in Rows : content[r] = "text" => r \in todo[s] \cup done[s]
        /\ \A r \in todo[s] \cup done[s] : snap[s][r] = "text"

\* Rows are locked by one session, exist while they are, and are inserted once.
LocksOK ==
    /\ \A s \in Sessions :
         /\ op[s] = "idle" => todo[s] = {} /\ done[s] = {} /\ fresh[s] = {}
         /\ \A r \in done[s] : Exists(r)
         /\ \A r \in fresh[s] : content[r] = "none"
    /\ \A s, t \in Sessions : s # t => done[s] \cap done[t] = {} /\ fresh[s] \cap fresh[t] = {}

TableInv ==
    /\ ChunkTypeOK
    /\ \A s \in Sessions : SealingOK(s)
    /\ LocksOK
    /\ \A r \in Rows : content[r] # "twice"

TableStep ==
    \/ \E s \in Sessions :
         \/ BeginSealing(s)
         \/ \E d \in Docs, new \in SUBSET Rows : BeginRemoval(s, d, new)
         \/ \E r \in Rows : WaitForRow(s, r) \/ ChangeRow(s, r)
         \/ CommitSealing(s)
         \/ CommitRemoval(s)
         \/ Rollback(s)
    \/ UNCHANGED chunkVars

\* What no step does to a row: turn it into plaintext, or bring it back.
RowsOK == \A r \in Rows : /\ content'[r] = "text" => content[r] = "text"
                          /\ content[r] = "gone" => content'[r] = "gone"

LEMMA TableInit == ASSUME NEW old \in SUBSET Rows, ChunkInit(old) PROVE TableInv
<1>1. PICK stored \in [old -> {"text", "prefixed", "lookalike", "sealed"}] :
        content = [r \in Rows |-> IF r \in old THEN stored[r] ELSE "none"]
  BY DEF ChunkInit
<1>2. content \in [Rows -> {"none", "text", "prefixed", "lookalike", "sealed"}]
  BY <1>1
<1>3. ChunkTypeOK
  BY <1>2, ChunkTableAssumption DEF ChunkInit, ChunkTypeOK, Contents, Unread
<1> QED BY <1>2, <1>3 DEF ChunkInit, TableInv, SealingOK, LocksOK

LEMMA LeaveType ==
    ASSUME ChunkTypeOK, NEW s \in Sessions, Leave(s), content' \in [Rows -> Contents]
    PROVE  ChunkTypeOK'
  BY ChunkTableAssumption DEF ChunkTypeOK, Leave, Unread, Contents

LEMMA TableTyped == TableInv /\ TableStep => ChunkTypeOK'
<1> SUFFICES ASSUME TableInv, TableStep PROVE ChunkTypeOK'
  OBVIOUS
<1>0. ChunkTypeOK
  BY DEF TableInv
<1>1. ASSUME NEW s \in Sessions, BeginSealing(s) PROVE ChunkTypeOK'
  <2>1. [r \in Rows |-> IF Plaintext(r) THEN content[r] ELSE "none"] \in [Rows -> Contents]
    BY <1>0 DEF ChunkTypeOK, Contents
  <2> QED BY <1>0, <1>1, <2>1 DEF BeginSealing, Begin, ChunkTypeOK
<1>2. ASSUME NEW s \in Sessions, NEW d \in Docs, NEW new \in SUBSET Rows, BeginRemoval(s, d, new)
      PROVE  ChunkTypeOK'
  BY <1>0, <1>2 DEF BeginRemoval, Begin, ChunkTypeOK
<1>3. ASSUME NEW s \in Sessions, NEW r \in Rows, WaitForRow(s, r) PROVE ChunkTypeOK'
  BY <1>0, <1>3 DEF WaitForRow, ChunkTypeOK
<1>4. ASSUME NEW s \in Sessions, NEW r \in Rows, ChangeRow(s, r) PROVE ChunkTypeOK'
  BY <1>0, <1>4 DEF ChangeRow, ChunkTypeOK
<1>5. ASSUME NEW s \in Sessions, CommitSealing(s) PROVE ChunkTypeOK'
  <2>1. content' \in [Rows -> Contents]
    BY <1>0, <1>5 DEF CommitSealing, ChunkTypeOK, Encrypt, Contents
  <2> QED BY <1>0, <1>5, <2>1, LeaveType DEF CommitSealing
<1>6. ASSUME NEW s \in Sessions, CommitRemoval(s) PROVE ChunkTypeOK'
  <2>1. content' \in [Rows -> Contents]
    BY <1>0, <1>6 DEF CommitRemoval, ChunkTypeOK, Contents
  <2> QED BY <1>0, <1>6, <2>1, LeaveType DEF CommitRemoval
<1>7. ASSUME NEW s \in Sessions, Rollback(s) PROVE ChunkTypeOK'
  <2>1. content' \in [Rows -> Contents]
    BY <1>0, <1>7 DEF Rollback, ChunkTypeOK
  <2> QED BY <1>0, <1>7, <2>1, LeaveType DEF Rollback
<1>8. CASE UNCHANGED chunkVars
  BY <1>0, <1>8 DEF chunkVars, ChunkTypeOK
<1> QED BY <1>1, <1>2, <1>3, <1>4, <1>5, <1>6, <1>7, <1>8 DEF TableStep

\* One case per statement.  Two sealing sessions hold disjoint rows, each from
\* a snapshot of its own: whichever commits second finds the other's rows not
\* among its done ones, or updates them to the encryption of the same text.
LEMMA TableKeeps == TableInv /\ TableStep => TableInv' /\ RowsOK
<1> SUFFICES ASSUME TableInv, TableStep PROVE TableInv' /\ RowsOK
  OBVIOUS
<1>0. ChunkTypeOK'
  BY TableTyped
<1> USE DEF TableInv, ChunkTypeOK, SealingOK, LocksOK, RowsOK, Exists
<1>1. ASSUME NEW s \in Sessions, BeginSealing(s) PROVE TableInv' /\ RowsOK
  <2>1. \A t \in Sessions : SealingOK(t)'
    BY <1>1 DEF BeginSealing, Begin, Plaintext
  <2>2. LocksOK'
    BY <1>1 DEF BeginSealing, Begin
  <2>3. content' = content
    BY <1>1 DEF BeginSealing, Begin
  <2> QED BY <1>0, <2>1, <2>2, <2>3
<1>2. ASSUME NEW s \in Sessions, NEW d \in Docs, NEW new \in SUBSET Rows, BeginRemoval(s, d, new)
      PROVE  TableInv' /\ RowsOK
  <2>1. \A t \in Sessions : SealingOK(t)'
    BY <1>2 DEF BeginRemoval, Begin
  <2>2. LocksOK'
    BY <1>2 DEF BeginRemoval, Begin
  <2> QED BY <1>0, <1>2, <2>1, <2>2 DEF BeginRemoval, Begin
<1>3. ASSUME NEW s \in Sessions, NEW r \in Rows, WaitForRow(s, r) PROVE TableInv' /\ RowsOK
  BY <1>0, <1>3 DEF WaitForRow
<1>4. ASSUME NEW s \in Sessions, NEW r \in Rows, ChangeRow(s, r) PROVE TableInv' /\ RowsOK
  <2>1. \A t \in Sessions : SealingOK(t)'
    BY <1>4 DEF ChangeRow
  <2>2. LocksOK'
    BY <1>4 DEF ChangeRow, LockedByOther
  <2> QED BY <1>0, <1>4, <2>1, <2>2 DEF ChangeRow
<1>5. ASSUME NEW s \in Sessions, CommitSealing(s) PROVE TableInv' /\ RowsOK
  <2>1. \A r \in Rows : content'[r] = IF r \in done[s] THEN "sealed" ELSE content[r]
    BY <1>5 DEF CommitSealing, Encrypt
  <2>2. \A t \in Sessions : SealingOK(t)'
    BY <1>5, <2>1 DEF CommitSealing, Leave
  <2>3. LocksOK'
    BY <1>5, <2>1 DEF CommitSealing, Leave
  <2> QED BY <1>0, <2>1, <2>2, <2>3
<1>6. ASSUME NEW s \in Sessions, CommitRemoval(s) PROVE TableInv' /\ RowsOK
  <2>1. \A r \in Rows : content'[r] = IF r \in done[s] THEN "gone"
                                      ELSE IF r \in fresh[s] THEN "sealed" ELSE content[r]
    BY <1>6 DEF CommitRemoval
  <2>2. \A t \in Sessions : SealingOK(t)'
    BY <1>6, <2>1 DEF CommitRemoval, Leave
  <2>3. LocksOK'
    BY <1>6, <2>1 DEF CommitRemoval, Leave
  <2>4. RowsOK /\ \A r \in Rows : content'[r] # "twice"
    BY <2>1
  <2> QED BY <1>0, <2>2, <2>3, <2>4
<1>7. ASSUME NEW s \in Sessions, Rollback(s) PROVE TableInv' /\ RowsOK
  <2>1. content' = content
    BY <1>7 DEF Rollback
  <2>2. \A t \in Sessions : SealingOK(t)'
    BY <1>7, <2>1 DEF Rollback, Leave
  <2>3. LocksOK'
    <3>1. \A t \in Sessions : done'[t] \subseteq done[t] /\ fresh'[t] \subseteq fresh[t]
      BY <1>7 DEF Rollback, Leave
    <3>2. \A t \in Sessions : op'[t] = "idle" => todo'[t] = {} /\ done'[t] = {} /\ fresh'[t] = {}
      BY <1>7 DEF Rollback, Leave
    <3> QED BY <2>1, <3>1, <3>2
  <2> QED BY <1>0, <2>1, <2>2, <2>3
<1>8. CASE UNCHANGED chunkVars
  BY <1>0, <1>8 DEF chunkVars
<1> QED BY <1>1, <1>2, <1>3, <1>4, <1>5, <1>6, <1>7, <1>8 DEF TableStep

-----------------------------------------------------------------------------
(* The processes. *)

\* While a runner seals, its session is in the sealing transaction; once it
\* runs, no plaintext is left.
RunnersOK ==
    \A p \in Procs :
        /\ runner[p] = "sealing" => op[p] = "seal"
        /\ runner[p] = "running" => \A r \in Rows : content[r] # "text"

\* A process between lock and unlock has the lock, or lost its connection.
LockOK == \A p \in Procs : Migrating(p) => lockOwner = p \/ cutOff[p]

StartupInv == TypeOK /\ TableInv /\ RunnersOK /\ LockOK

LEMMA StartupInit == Init => StartupInv
<1> SUFFICES ASSUME Init PROVE StartupInv
  OBVIOUS
<1>1. TableInv
  BY TableInit DEF Init
<1>2. TypeOK
  BY <1>1, StartupAssumption DEF Init, TypeOK, TableInv, Schema
<1> QED BY <1>1, <1>2 DEF Init, StartupInv, RunnersOK, LockOK, Migrating

\* The processes and writers do to the table what TableStep allows.
LEMMA StepsOnTable == [Next]_vars => TableStep
<1> SUFFICES ASSUME [Next]_vars PROVE TableStep
  OBVIOUS
<1>0. \A p \in Procs : p \in Sessions
  BY StartupAssumption
<1>w. \A w \in Writers : w \in Sessions
  BY StartupAssumption
<1>1. ASSUME NEW p \in Procs, StartRunner(p) PROVE TableStep
  BY <1>0, <1>1 DEF StartRunner, TableStep
<1>2. ASSUME NEW s \in Sessions, TransactionStep(s) PROVE TableStep
  BY <1>2 DEF TransactionStep, TableStep
<1>3. ASSUME NEW p \in Procs, FinishSealing(p) \/ FailSealing(p) \/ Die(p) PROVE TableStep
  BY <1>0, <1>3 DEF FinishSealing, FailSealing, Die, TableStep
<1>4. ASSUME NEW w \in Writers, NEW d \in Docs, ReplaceChunks(w, d) \/ DeleteChunks(w, d)
      PROVE  TableStep
  <2>1. PICK new \in SUBSET Rows : BeginRemoval(w, d, new)
    BY <1>4 DEF ReplaceChunks, DeleteChunks
  <2> QED BY <1>w, <2>1 DEF TableStep
<1>5. ASSUME NEW w \in Writers, FailRemoval(w) PROVE TableStep
  BY <1>w, <1>5 DEF FailRemoval, TableStep
<1>6. ASSUME NEW p \in Procs, Start(p) \/ MigrationStep(p) \/ LoseConnection(p) PROVE TableStep
  BY <1>6 DEF Start, MigrationStep, CreateExtensions, TakeLock, LookForTables, CreateTables,
              ReleaseLock, LoseConnection, TableStep
<1>7. CASE DropGhost
  BY <1>7 DEF DropGhost, TableStep
<1>8. CASE UNCHANGED vars
  BY <1>8 DEF vars, TableStep
<1> QED BY <1>0, <1>w, <1>1, <1>2, <1>3, <1>4, <1>5, <1>6, <1>7, <1>8 DEF Next, RunnerStep

LEMMA ExitType ==
    ASSUME TypeOK, NEW p \in Procs, Exit(p)
    PROVE  /\ main' \in [Procs -> {"down", "extending", "locking", "looking", "creating",
                                   "unlocking", "up"}]
           /\ runner' \in [Procs -> {"none", "sealing", "running", "stopped"}]
           /\ existed' \in [Procs -> BOOLEAN]
           /\ cutOff' \in [Procs -> BOOLEAN]
           /\ lockOwner' \in Procs \cup {NoSession, Ghost}
  BY DEF TypeOK, Exit, Goto

LEMMA FaultType == ASSUME TypeOK, NEW kind, Fault(kind) PROVE faults' \in 0..MaxFaults
  BY StartupAssumption DEF TypeOK, Fault

LEMMA StartupTyped == StartupInv /\ [Next]_vars => TypeOK'
<1> SUFFICES ASSUME StartupInv, [Next]_vars PROVE TypeOK'
  OBVIOUS
<1>0. TypeOK /\ ChunkTypeOK'
  BY StepsOnTable, TableTyped DEF StartupInv
<1> USE DEF TypeOK, Goto, Schema
<1>1. ASSUME NEW p \in Procs, Start(p) PROVE TypeOK'
  BY <1>0, <1>1 DEF Start
<1>2. ASSUME NEW p \in Procs, CreateExtensions(p) PROVE TypeOK'
  BY <1>0, <1>2, ExitType DEF CreateExtensions
<1>3. ASSUME NEW p \in Procs, TakeLock(p) \/ LookForTables(p) \/ ReleaseLock(p) PROVE TypeOK'
  <2>1. CASE TakeLock(p)
    BY <1>0, <2>1 DEF TakeLock
  <2>2. CASE LookForTables(p)
    BY <1>0, <2>2 DEF LookForTables
  <2>3. CASE ReleaseLock(p)
    BY <1>0, <2>3 DEF ReleaseLock
  <2> QED BY <1>3, <2>1, <2>2, <2>3
<1>4. ASSUME NEW p \in Procs, CreateTables(p) PROVE TypeOK'
  BY <1>0, <1>4, ExitType DEF CreateTables
<1>5. ASSUME NEW p \in Procs, LoseConnection(p) PROVE TypeOK'
  BY <1>0, <1>5, FaultType DEF LoseConnection
<1>6. ASSUME NEW p \in Procs, StartRunner(p) PROVE TypeOK'
  BY <1>0, <1>6, ExitType DEF StartRunner
<1>7. ASSUME NEW p \in Procs, FinishSealing(p) PROVE TypeOK'
  BY <1>0, <1>7 DEF FinishSealing
<1>8. ASSUME NEW p \in Procs, FailSealing(p) PROVE TypeOK'
  <2>1. faults' \in 0..MaxFaults
    BY <1>0, <1>8, FaultType DEF FailSealing
  <2> QED BY <1>0, <1>8, <2>1, ExitType DEF FailSealing
<1>9. ASSUME NEW s \in Sessions, TransactionStep(s) PROVE TypeOK'
  BY <1>0, <1>9 DEF TransactionStep, procVars
<1>10. ASSUME NEW w \in Writers, NEW d \in Docs, ReplaceChunks(w, d) \/ DeleteChunks(w, d)
       PROVE  TypeOK'
  BY <1>0, <1>10 DEF ReplaceChunks, DeleteChunks, procVars
<1>11. ASSUME NEW w \in Writers, FailRemoval(w) PROVE TypeOK'
  BY <1>0, <1>11, FaultType DEF FailRemoval, procVars
<1>12. ASSUME NEW p \in Procs, Die(p) PROVE TypeOK'
  BY <1>0, <1>12, ExitType, FaultType DEF Die
<1>13. CASE DropGhost
  BY <1>0, <1>13 DEF DropGhost, procVars
<1>14. CASE UNCHANGED vars
  BY <1>0, <1>14 DEF vars, procVars
<1> QED BY <1>1, <1>2, <1>3, <1>4, <1>5, <1>6, <1>7, <1>8, <1>9, <1>10, <1>11, <1>12, <1>13,
           <1>14, StartupAssumption DEF Next, MigrationStep, RunnerStep

\* A runner runs only after its own commit, which leaves no plaintext, and
\* nothing makes plaintext after that.
LEMMA RunnersKept == StartupInv /\ [Next]_vars => RunnersOK'
<1> SUFFICES ASSUME StartupInv, [Next]_vars PROVE RunnersOK'
  OBVIOUS
<1>0. RowsOK
  BY StepsOnTable, TableKeeps DEF StartupInv
<1>i. TypeOK /\ TableInv /\ RunnersOK /\ ChunkTypeOK
  BY DEF StartupInv, TypeOK
<1>p. \A p \in Procs : p \in Sessions /\ p \notin Writers
  BY StartupAssumption
<1>q. ASSUME NEW p \in Procs, runner' = [runner EXCEPT ![p] = "none"],
             \A q \in Procs \ {p} : op'[q] = op[q]
      PROVE  RunnersOK'
  BY <1>0, <1>i, <1>q DEF RunnersOK, TypeOK, RowsOK
<1>s. ASSUME runner' = runner, \A q \in Procs : runner[q] = "sealing" => op'[q] = op[q]
      PROVE  RunnersOK'
  BY <1>0, <1>i, <1>s DEF RunnersOK, RowsOK
<1>1. ASSUME NEW p \in Procs, Start(p) \/ LoseConnection(p) \/ TakeLock(p) \/ LookForTables(p)
                              \/ ReleaseLock(p)
      PROVE  RunnersOK'
  BY <1>1, <1>s DEF Start, LoseConnection, TakeLock, LookForTables, ReleaseLock, chunkVars
<1>2. ASSUME NEW p \in Procs, CreateExtensions(p) \/ CreateTables(p) PROVE RunnersOK'
  BY <1>2, <1>s, <1>q DEF CreateExtensions, CreateTables, Exit, chunkVars
<1>3. ASSUME NEW p \in Procs, StartRunner(p) PROVE RunnersOK'
  <2>1. CASE Exit(p) /\ UNCHANGED chunkVars
    BY <2>1, <1>q DEF Exit, chunkVars
  <2>2. CASE BeginSealing(p) /\ runner' = [runner EXCEPT ![p] = "sealing"]
    BY <1>0, <1>i, <1>p, <2>2
    DEF BeginSealing, Begin, RunnersOK, RowsOK, TypeOK, ChunkTypeOK
  <2> QED BY <1>3, <2>1, <2>2 DEF StartRunner
<1>4. ASSUME NEW p \in Procs, FinishSealing(p) PROVE RunnersOK'
  <2>1. \A r \in Rows : content'[r] # "text"
    BY <1>4, <1>p, <1>i DEF FinishSealing, CommitSealing, Encrypt, TableInv, SealingOK
  <2>2. \A q \in Procs \ {p} : op'[q] = op[q]
    BY <1>4, <1>p, <1>i DEF FinishSealing, CommitSealing, Leave, ChunkTypeOK
  <2> QED BY <1>4, <1>i, <2>1, <2>2 DEF FinishSealing, RunnersOK, TypeOK
<1>5. ASSUME NEW p \in Procs, FailSealing(p) PROVE RunnersOK'
  <2>1. \A q \in Procs \ {p} : op'[q] = op[q]
    BY <1>5, <1>p, <1>i DEF FailSealing, Rollback, Leave, ChunkTypeOK
  <2>2. CASE Exit(p)
    BY <2>1, <2>2, <1>q DEF Exit
  <2>3. CASE runner' = [runner EXCEPT ![p] = "stopped"]
    BY <1>0, <1>i, <2>1, <2>3 DEF RunnersOK, TypeOK, RowsOK
  <2> QED BY <1>5, <2>2, <2>3 DEF FailSealing
<1>6. ASSUME NEW s \in Sessions, TransactionStep(s) PROVE RunnersOK'
  <2>1. \A q \in Procs : op'[q] = op[q]
    BY <1>6, <1>p, <1>i
    DEF TransactionStep, WaitForRow, ChangeRow, CommitRemoval, Leave, ChunkTypeOK
  <2> QED BY <1>6, <1>s, <2>1 DEF TransactionStep, procVars
<1>7. ASSUME NEW w \in Writers, NEW d \in Docs, ReplaceChunks(w, d) \/ DeleteChunks(w, d)
      PROVE  RunnersOK'
  <2>1. \A q \in Procs : op'[q] = op[q]
    BY <1>7, <1>p, <1>i DEF ReplaceChunks, DeleteChunks, BeginRemoval, Begin, ChunkTypeOK
  <2> QED BY <1>7, <1>s, <2>1 DEF ReplaceChunks, DeleteChunks, procVars
<1>8. ASSUME NEW w \in Writers, FailRemoval(w) PROVE RunnersOK'
  <2>1. \A q \in Procs : op'[q] = op[q]
    BY <1>8, <1>p, <1>i DEF FailRemoval, Rollback, Leave, ChunkTypeOK
  <2> QED BY <1>8, <1>s, <2>1 DEF FailRemoval, procVars
<1>9. ASSUME NEW p \in Procs, Die(p) PROVE RunnersOK'
  <2>1. \A q \in Procs \ {p} : op'[q] = op[q]
    BY <1>9, <1>p, <1>i DEF Die, Rollback, Leave, ChunkTypeOK, chunkVars
  <2> QED BY <1>9, <1>q, <2>1 DEF Die, Exit
<1>10. CASE DropGhost \/ UNCHANGED vars
  BY <1>10, <1>s DEF DropGhost, vars, procVars, chunkVars
<1> QED BY <1>1, <1>2, <1>3, <1>4, <1>5, <1>6, <1>7, <1>8, <1>9, <1>10, <1>p, StartupAssumption
        DEF Next, MigrationStep, RunnerStep

\* The lock changes hands only through NoSession, and a process that ends or
\* unlocks frees its own lock alone.
LEMMA LockKept == StartupInv /\ [Next]_vars => LockOK'
<1> SUFFICES ASSUME StartupInv, [Next]_vars PROVE LockOK'
  OBVIOUS
<1>i. TypeOK /\ LockOK
  BY DEF StartupInv
<1> USE StartupAssumption DEF TypeOK, LockOK, Migrating, Goto
<1>e. ASSUME NEW p \in Procs, Exit(p) PROVE LockOK'
  BY <1>i, <1>e DEF Exit
<1>s. ASSUME UNCHANGED <<main, cutOff, lockOwner>> PROVE LockOK'
  BY <1>i, <1>s
<1>1. ASSUME NEW p \in Procs, Start(p) \/ TakeLock(p) \/ LookForTables(p) \/ ReleaseLock(p)
      PROVE  LockOK'
  BY <1>i, <1>1 DEF Start, TakeLock, LookForTables, ReleaseLock
<1>2. ASSUME NEW p \in Procs, CreateExtensions(p) \/ CreateTables(p) PROVE LockOK'
  BY <1>i, <1>2, <1>e DEF CreateExtensions, CreateTables
<1>3. ASSUME NEW p \in Procs, LoseConnection(p) PROVE LockOK'
  BY <1>i, <1>3 DEF LoseConnection
<1>4. ASSUME NEW p \in Procs, StartRunner(p) \/ FinishSealing(p) \/ FailSealing(p) \/ Die(p)
      PROVE  LockOK'
  BY <1>4, <1>e, <1>s DEF StartRunner, FinishSealing, FailSealing, Die
<1>5. ASSUME NEW s \in Sessions, TransactionStep(s) PROVE LockOK'
  BY <1>5, <1>s DEF TransactionStep, procVars
<1>6. ASSUME NEW w \in Writers,
             FailRemoval(w) \/ \E d \in Docs : ReplaceChunks(w, d) \/ DeleteChunks(w, d)
      PROVE  LockOK'
  BY <1>6, <1>s DEF FailRemoval, ReplaceChunks, DeleteChunks, procVars
<1>7. CASE DropGhost
  BY <1>i, <1>7 DEF DropGhost, procVars
<1>8. CASE UNCHANGED vars
  BY <1>8, <1>s DEF vars, procVars
<1> QED BY <1>1, <1>2, <1>3, <1>4, <1>5, <1>6, <1>7, <1>8 DEF Next, MigrationStep, RunnerStep

LEMMA StartupInvariant == Spec => []StartupInv
<1>1. StartupInv /\ [Next]_vars => StartupInv'
  BY StepsOnTable, TableKeeps, StartupTyped, RunnersKept, LockKept DEF StartupInv
<1> QED BY <1>1, StartupInit, PTL DEF Spec

-----------------------------------------------------------------------------
\* The state of processes, table and lock is well-formed.
THEOREM StartupTypes == Spec => []TypeOK
<1>1. StartupInv => TypeOK
  BY DEF StartupInv
<1> QED BY <1>1, StartupInvariant, PTL

\* Any number of API processes migrate one after the other, as long as the
\* connection of the lock lives.
THEOREM StartupExcludes == Spec => []MigrationsExclude
<1>1. StartupInv => MigrationsExclude
  BY DEF StartupInv, LockOK, MigrationsExclude
<1> QED BY <1>1, StartupInvariant, PTL

\* No runner serves tasks while a plaintext chunk is stored.
THEOREM StartupSeals == Spec => []RunnersFindNoPlaintext
<1>1. StartupInv => RunnersFindNoPlaintext
  BY DEF StartupInv, RunnersOK, RunnersFindNoPlaintext
<1> QED BY <1>1, StartupInvariant, PTL

\* No interleaving of starting processes, replacements, deletions and
\* rollbacks encrypts a chunk twice.
THEOREM StartupReadable == Spec => []ChunksReadable
<1>1. StartupInv => ChunksReadable
  BY DEF StartupInv, TableInv, ChunkTypeOK, Contents, ChunksReadable, Exists, Decrypt
<1> QED BY <1>1, StartupInvariant, PTL

\* A deleted row stays deleted, whatever snapshot a sealing session has of it.
THEOREM StartupKeepsGone == Spec => GoneStaysGone
<1>1. StartupInv /\ [Next]_vars
        => [\A r \in Rows : content[r] = "gone" => content'[r] = "gone"]_vars
  BY StepsOnTable, TableKeeps DEF StartupInv, RowsOK
<1> QED BY <1>1, StartupInvariant, PTL DEF Spec, GoneStaysGone
-----------------------------------------------------------------------------
(* Nothing stands still. *)

\* An advisory lock that a live session holds is held by a process between
\* its lock and its unlock: none that is up, or was never there, keeps it.
LockIsInUse == lockOwner \in Procs => Migrating(lockOwner)

\* A runner is one of a process that is up; the transaction of a process is
\* that of its sealing runner, that of a writer removes chunks.
TransactionsOK ==
    /\ \A p \in Procs :
         /\ main[p] # "up" => runner[p] = "none"
         /\ op[p] # "idle" => op[p] = "seal" /\ runner[p] = "sealing"
    /\ \A w \in Writers : op[w] # "seal"

\* A session waits for a row it has still to change.
WaitsOK == \A s \in Sessions : want[s] # NoRow => want[s] \in todo[s]

\* It meets a row, locked or not, or the row it waited for is free.
CanMeetRow(s) ==
    \E r \in todo[s] : want[s] = NoRow \/ (want[s] = r /\ ~LockedByOther(s, r))

\* Its transaction is complete, and the code that began it commits.
CanCommit(s) ==
    /\ todo[s] = {}
    /\ \/ s \in Procs /\ runner[s] = "sealing" /\ op[s] = "seal"
       \/ s \in Writers /\ op[s] = "remove"

\* While a transaction on chunks is open, some session that has one can go on
\* to its next row, commit, or is on a cycle of sessions that wait for each
\* other, of which PostgreSQL aborts one: the statements lock rows in any
\* order, and no session is left waiting for one that does not move.
TransactionsMove ==
    (\E s \in Sessions : op[s] # "idle") =>
        \E s \in Sessions : op[s] # "idle" /\ (CanMeetRow(s) \/ CanCommit(s) \/ InDeadlock(s))

\* The transactions of a writer concern one document.
OneDocument ==
    \A s \in Sessions : op[s] = "remove" =>
        \E d \in Docs : \A r \in todo[s] \cup done[s] \cup fresh[s] : Owner[r] = d

\* A sealing session changes no row whose text begins with v1: but for those
\* sealed meanwhile: its rows were plaintext when it read them, and plaintext
\* becomes nothing but sealed or gone.
SealsNoLookalike ==
    \A s \in Sessions : op[s] = "seal" =>
        \A r \in todo[s] \cup done[s] : content[r] \notin {"prefixed", "lookalike"}

LEMMA ExitFrees ==
    ASSUME TypeOK, LockIsInUse, NEW p \in Procs, Exit(p)
    PROVE  LockIsInUse'
  BY StartupAssumption DEF TypeOK, LockIsInUse, Migrating, Exit, Goto

LEMMA LockInUseKept == StartupInv /\ LockIsInUse /\ [Next]_vars => LockIsInUse'
<1> SUFFICES ASSUME StartupInv, LockIsInUse, [Next]_vars PROVE LockIsInUse'
  OBVIOUS
<1>i. TypeOK
  BY DEF StartupInv
<1> USE StartupAssumption DEF TypeOK, LockIsInUse, Migrating, Goto
<1>s. ASSUME UNCHANGED <<main, lockOwner>> PROVE LockIsInUse'
  BY <1>s
<1>1. ASSUME NEW p \in Procs, Start(p) \/ TakeLock(p) \/ LookForTables(p) \/ ReleaseLock(p)
      PROVE  LockIsInUse'
  BY <1>i, <1>1 DEF Start, TakeLock, LookForTables, ReleaseLock
<1>2. ASSUME NEW p \in Procs, CreateExtensions(p) \/ CreateTables(p) PROVE LockIsInUse'
  BY <1>i, <1>2, ExitFrees DEF CreateExtensions, CreateTables
<1>3. ASSUME NEW p \in Procs, LoseConnection(p) PROVE LockIsInUse'
  BY <1>i, <1>3 DEF LoseConnection
<1>4. ASSUME NEW p \in Procs, StartRunner(p) \/ FinishSealing(p) \/ FailSealing(p) \/ Die(p)
      PROVE  LockIsInUse'
  BY <1>i, <1>4, <1>s, ExitFrees DEF StartRunner, FinishSealing, FailSealing, Die
<1>5. ASSUME NEW s \in Sessions, TransactionStep(s) PROVE LockIsInUse'
  BY <1>5, <1>s DEF TransactionStep, procVars
<1>6. ASSUME NEW w \in Writers,
             FailRemoval(w) \/ \E d \in Docs : ReplaceChunks(w, d) \/ DeleteChunks(w, d)
      PROVE  LockIsInUse'
  BY <1>6, <1>s DEF FailRemoval, ReplaceChunks, DeleteChunks, procVars
<1>7. CASE DropGhost
  BY <1>7 DEF DropGhost, procVars
<1>8. CASE UNCHANGED vars
  BY <1>8, <1>s DEF vars, procVars
<1> QED BY <1>1, <1>2, <1>3, <1>4, <1>5, <1>6, <1>7, <1>8 DEF Next, MigrationStep, RunnerStep

\* The statements of the table, whoever issues them: who waits keeps the row
\* on its list, and a removal stays with its document.
LEMMA WaitingKept ==
    TableInv /\ WaitsOK /\ OneDocument /\ TableStep => WaitsOK' /\ OneDocument'
<1> SUFFICES ASSUME TableInv, WaitsOK, OneDocument, TableStep PROVE WaitsOK' /\ OneDocument'
  OBVIOUS
<1> USE ChunkTableAssumption DEF TableInv, ChunkTypeOK
<1>i. \A s \in Sessions : op[s] = "idle" => want[s] = NoRow /\ done[s] = {}
  BY DEF WaitsOK, LocksOK
<1>1. ASSUME NEW s \in Sessions, BeginSealing(s) PROVE WaitsOK' /\ OneDocument'
  BY <1>1, <1>i DEF BeginSealing, Begin, WaitsOK, OneDocument
<1>2. ASSUME NEW s \in Sessions, NEW d \in Docs, NEW new \in SUBSET Rows, BeginRemoval(s, d, new)
      PROVE  WaitsOK' /\ OneDocument'
  BY <1>2, <1>i DEF BeginRemoval, Begin, WaitsOK, OneDocument
<1>3. ASSUME NEW s \in Sessions, NEW r \in Rows, WaitForRow(s, r) PROVE WaitsOK' /\ OneDocument'
  BY <1>3 DEF WaitForRow, WaitsOK, OneDocument
<1>4. ASSUME NEW s \in Sessions, NEW r \in Rows, ChangeRow(s, r) PROVE WaitsOK' /\ OneDocument'
  <2>1. WaitsOK'
    BY <1>4 DEF ChangeRow, WaitsOK
  <2>2. \A t \in Sessions : todo'[t] \cup done'[t] \cup fresh'[t]
                              \subseteq todo[t] \cup done[t] \cup fresh[t]
    BY <1>4 DEF ChangeRow
  <2>3. op' = op
    BY <1>4 DEF ChangeRow
  <2> QED BY <2>1, <2>2, <2>3 DEF OneDocument
<1>5. ASSUME NEW s \in Sessions, Leave(s) PROVE WaitsOK' /\ OneDocument'
  BY <1>5 DEF Leave, WaitsOK, OneDocument
<1>6. CASE UNCHANGED chunkVars
  BY <1>6 DEF chunkVars, WaitsOK, OneDocument
<1> QED BY <1>1, <1>2, <1>3, <1>4, <1>5, <1>6
        DEF TableStep, CommitSealing, CommitRemoval, Rollback

LEMMA LookalikesKept == TableInv /\ SealsNoLookalike /\ TableStep => SealsNoLookalike'
<1> SUFFICES ASSUME TableInv, SealsNoLookalike, TableStep PROVE SealsNoLookalike'
  OBVIOUS
<1> USE DEF TableInv, ChunkTypeOK, SealsNoLookalike
<1>1. ASSUME NEW s \in Sessions, BeginSealing(s) PROVE SealsNoLookalike'
  BY <1>1 DEF BeginSealing, Begin, Plaintext, LocksOK
<1>2. ASSUME NEW s \in Sessions, NEW d \in Docs, NEW new \in SUBSET Rows, BeginRemoval(s, d, new)
      PROVE  SealsNoLookalike'
  BY <1>2 DEF BeginRemoval, Begin
<1>3. ASSUME NEW s \in Sessions, NEW r \in Rows, WaitForRow(s, r) \/ ChangeRow(s, r)
      PROVE  SealsNoLookalike'
  <2>1. content' = content /\ op' = op
    BY <1>3 DEF WaitForRow, ChangeRow
  <2>2. \A t \in Sessions : todo'[t] \cup done'[t] \subseteq todo[t] \cup done[t]
    BY <1>3 DEF WaitForRow, ChangeRow
  <2> QED BY <2>1, <2>2
<1>4. ASSUME NEW s \in Sessions, Leave(s),
             \A r \in Rows : content'[r] \in {"prefixed", "lookalike"} => content[r] = content'[r]
      PROVE  SealsNoLookalike'
  BY <1>4 DEF Leave
<1>5. ASSUME NEW s \in Sessions, CommitSealing(s) \/ CommitRemoval(s) \/ Rollback(s)
      PROVE  SealsNoLookalike'
  BY <1>4, <1>5 DEF CommitSealing, Encrypt, CommitRemoval, Rollback
<1>6. CASE UNCHANGED chunkVars
  BY <1>6 DEF chunkVars
<1> QED BY <1>1, <1>2, <1>3, <1>5, <1>6 DEF TableStep

LEMMA TransactionsKept == StartupInv /\ TransactionsOK /\ [Next]_vars => TransactionsOK'
<1> SUFFICES ASSUME StartupInv, TransactionsOK, [Next]_vars PROVE TransactionsOK'
  OBVIOUS
<1>i. TypeOK /\ ChunkTypeOK
  BY DEF StartupInv, TypeOK
<1>p. \A p \in Procs : p \in Sessions /\ p \notin Writers
  BY StartupAssumption
<1>w. \A w \in Writers : w \in Sessions /\ w \notin Procs
  BY StartupAssumption
<1> USE DEF TypeOK, ChunkTypeOK, TransactionsOK, Goto
<1>e. ASSUME NEW p \in Procs, Exit(p), \A t \in Sessions \ {p} : op'[t] = op[t], op'[p] = "idle"
      PROVE  TransactionsOK'
  BY <1>i, <1>p, <1>w, <1>e DEF Exit
<1>l. ASSUME NEW s \in Sessions, Leave(s)
      PROVE  op'[s] = "idle" /\ \A t \in Sessions \ {s} : op'[t] = op[t]
  BY <1>i, <1>l DEF Leave
<1>1. ASSUME NEW p \in Procs, Start(p) \/ TakeLock(p) \/ LookForTables(p) \/ ReleaseLock(p)
                              \/ LoseConnection(p)
      PROVE  TransactionsOK'
  BY <1>i, <1>1 DEF Start, TakeLock, LookForTables, ReleaseLock, LoseConnection, chunkVars
<1>2. ASSUME NEW p \in Procs, CreateExtensions(p) \/ CreateTables(p) PROVE TransactionsOK'
  <2>1. op' = op /\ runner[p] = "none"
    BY <1>2 DEF CreateExtensions, CreateTables, chunkVars
  <2>2. CASE Exit(p)
    BY <1>e, <2>1, <2>2
  <2>3. CASE runner' = runner /\ \E place : main' = [main EXCEPT ![p] = place]
    BY <1>i, <2>1, <2>3
  <2> QED BY <1>2, <2>2, <2>3 DEF CreateExtensions, CreateTables
<1>3. ASSUME NEW p \in Procs, StartRunner(p) PROVE TransactionsOK'
  <2>1. CASE Exit(p) /\ UNCHANGED chunkVars
    BY <1>3, <1>e, <2>1 DEF StartRunner, chunkVars
  <2>2. CASE BeginSealing(p) /\ runner' = [runner EXCEPT ![p] = "sealing"] /\ UNCHANGED main
    BY <1>3, <1>i, <1>p, <1>w, <2>2 DEF StartRunner, BeginSealing, Begin
  <2> QED BY <1>3, <2>1, <2>2 DEF StartRunner
<1>4. ASSUME NEW p \in Procs, FinishSealing(p) PROVE TransactionsOK'
  <2>1. op'[p] = "idle" /\ \A t \in Sessions \ {p} : op'[t] = op[t]
    BY <1>4, <1>l, <1>p DEF FinishSealing, CommitSealing
  <2> QED BY <1>4, <1>i, <1>p, <1>w, <2>1 DEF FinishSealing
<1>5. ASSUME NEW p \in Procs, FailSealing(p) PROVE TransactionsOK'
  <2>1. op'[p] = "idle" /\ \A t \in Sessions \ {p} : op'[t] = op[t]
    BY <1>5, <1>l, <1>p DEF FailSealing, Rollback
  <2>2. CASE Exit(p)
    BY <1>e, <2>1, <2>2
  <2>3. CASE runner' = [runner EXCEPT ![p] = "stopped"] /\ UNCHANGED main
    BY <1>5, <1>i, <1>p, <1>w, <2>1, <2>3 DEF FailSealing
  <2> QED BY <1>5, <2>2, <2>3 DEF FailSealing
<1>6. ASSUME NEW s \in Sessions, TransactionStep(s) PROVE TransactionsOK'
  <2>1. \A t \in Sessions : op'[t] = op[t] \/ op'[t] = "idle"
    BY <1>6, <1>i, <1>l DEF TransactionStep, WaitForRow, ChangeRow, CommitRemoval, Leave
  <2> QED BY <1>6, <1>p, <1>w, <2>1 DEF TransactionStep, procVars
<1>7. ASSUME NEW w \in Writers, NEW d \in Docs, ReplaceChunks(w, d) \/ DeleteChunks(w, d)
      PROVE  TransactionsOK'
  <2>1. op' = [op EXCEPT ![w] = "remove"]
    BY <1>7 DEF ReplaceChunks, DeleteChunks, BeginRemoval, Begin
  <2> QED BY <1>7, <1>i, <1>p, <1>w, <2>1 DEF ReplaceChunks, DeleteChunks, procVars
<1>8. ASSUME NEW w \in Writers, FailRemoval(w) PROVE TransactionsOK'
  <2>1. op'[w] = "idle" /\ \A t \in Sessions \ {w} : op'[t] = op[t]
    BY <1>8, <1>l, <1>w DEF FailRemoval, Rollback
  <2> QED BY <1>8, <1>p, <1>w, <2>1 DEF FailRemoval, procVars
<1>9. ASSUME NEW p \in Procs, Die(p) PROVE TransactionsOK'
  <2>1. op'[p] = "idle" /\ \A t \in Sessions \ {p} : op'[t] = op[t]
    BY <1>9, <1>l, <1>p DEF Die, Rollback, chunkVars
  <2> QED BY <1>9, <1>e, <2>1 DEF Die
<1>10. CASE DropGhost \/ UNCHANGED vars
  BY <1>10 DEF DropGhost, vars, procVars, chunkVars
<1> QED BY <1>1, <1>2, <1>3, <1>4, <1>5, <1>6, <1>7, <1>8, <1>9, <1>10, <1>p, <1>w
        DEF Next, MigrationStep, RunnerStep

MovingInv ==
    /\ StartupInv
    /\ LockIsInUse
    /\ TransactionsOK
    /\ WaitsOK
    /\ OneDocument
    /\ SealsNoLookalike

LEMMA MovingInvariant == Spec => []MovingInv
<1>1. Init => MovingInv
  <2> SUFFICES ASSUME Init PROVE MovingInv
    OBVIOUS
  <2> QED BY StartupInit, StartupAssumption
          DEF Init, ChunkInit, MovingInv, LockIsInUse, TransactionsOK, WaitsOK, OneDocument,
              SealsNoLookalike
<1>2. MovingInv /\ [Next]_vars => MovingInv'
  BY StepsOnTable, TableKeeps, StartupTyped, RunnersKept, LockKept, LockInUseKept, WaitingKept,
     LookalikesKept, TransactionsKept DEF MovingInv, StartupInv
<1> QED BY <1>1, <1>2, PTL DEF Spec

\* Sessions of which each waits for another: those that are waited for, too,
\* remain when the others are taken away one by one.
LEMMA WaitingHasCycle ==
    ASSUME NEW S, IsFiniteSet(S), S \in SUBSET Sessions, S # {},
           \A t \in S : \E u \in S \ {t} : WaitsFor(t, u)
    PROVE  \E s \in S : InDeadlock(s)
<1> DEFINE Closed(D) == D # {} /\ \A t \in D : \E u \in D \ {t} : WaitsFor(t, u)
           Sizes == {n \in Nat : \E D \in SUBSET S : Closed(D) /\ Cardinality(D) = n}
<1>1. \A D \in SUBSET S : IsFiniteSet(D) /\ Cardinality(D) \in Nat
  BY FS_Subset, FS_CardinalityType
<1>2. Cardinality(S) \in Sizes
  BY <1>1
<1>3. PICK m \in Sizes : \A k \in Sizes : <<k, m>> \notin OpToRel(<, Nat)
  <2>1. Sizes \in SUBSET Nat /\ Sizes # {}
    BY <1>2
  <2> HIDE DEF Sizes
  <2> QED BY <2>1, NatLessThanWellFounded, WFMin
<1>4. PICK D \in SUBSET S : Closed(D) /\ Cardinality(D) = m
  OBVIOUS
<1>5. ASSUME NEW t \in D, ~ \E u \in D \ {t} : WaitsFor(u, t) PROVE FALSE
  <2>1. Closed(D \ {t})
    <3>1. D \ {t} # {}
      BY <1>4
    <3>2. ASSUME NEW u \in D \ {t} PROVE \E v \in (D \ {t}) \ {u} : WaitsFor(u, v)
      <4>1. PICK v \in D \ {u} : WaitsFor(u, v)
        BY <1>4
      <4>2. v # t
        BY <1>5, <4>1
      <4> QED BY <4>1, <4>2
    <3> QED BY <3>1, <3>2
  <2>2. Cardinality(D \ {t}) = m - 1
    BY <1>1, <1>4, FS_RemoveElement
  <2>3. m - 1 \in Sizes
    <3>1. D \ {t} \in SUBSET S
      OBVIOUS
    <3>2. Cardinality(D \ {t}) \in Nat
      BY <1>1, <3>1
    <3> QED BY <2>1, <2>2, <3>1, <3>2
  <2>4. <<m - 1, m>> \notin OpToRel(<, Nat)
    BY <1>3, <2>3
  <2>5. m \in Nat /\ m - 1 \in Nat
    BY <2>3
  <2> QED BY <2>4, <2>5 DEF OpToRel
<1>6. \A s \in D : InDeadlock(s)
  BY <1>4, <1>5 DEF InDeadlock
<1> QED BY <1>4, <1>6

\* The advisory lock is not left behind: when a process waits for it, a live
\* holder is between its lock and its unlock.
THEOREM StartupFreesLock == Spec => []LockIsInUse
<1>1. MovingInv => LockIsInUse
  BY DEF MovingInv
<1> QED BY <1>1, MovingInvariant, PTL

\* With finitely many sessions the transactions on chunks never come to a
\* standstill that PostgreSQL's deadlock check would not see.
THEOREM StartupMoves == ASSUME IsFiniteSet(Sessions) PROVE Spec => []TransactionsMove
<1>1. ASSUME MovingInv PROVE TransactionsMove
  <2> DEFINE Open == {s \in Sessions : op[s] # "idle"}
  <2> SUFFICES ASSUME Open # {}, \A s \in Open : ~CanMeetRow(s) /\ ~CanCommit(s)
               PROVE  \E s \in Open : InDeadlock(s)
    BY DEF TransactionsMove
  <2>i. StartupInv /\ TransactionsOK /\ WaitsOK /\ TableInv /\ ChunkTypeOK /\ LocksOK
    BY <1>1 DEF MovingInv, StartupInv, TableInv
  <2>1. ASSUME NEW s \in Open PROVE \E u \in Open \ {s} : WaitsFor(s, u)
    <3>1. todo[s] # {}
      <4>1. s \in Procs \/ s \in Writers
        BY StartupAssumption
      <4>2. op[s] \in {"seal", "remove"}
        BY <2>i DEF ChunkTypeOK
      <4>3. s \in Procs => runner[s] = "sealing" /\ op[s] = "seal"
        BY <2>i DEF TransactionsOK
      <4>4. s \in Writers => op[s] = "remove"
        BY <2>i, <4>2 DEF TransactionsOK
      <4> QED BY <4>1, <4>3, <4>4 DEF CanCommit
    <3>2. want[s] # NoRow
      BY <3>1 DEF CanMeetRow
    <3>3. want[s] \in todo[s] /\ LockedByOther(s, want[s])
      BY <2>i, <3>2 DEF CanMeetRow, WaitsOK
    <3>4. PICK u \in Sessions \ {s} : want[s] \in done[u]
      BY <3>3 DEF LockedByOther
    <3>5. u \in Open
      BY <2>i, <3>4 DEF LocksOK
    <3> QED BY <3>2, <3>4, <3>5 DEF WaitsFor
  <2>2. IsFiniteSet(Open)
    BY FS_Subset
  <2> HIDE DEF Open
  <2>3. Open \in SUBSET Sessions
    BY DEF Open
  <2> QED BY <2>1, <2>2, <2>3, WaitingHasCycle
<1> QED BY <1>1, MovingInvariant, PTL

-----------------------------------------------------------------------------
(* What the table promises of its rows. *)

Table == INSTANCE ChunkLifecycle

LEMMA TableStepAtOnce ==
    TableInv /\ OneDocument /\ SealsNoLookalike /\ TableStep => [Table!Next]_content
<1> SUFFICES ASSUME TableInv, OneDocument, SealsNoLookalike, TableStep
             PROVE  Table!Next \/ content' = content
  OBVIOUS
<1>i. /\ content \in [Rows -> Contents \ {"twice"}]
      /\ \A s \in Sessions : done[s] \in SUBSET Rows /\ fresh[s] \in SUBSET Rows
      /\ \A s \in Sessions : \A r \in done[s] : Exists(r)
      /\ \A s \in Sessions : \A r \in fresh[s] : content[r] = "none"
  BY DEF TableInv, ChunkTypeOK, LocksOK, Contents
<1>1. ASSUME NEW s \in Sessions, CommitSealing(s) PROVE Table!Next
  <2> DEFINE plain == {r \in done[s] : content[r] = "text"}
  <2>1. \A r \in done[s] : content[r] \in {"text", "sealed"}
    BY <1>i, <1>1 DEF CommitSealing, SealsNoLookalike, Exists, Contents
  <2>2. content' = [r \in Rows |-> IF r \in done[s] THEN "sealed" ELSE content[r]]
    BY <1>1 DEF CommitSealing, Encrypt, TableInv, SealingOK
  <2>3. content' = Table!Become(plain, "sealed")
    BY <1>i, <2>1, <2>2 DEF Table!Become
  <2>4. plain \in SUBSET Rows /\ Table!Seal(plain)
    BY <1>i, <2>3 DEF Table!Seal
  <2> QED BY <2>4 DEF Table!Next
<1>2. ASSUME NEW s \in Sessions, CommitRemoval(s) PROVE Table!Next
  <2>1. PICK d \in Docs : \A r \in done[s] \cup fresh[s] : Owner[r] = d
    BY <1>2 DEF CommitRemoval, OneDocument
  <2>2. \A r \in done[s] : content[r] \notin {"none", "gone"}
    BY <1>i DEF Exists, Contents
  <2>3. Table!Replace(d, done[s], fresh[s])
    BY <1>i, <1>2, <2>1, <2>2 DEF CommitRemoval, Table!Replace, Table!Become
  <2> QED BY <1>i, <2>3 DEF Table!Next
<1>3. ASSUME NEW s \in Sessions, Rollback(s) PROVE content' = content
  BY <1>3 DEF Rollback
<1>4. ASSUME NEW s \in Sessions,
             \/ BeginSealing(s)
             \/ \E d \in Docs, new \in SUBSET Rows : BeginRemoval(s, d, new)
             \/ \E r \in Rows : WaitForRow(s, r) \/ ChangeRow(s, r)
      PROVE  content' = content
  BY <1>4 DEF BeginSealing, BeginRemoval, Begin, WaitForRow, ChangeRow
<1> QED BY <1>1, <1>2, <1>3, <1>4 DEF TableStep, chunkVars

\* To everybody who reads chunks a transaction happens at once and changes the
\* rows as its code means to: only plaintext is encrypted, whatever snapshots
\* overlap, what replaces a document's rows is encrypted, and all other rows
\* stay as they are.
THEOREM StartupKeepsPromise == Spec => Table!Spec
<1>1. Init => Table!Init
  <2> SUFFICES ASSUME Init PROVE Table!Init
    OBVIOUS
  <2>1. PICK old \in SUBSET Rows : ChunkInit(old)
    BY DEF Init
  <2>2. PICK stored \in [old -> {"text", "prefixed", "lookalike", "sealed"}] :
          content = [r \in Rows |-> IF r \in old THEN stored[r] ELSE "none"]
    BY <2>1 DEF ChunkInit
  <2> QED BY <2>2 DEF Table!Init
<1>2. MovingInv /\ [Next]_vars => [Table!Next]_content
  BY StepsOnTable, TableStepAtOnce DEF MovingInv, StartupInv
<1> QED BY <1>1, <1>2, MovingInvariant, PTL DEF Spec, Table!Spec
=============================================================================
