---------------------- MODULE NetworkTransactionProofs ----------------------
(***************************************************************************)
(* Proofs about NetworkTransaction for every set of transactions, every    *)
(* plan and every interleaving of crashes and restarts: the order of an    *)
(* execution's writes for every caller and build, the rest on unix, for    *)
(* callers that resolve what is pending or applied before they execute.    *)
(***************************************************************************)
EXTENDS NetworkTransaction, TLAPS

\* The setting of the theorems that say so: a unix build whose caller recovers first.
Disciplined == Unix = TRUE /\ RetriesPending = FALSE /\ StacksApplied = FALSE

Executing == {"step", "write", "sync", "run", "recordSync", "clearOthers"}

\* A setting in effect sits in its own scope.
InPlace == \A s \in Scopes : net[s] \in Ops => Scope[net[s]] = s

\* Every journal that may be found has the operations of its transaction that
\* are in effect among its rollback steps; every record has all of them.
Complete ==
  \A t \in Txns :
    /\ \A c \in pendMay[t] \ {NoFile} : InEffect \cap OpsOf(t) \subseteq PossiblyApplied(c.status)
    /\ \A c \in applMay[t] \ {NoFile} : OpsOf(t) \subseteq PossiblyApplied(c.status)

\* An operation in effect has a journal, or a record, that no crash can remove.
Present ==
  \A o \in InEffect : NoFile \notin pendMay[TxnOf[o]] \/ NoFile \notin applMay[TxnOf[o]]

\* Every inverse restores the original setting.
Restores ==
  /\ undo = [o \in Ops |-> Original]
  /\ \A t \in Txns : \A c \in (pendMay[t] \cup applMay[t]) \ {NoFile} :
       c.undo = [o \in Ops |-> Original]

\* What holds at each step of an execution.
ExecutionInv ==
  /\ pc \in Executing =>
       /\ InEffect \subseteq OpsOf(cur) \cap PossiblyApplied(status)
       /\ \A t \in Txns \ {cur} : pend[t] = NoFile
  /\ pc \in {"write", "sync"} /\ cont = "run" =>
       op \in OpsOf(cur) /\ status[op] = "Applying"
  /\ pc = "sync" => pend[cur] = CurrentJournal
  /\ pc = "run" =>
       /\ op \in OpsOf(cur) /\ status[op] = "Applying"
       /\ pend[cur] = CurrentJournal
       /\ \A t \in Txns : pendMay[t] = {pend[t]}
  /\ pc = "recordSync" => appl[cur] # NoFile
  /\ pc = "clearOthers" => NoFile \notin applMay[cur]

\* What holds at each step of a rollback, and when a journal is cleared.
RecoveryInv ==
  /\ pc \in {"undoJournal", "undoRecord"} => InEffect \cap OpsOf(cur) \subseteq todo
  /\ pc \in {"clear", "clearSync"} =>
       InEffect \cap OpsOf(cur) = {} \/ NoFile \notin applMay[cur]
  /\ pc \in {"clearRecord", "clearRecordSync"} => InEffect \cap OpsOf(cur) = {}

IInv ==
  /\ TypeOK
  /\ InPlace /\ Complete /\ Present /\ Restores
  /\ ExecutionInv /\ RecoveryInv

-----------------------------------------------------------------------------
\* Facts about the parts of the model.

\* The transaction and the operation an idle process "works on" exist.
LEMMA ChosenTyped ==
  /\ (CHOOSE t \in Txns : TRUE) \in Txns
  /\ (CHOOSE o \in Ops : TRUE) \in Ops
BY PlanAssumption DEF OpsOf

\* A journal or record made of the process's memory is a file.
LEMMA JournalTyped == ASSUME TypeOK PROVE CurrentJournal \in Files
BY DEF TypeOK, CurrentJournal, Files

\* Forgetting the memory leaves it well typed.
LEMMA IdleTyped ==
  ASSUME Idle
  PROVE  /\ pc' = "idle" /\ pc' \in Steps /\ cont' \in {"idle", "step", "run"}
         /\ cur' \in Txns /\ op' \in Ops
         /\ status' \in [Ops -> Statuses] /\ undo' \in [Ops -> Values]
         /\ todo' \subseteq Ops
         /\ undo' = [o \in Ops |-> Original]
BY ChosenTyped DEF Idle, Steps, Statuses, Values

\* The invariant holds initially: no file, no setting, an idle process.
LEMMA InitInv == Init => IInv
<1> SUFFICES ASSUME Init PROVE IInv
  OBVIOUS
<1>1. TypeOK
  BY ChosenTyped DEF Init, TypeOK, Contents, Steps, Statuses, Values, Durable
<1>2. InEffect = {}
  BY PlanAssumption DEF Init, InEffect, Scopes
<1>3. InPlace /\ Present
  BY <1>2, PlanAssumption DEF Init, InPlace, Present, Scopes
<1>4. Complete /\ Restores
  BY DEF Init, Complete, Restores, Durable
<1>5. ExecutionInv /\ RecoveryInv
  BY DEF Init, ExecutionInv, RecoveryInv, Executing
<1> QED
  BY <1>1, <1>3, <1>4, <1>5 DEF IInv

\* A process that stops leaves the invariant: the files carry it alone.
LEMMA QuietStep == ASSUME IInv, Idle, UNCHANGED <<net, disk>> PROVE IInv'
<1>1. TypeOK'
  BY IdleTyped DEF IInv, TypeOK, disk
<1>2. InPlace' /\ Complete' /\ Present'
  BY DEF IInv, InPlace, Complete, Present, InEffect, disk
<1>3. Restores'
  BY IdleTyped DEF IInv, Restores, disk
<1>4. ExecutionInv' /\ RecoveryInv'
  BY IdleTyped DEF ExecutionInv, RecoveryInv, Executing
<1> QED
  BY <1>1, <1>2, <1>3, <1>4 DEF IInv

\* Before a transaction starts nothing is in effect: the gate refuses while
\* another journal is pending and the caller has resolved its own and every
\* applied record.
LEMMA CleanStart ==
  ASSUME Disciplined, IInv, NEW t \in Txns, Start(t)
  PROVE  InEffect = {}
<1> SUFFICES ASSUME NEW o \in InEffect PROVE FALSE
  OBVIOUS
<1>1. TxnOf[o] \in Txns
  BY PlanAssumption DEF InEffect
<1>2. pend[TxnOf[o]] = NoFile /\ appl[TxnOf[o]] = NoFile
  BY <1>1 DEF Start, GateOpen, CallerAllows, Disciplined
<1>3. pend[TxnOf[o]] \in pendMay[TxnOf[o]] /\ appl[TxnOf[o]] \in applMay[TxnOf[o]]
  BY <1>1 DEF IInv, TypeOK
<1> QED
  BY <1>2, <1>3 DEF IInv, Present

-----------------------------------------------------------------------------
\* Execution preserves the invariant.

\* Start: the inverses are planned from a machine no transaction has touched.
LEMMA StartStep ==
  ASSUME Disciplined, IInv, NEW t \in Txns, Start(t)
  PROVE  IInv'
<1>1. InEffect = {} /\ InEffect' = {}
  BY CleanStart DEF Start, InEffect
<1>2. \A o \in Ops : net[Scope[o]] = Original
  <2> SUFFICES ASSUME NEW o \in Ops, net[Scope[o]] # Original PROVE FALSE
    OBVIOUS
  <2>1. Scope[o] \in Scopes
    BY DEF Scopes
  <2>2. net[Scope[o]] \in Ops
    BY <2>1 DEF IInv, TypeOK, Values
  <2>3. net[Scope[o]] \in InEffect
    BY <2>1, <2>2 DEF IInv, InPlace, InEffect
  <2> QED
    BY <2>3, <1>1
<1>3. undo' = [o \in Ops |-> Original]
  BY <1>2 DEF Start, Inverse
<1>4. TypeOK'
  BY <1>3 DEF IInv, TypeOK, Start, disk, Steps, Statuses, Values
<1>5. InPlace' /\ Complete' /\ Present'
  BY <1>1 DEF IInv, InPlace, Complete, Present, Start, disk
<1>6. Restores'
  BY <1>3 DEF IInv, Restores, Start, disk
<1>7. \A u \in Txns \ {t} : pend[u] = NoFile
  BY DEF Start, GateOpen
<1>8. ExecutionInv' /\ RecoveryInv'
  BY <1>1, <1>7 DEF ExecutionInv, RecoveryInv, Start, disk, Executing
<1> QED
  BY <1>4, <1>5, <1>6, <1>8 DEF IInv

\* A transaction id is defined for every operation of the current transaction.
LEMMA OwnerIsCur ==
  ASSUME IInv, pc \in Executing, NEW o \in InEffect
  PROVE  TxnOf[o] = cur /\ o \in PossiblyApplied(status)
BY DEF IInv, ExecutionInv, OpsOf

LEMMA BeginStep ==
  ASSUME IInv, NEW o \in Ops, BeginOperation(o)
  PROVE  IInv'
<1>1. o \in OpsOf(cur) /\ status[o] = "Planned" /\ pc \in Executing
  BY DEF BeginOperation, IsNext, Unstarted, Executing
<1>2. PossiblyApplied(status) \subseteq PossiblyApplied(status')
  BY DEF BeginOperation, PossiblyApplied, IInv, TypeOK
<1>3. TypeOK'
  BY DEF IInv, TypeOK, BeginOperation, disk, Steps, Statuses
<1>4. InPlace' /\ Complete' /\ Present' /\ Restores' /\ InEffect' = InEffect
  BY DEF IInv, InPlace, Complete, Present, Restores, InEffect, BeginOperation, disk
<1>5. status'[o] = "Applying"
  BY DEF BeginOperation, IInv, TypeOK
<1>6. ExecutionInv'
  BY <1>1, <1>2, <1>4, <1>5 DEF IInv, ExecutionInv, BeginOperation, disk, OpsOf, Executing
<1>7. RecoveryInv'
  BY DEF RecoveryInv, BeginOperation
<1> QED
  BY <1>3, <1>4, <1>6, <1>7 DEF IInv

\* The journal is renamed into place: it lists whatever is in effect.
LEMMA ReplaceStep ==
  ASSUME Disciplined, IInv, ReplaceJournal
  PROVE  IInv'
<1>1. CurrentJournal \in Files /\ CurrentJournal # NoFile
  BY JournalTyped, FileAssumption DEF IInv
<1>2. /\ pend' = [pend EXCEPT ![cur] = CurrentJournal]
      /\ pendMay' = [pendMay EXCEPT ![cur] = @ \cup {CurrentJournal}]
      /\ pc = "write" /\ pc' = "sync"
      /\ UNCHANGED <<net, appl, applMay, mem>>
  BY DEF ReplaceJournal, Put, MayPut, Disciplined
<1>3. pc \in Executing /\ pc' \in Executing /\ cur \in Txns
  BY <1>2 DEF Executing, IInv, TypeOK
<1>4. InEffect' = InEffect /\ InEffect \subseteq OpsOf(cur) \cap PossiblyApplied(status)
  BY <1>2, <1>3 DEF InEffect, IInv, ExecutionInv
<1>5. TypeOK'
  BY <1>1, <1>2 DEF IInv, TypeOK, mem, Steps, Contents
<1>6. InPlace'
  BY <1>2 DEF IInv, InPlace
<1>7. Complete'
  <2> SUFFICES ASSUME NEW t \in Txns
               PROVE  /\ \A c \in pendMay'[t] \ {NoFile} :
                           InEffect \cap OpsOf(t) \subseteq PossiblyApplied(c.status)
                      /\ \A c \in applMay[t] \ {NoFile} :
                           OpsOf(t) \subseteq PossiblyApplied(c.status)
    BY <1>2, <1>4 DEF Complete
  <2>1. pendMay'[t] \subseteq pendMay[t] \cup {CurrentJournal}
    BY <1>2 DEF IInv, TypeOK
  <2>2. CurrentJournal.status = status
    BY DEF CurrentJournal
  <2> QED
    BY <1>4, <2>1, <2>2 DEF IInv, Complete
<1>8. Present'
  BY <1>1, <1>2, <1>4 DEF IInv, TypeOK, Present
<1>9. Restores'
  BY <1>2 DEF IInv, TypeOK, Restores, CurrentJournal, mem
<1>10. ExecutionInv'
  BY <1>2, <1>3, <1>4 DEF IInv, TypeOK, ExecutionInv, CurrentJournal, mem, Executing
<1>11. RecoveryInv'
  BY <1>2 DEF RecoveryInv
<1> QED
  BY <1>5, <1>6, <1>7, <1>8, <1>9, <1>10, <1>11 DEF IInv

\* The directory is synced: what a process sees is what a restart finds.
LEMMA SyncStep ==
  ASSUME IInv, SyncJournal
  PROVE  IInv'
<1>1. pend[cur] = CurrentJournal /\ CurrentJournal # NoFile /\ pc \in Executing
  BY JournalTyped, FileAssumption DEF IInv, ExecutionInv, SyncJournal, Executing
<1>2. /\ pendMay' = [t \in Txns |-> {pend[t]}]
      /\ UNCHANGED <<net, pend, appl, applMay>>
      /\ \A t \in Txns : pendMay'[t] \subseteq pendMay[t]
  BY DEF SyncJournal, Durable, IInv, TypeOK
<1>3. InEffect' = InEffect
  BY <1>2 DEF InEffect
<1>4. InPlace' /\ Complete'
  BY <1>2, <1>3 DEF IInv, InPlace, Complete
<1>5. Present'
  BY <1>1, <1>2, <1>3, OwnerIsCur DEF IInv, TypeOK, Present
<1>6. CASE cont = "idle"
  <2>1. Idle
    BY <1>6 DEF SyncJournal, GoTo
  <2>2. TypeOK'
    BY <1>2, <2>1, IdleTyped DEF IInv, TypeOK
  <2>3. Restores'
    BY <1>2, <2>1, IdleTyped DEF IInv, Restores
  <2>4. ExecutionInv' /\ RecoveryInv'
    BY <2>1, IdleTyped DEF ExecutionInv, RecoveryInv, Executing
  <2> QED
    BY <1>4, <1>5, <2>2, <2>3, <2>4 DEF IInv
<1>7. CASE cont # "idle"
  <2>1. pc' = cont /\ UNCHANGED mem /\ cont \in {"step", "run"} /\ pc = "sync"
    BY <1>7 DEF SyncJournal, GoTo, IInv, TypeOK
  <2>2. TypeOK'
    BY <1>2, <2>1 DEF IInv, TypeOK, mem, Steps
  <2>3. Restores'
    BY <1>2, <2>1 DEF IInv, Restores, mem
  <2>4. ExecutionInv'
    BY <1>1, <1>2, <1>3, <2>1 DEF IInv, ExecutionInv, mem, Executing, CurrentJournal
  <2>5. RecoveryInv'
    BY <2>1 DEF RecoveryInv
  <2> QED
    BY <1>4, <1>5, <2>2, <2>3, <2>4, <2>5 DEF IInv
<1> QED
  BY <1>6, <1>7

\* Whatever the adapter does to the machine and whichever verdict it returns,
\* the synced journal lists the operation.
LEMMA OperationStep ==
  ASSUME IInv, OperationOk \/ OperationFailed
  PROVE  IInv'
<1>1. /\ pc = "run" /\ pc' = "write" /\ cont' \in {"step", "idle"}
      /\ net' \in {net, [net EXCEPT ![Scope[op]] = op]}
      /\ status' \in {[status EXCEPT ![op] = "Applied"], [status EXCEPT ![op] = "Failed"]}
      /\ UNCHANGED <<pend, pendMay, appl, applMay, cur, op, undo, todo>>
  BY DEF OperationOk, OperationFailed, disk
<1>2. /\ op \in Ops /\ op \in OpsOf(cur) /\ Scope[op] \in Scopes /\ cur \in Txns
      /\ status[op] = "Applying" /\ pendMay[cur] = {CurrentJournal}
      /\ CurrentJournal # NoFile /\ CurrentJournal.status = status
  BY <1>1, JournalTyped, FileAssumption
     DEF IInv, TypeOK, ExecutionInv, OpsOf, Scopes, CurrentJournal
<1>3. InEffect' \subseteq InEffect \cup {op}
  BY <1>1, <1>2 DEF InEffect, IInv, TypeOK, Scopes
<1>4. InEffect' \subseteq OpsOf(cur) \cap PossiblyApplied(status)
  BY <1>1, <1>2, <1>3 DEF IInv, ExecutionInv, Executing, PossiblyApplied
<1>5. PossiblyApplied(status) \subseteq PossiblyApplied(status')
  BY <1>1, <1>2 DEF PossiblyApplied, IInv, TypeOK
<1>6. TypeOK'
  <2>1. net' \in [Scopes -> Values]
    BY <1>1, <1>2 DEF IInv, TypeOK, Values
  <2>2. status' \in [Ops -> Statuses]
    BY <1>1, <1>2 DEF IInv, TypeOK, Statuses
  <2> QED
    BY <1>1, <2>1, <2>2 DEF IInv, TypeOK, Steps
<1>7. InPlace'
  BY <1>1, <1>2 DEF IInv, TypeOK, InPlace
<1>8. Complete'
  <2> SUFFICES ASSUME NEW t \in Txns
               PROVE  /\ \A c \in pendMay[t] \ {NoFile} :
                           InEffect' \cap OpsOf(t) \subseteq PossiblyApplied(c.status)
                      /\ \A c \in applMay[t] \ {NoFile} :
                           OpsOf(t) \subseteq PossiblyApplied(c.status)
    BY <1>1 DEF Complete
  <2>1. CASE t = cur
    BY <1>2, <1>4, <2>1 DEF IInv, Complete
  <2>2. CASE t # cur
    BY <1>4, <2>2 DEF IInv, Complete, OpsOf
  <2> QED
    BY <2>1, <2>2
<1>9. Present'
  BY <1>1, <1>2, <1>4 DEF Present, OpsOf
<1>10. Restores'
  BY <1>1 DEF IInv, Restores
<1>11. ExecutionInv'
  BY <1>1, <1>4, <1>5 DEF IInv, ExecutionInv, Executing
<1>12. RecoveryInv'
  BY <1>1 DEF RecoveryInv
<1> QED
  BY <1>6, <1>7, <1>8, <1>9, <1>10, <1>11, <1>12 DEF IInv

LEMMA InterruptAfterStep ==
  ASSUME IInv, InterruptAfterOperation
  PROVE  IInv'
<1>1. TypeOK'
  BY DEF IInv, TypeOK, InterruptAfterOperation, disk, Steps
<1>2. InPlace' /\ Complete' /\ Present' /\ Restores' /\ InEffect' = InEffect
  BY DEF IInv, InPlace, Complete, Present, Restores, InEffect,
         InterruptAfterOperation, disk
<1>3. ExecutionInv' /\ RecoveryInv'
  BY <1>2 DEF IInv, ExecutionInv, RecoveryInv, InterruptAfterOperation, disk, Executing
<1> QED
  BY <1>1, <1>2, <1>3 DEF IInv

\* Every operation is applied, and the applied record is renamed into place.
LEMMA RecordStep ==
  ASSUME Disciplined, IInv, RecordApplied
  PROVE  IInv'
<1>1. CurrentJournal \in Files /\ CurrentJournal # NoFile /\ CurrentJournal.status = status
  BY JournalTyped, FileAssumption DEF IInv, CurrentJournal
<1>2. /\ appl' = [appl EXCEPT ![cur] = CurrentJournal]
      /\ applMay' = [applMay EXCEPT ![cur] = @ \cup {CurrentJournal}]
      /\ pc = "step" /\ pc' = "recordSync" /\ Unstarted = {}
      /\ UNCHANGED <<net, pend, pendMay, mem>>
  BY DEF RecordApplied, Put, MayPut, Disciplined
<1>3. pc \in Executing /\ cur \in Txns /\ InEffect' = InEffect
  BY <1>2 DEF Executing, IInv, TypeOK, InEffect
<1>4. OpsOf(cur) \subseteq PossiblyApplied(status)
  BY <1>2 DEF Unstarted, PossiblyApplied, OpsOf, IInv, TypeOK, Statuses
<1>5. TypeOK'
  BY <1>1, <1>2 DEF IInv, TypeOK, mem, Steps, Contents
<1>6. InPlace'
  BY <1>2 DEF IInv, InPlace
<1>7. Complete'
  <2> SUFFICES ASSUME NEW t \in Txns, NEW c \in applMay'[t] \ {NoFile}
               PROVE  OpsOf(t) \subseteq PossiblyApplied(c.status)
    BY <1>2, <1>3 DEF IInv, Complete
  <2>1. c \in applMay[t] \/ (t = cur /\ c = CurrentJournal)
    BY <1>2 DEF IInv, TypeOK
  <2> QED
    BY <1>1, <1>4, <2>1 DEF IInv, Complete
<1>8. Present'
  BY <1>1, <1>2, <1>3 DEF IInv, TypeOK, Present
<1>9. Restores'
  BY <1>2 DEF IInv, TypeOK, Restores, CurrentJournal, mem
<1>10. ExecutionInv' /\ RecoveryInv'
  BY <1>1, <1>2, <1>3 DEF IInv, TypeOK, ExecutionInv, RecoveryInv, mem, Executing
<1> QED
  BY <1>5, <1>6, <1>7, <1>8, <1>9, <1>10 DEF IInv

\* The records are synced, before and after the others are removed: the record
\* of the current transaction is there.
LEMMA SyncRecordsStep ==
  ASSUME IInv, SyncRecord \/ OthersCleared
  PROVE  IInv'
<1>1. /\ applMay' = [t \in Txns |-> {appl[t]}]
      /\ UNCHANGED <<net, pend, pendMay, appl, mem>>
      /\ \A t \in Txns : applMay'[t] \subseteq applMay[t]
      /\ pc \in {"recordSync", "clearOthers"} /\ pc \in Executing
      /\ pc' \in {"clearOthers", "clear"} /\ pc' \in Steps
  BY DEF SyncRecord, OthersCleared, Durable, IInv, TypeOK, Executing, Steps
<1>2. cur \in Txns /\ appl[cur] # NoFile /\ NoFile \notin applMay'[cur]
  BY <1>1 DEF IInv, TypeOK, ExecutionInv
<1>3. InEffect' = InEffect
  BY <1>1 DEF InEffect
<1>4. TypeOK'
  BY <1>1 DEF IInv, TypeOK, mem
<1>5. InPlace' /\ Complete' /\ Restores'
  BY <1>1, <1>3 DEF IInv, InPlace, Complete, Restores, mem
<1>6. Present'
  BY <1>1, <1>2, <1>3, OwnerIsCur DEF Present
<1>7. ExecutionInv' /\ RecoveryInv'
  BY <1>1, <1>2, <1>3 DEF IInv, ExecutionInv, RecoveryInv, mem, Executing
<1> QED
  BY <1>4, <1>5, <1>6, <1>7 DEF IInv

\* The record of another transaction may go: nothing of it is in effect.
LEMMA ClearOtherStep ==
  ASSUME Disciplined, IInv, NEW t \in Txns, ClearOtherRecord(t)
  PROVE  IInv'
<1>1. /\ appl' = [appl EXCEPT ![t] = NoFile]
      /\ applMay' = [applMay EXCEPT ![t] = @ \cup {NoFile}]
      /\ pc = "clearOthers" /\ t # cur /\ pc \in Executing
      /\ UNCHANGED <<net, pend, pendMay, pc, mem>>
  BY DEF ClearOtherRecord, Put, MayPut, Disciplined, Executing
<1>2. InEffect' = InEffect
  BY <1>1 DEF InEffect
<1>3. TypeOK'
  BY <1>1 DEF IInv, TypeOK, mem, Contents
<1>4. InPlace' /\ Complete' /\ Restores'
  BY <1>1, <1>2 DEF IInv, TypeOK, InPlace, Complete, Restores, mem
<1>5. Present'
  BY <1>1, <1>2, OwnerIsCur DEF IInv, TypeOK, Present
<1>6. ExecutionInv' /\ RecoveryInv'
  BY <1>1, <1>2 DEF IInv, TypeOK, ExecutionInv, RecoveryInv, mem, Executing
<1> QED
  BY <1>3, <1>4, <1>5, <1>6 DEF IInv

\* The journal is removed once nothing of it is in effect or a record covers it.
LEMMA ClearJournalStep ==
  ASSUME Disciplined, IInv, ClearJournal
  PROVE  IInv'
<1>1. /\ pend' = [pend EXCEPT ![cur] = NoFile]
      /\ pendMay' = [pendMay EXCEPT ![cur] = @ \cup {NoFile}]
      /\ pc = "clear" /\ pc' = "clearSync"
      /\ UNCHANGED <<net, appl, applMay, mem>>
  BY DEF ClearJournal, Put, MayPut, Disciplined
<1>2. InEffect' = InEffect
  BY <1>1 DEF InEffect
<1>3. TypeOK'
  BY <1>1 DEF IInv, TypeOK, mem, Contents, Steps
<1>4. InPlace' /\ Complete' /\ Restores'
  BY <1>1, <1>2 DEF IInv, TypeOK, InPlace, Complete, Restores, mem
<1>5. \A o \in InEffect : TxnOf[o] = cur => NoFile \notin applMay[cur]
  BY <1>1 DEF IInv, RecoveryInv, InEffect, OpsOf
<1>6. Present'
  BY <1>1, <1>2, <1>5 DEF IInv, TypeOK, Present
<1>7. ExecutionInv' /\ RecoveryInv'
  BY <1>1, <1>2 DEF IInv, TypeOK, ExecutionInv, RecoveryInv, mem, Executing
<1> QED
  BY <1>3, <1>4, <1>6, <1>7 DEF IInv

LEMMA SyncClearStep ==
  ASSUME IInv, SyncClear
  PROVE  IInv'
<1>1. /\ pendMay' = [t \in Txns |-> {pend[t]}]
      /\ UNCHANGED <<net, pend, appl, applMay>> /\ Idle
      /\ \A t \in Txns : pendMay'[t] \subseteq pendMay[t]
  BY DEF SyncClear, Durable, IInv, TypeOK
<1>2. InEffect' = InEffect
  BY <1>1 DEF InEffect
<1>3. TypeOK'
  BY <1>1, IdleTyped DEF IInv, TypeOK
<1>4. InPlace' /\ Complete' /\ Present'
  BY <1>1, <1>2, PlanAssumption DEF IInv, TypeOK, InPlace, Complete, Present, InEffect
<1>5. Restores'
  BY <1>1, IdleTyped DEF IInv, Restores
<1>6. ExecutionInv' /\ RecoveryInv'
  BY <1>1, IdleTyped DEF ExecutionInv, RecoveryInv, Executing
<1> QED
  BY <1>3, <1>4, <1>5, <1>6 DEF IInv

-----------------------------------------------------------------------------
\* Recovery preserves the invariant.

\* What is loaded lists everything of the transaction that is in effect.
LEMMA LoadStep ==
  ASSUME IInv, NEW t \in Txns, LoadJournal(t) \/ LoadRecord(t)
  PROVE  IInv'
<1>1. PICK file \in {pend, appl} :
        /\ file[t] # NoFile /\ cur' = t
        /\ undo' = file[t].undo /\ todo' = PossiblyApplied(file[t].status)
        /\ pc' \in {"undoJournal", "undoRecord"} /\ cont' = cont /\ op' = op
        /\ UNCHANGED <<net, pend, pendMay, appl, applMay, status>>
  BY DEF LoadJournal, LoadRecord, Load, disk
<1>2. file[t] \in (pendMay[t] \cup applMay[t]) \ {NoFile}
  BY <1>1 DEF IInv, TypeOK
<1>3. undo' = [o \in Ops |-> Original] /\ undo' \in [Ops -> Values]
  BY <1>1, <1>2 DEF IInv, Restores, Values
<1>4. InEffect' = InEffect
  BY <1>1 DEF InEffect
<1>5. InEffect \cap OpsOf(t) \subseteq todo'
  BY <1>1, <1>2 DEF IInv, Complete
<1>6. TypeOK'
  BY <1>1, <1>3 DEF IInv, TypeOK, PossiblyApplied, Steps
<1>7. InPlace' /\ Complete' /\ Present'
  BY <1>1, <1>4 DEF IInv, InPlace, Complete, Present
<1>8. Restores'
  BY <1>1, <1>3 DEF IInv, Restores
<1>9. ExecutionInv' /\ RecoveryInv'
  BY <1>1, <1>4, <1>5 DEF ExecutionInv, RecoveryInv, Executing
<1> QED
  BY <1>6, <1>7, <1>8, <1>9 DEF IInv

\* A rollback step restores the original setting of its scope.
LEMMA UndoStep ==
  ASSUME IInv, NEW o \in Ops, UndoOperation(o)
  PROVE  IInv'
<1>1. /\ net' = [net EXCEPT ![Scope[o]] = Original]
      /\ todo' = todo \ {o} /\ pc \in {"undoJournal", "undoRecord"}
      /\ UNCHANGED <<pend, pendMay, appl, applMay, pc, cur, op, status, undo, cont>>
  BY DEF UndoOperation, IInv, Restores, disk
<1>2. Scope[o] \in Scopes /\ Original \notin Ops
  BY PlanAssumption DEF Scopes
<1>3. InEffect' \subseteq InEffect \ {o}
  BY <1>1, <1>2 DEF InEffect, IInv, TypeOK, Scopes
<1>4. TypeOK'
  BY <1>1, <1>2 DEF IInv, TypeOK, Values
<1>5. InPlace' /\ Complete' /\ Present' /\ Restores'
  BY <1>1, <1>2, <1>3 DEF IInv, TypeOK, InPlace, Complete, Present, Restores
<1>6. ExecutionInv' /\ RecoveryInv'
  BY <1>1, <1>3 DEF IInv, ExecutionInv, RecoveryInv, Executing
<1> QED
  BY <1>4, <1>5, <1>6 DEF IInv

LEMMA RolledBackStep ==
  ASSUME IInv, RolledBack
  PROVE  IInv'
<1>1. TypeOK'
  BY DEF IInv, TypeOK, RolledBack, disk, mem, Steps
<1>2. InPlace' /\ Complete' /\ Present' /\ Restores' /\ InEffect' = InEffect
  BY DEF IInv, InPlace, Complete, Present, Restores, InEffect, RolledBack, disk, mem
<1>3. ExecutionInv' /\ RecoveryInv'
  BY <1>2 DEF IInv, ExecutionInv, RecoveryInv, RolledBack, disk, mem, Executing
<1> QED
  BY <1>1, <1>2, <1>3 DEF IInv

LEMMA ClearRecordStep ==
  ASSUME Disciplined, IInv, ClearRecord
  PROVE  IInv'
<1>1. /\ appl' = [appl EXCEPT ![cur] = NoFile]
      /\ applMay' = [applMay EXCEPT ![cur] = @ \cup {NoFile}]
      /\ pc = "clearRecord" /\ pc' = "clearRecordSync"
      /\ UNCHANGED <<net, pend, pendMay, mem>>
  BY DEF ClearRecord, Put, MayPut, Disciplined
<1>2. InEffect' = InEffect /\ \A o \in InEffect : TxnOf[o] # cur
  BY <1>1 DEF InEffect, IInv, RecoveryInv, OpsOf
<1>3. TypeOK'
  BY <1>1 DEF IInv, TypeOK, mem, Contents, Steps
<1>4. InPlace' /\ Complete' /\ Present' /\ Restores'
  BY <1>1, <1>2 DEF IInv, TypeOK, InPlace, Complete, Present, Restores, mem
<1>5. ExecutionInv' /\ RecoveryInv'
  BY <1>1, <1>2 DEF IInv, ExecutionInv, RecoveryInv, mem, Executing
<1> QED
  BY <1>3, <1>4, <1>5 DEF IInv

LEMMA SyncClearRecordStep ==
  ASSUME IInv, SyncClearRecord
  PROVE  IInv'
<1>1. /\ applMay' = [t \in Txns |-> {appl[t]}]
      /\ UNCHANGED <<net, pend, pendMay, appl>> /\ Idle
      /\ \A t \in Txns : applMay'[t] \subseteq applMay[t]
  BY DEF SyncClearRecord, Durable, IInv, TypeOK
<1>2. InEffect' = InEffect
  BY <1>1 DEF InEffect
<1>3. TypeOK'
  BY <1>1, IdleTyped DEF IInv, TypeOK
<1>4. InPlace' /\ Complete' /\ Present'
  BY <1>1, <1>2, PlanAssumption DEF IInv, TypeOK, InPlace, Complete, Present, InEffect
<1>5. Restores'
  BY <1>1, IdleTyped DEF IInv, Restores
<1>6. ExecutionInv' /\ RecoveryInv'
  BY <1>1, IdleTyped DEF ExecutionInv, RecoveryInv, Executing
<1> QED
  BY <1>3, <1>4, <1>5, <1>6 DEF IInv

-----------------------------------------------------------------------------
\* Faults preserve the invariant.

\* A power loss leaves of each file something it might leave.
LEMMA LossChoosesAllowed ==
  ASSUME NEW file \in [Txns -> Contents], NEW may \in [Txns -> SUBSET Contents],
         \A t \in Txns : file[t] \in may[t],
         NEW left \in AfterLoss(file, may)
  PROVE  left \in [Txns -> Contents] /\ \A t \in Txns : left[t] \in may[t]
<1> DEFINE unsynced == {t \in Txns : may[t] # {file[t]}}
<1>1. PICK f \in [unsynced -> UNION {may[t] : t \in unsynced}] :
        /\ \A t \in unsynced : f[t] \in may[t]
        /\ left = [t \in Txns |-> IF t \in unsynced THEN f[t] ELSE file[t]]
  BY DEF AfterLoss
<1>2. \A t \in Txns : left[t] \in may[t]
  BY <1>1
<1>3. \A t \in Txns : left[t] \in Contents
  BY <1>2
<1> QED
  BY <1>1, <1>2, <1>3

\* A restart drops settings, never adds one, and leaves a file that is allowed.
LEMMA PowerLossStep ==
  ASSUME IInv, PowerLoss
  PROVE  IInv'
<1>1. /\ Idle
      /\ pend' \in [Txns -> Contents] /\ \A t \in Txns : pend'[t] \in pendMay[t]
      /\ appl' \in [Txns -> Contents] /\ \A t \in Txns : appl'[t] \in applMay[t]
      /\ pendMay' = [t \in Txns |-> {pend'[t]}]
      /\ applMay' = [t \in Txns |-> {appl'[t]}]
  <2>1. pend' \in AfterLoss(pend, pendMay) /\ appl' \in AfterLoss(appl, applMay)
    BY DEF PowerLoss
  <2>2. pend' \in [Txns -> Contents] /\ \A t \in Txns : pend'[t] \in pendMay[t]
    BY <2>1, LossChoosesAllowed DEF IInv, TypeOK
  <2>3. appl' \in [Txns -> Contents] /\ \A t \in Txns : appl'[t] \in applMay[t]
    BY <2>1, LossChoosesAllowed DEF IInv, TypeOK
  <2> QED
    BY <2>2, <2>3 DEF PowerLoss
<1>2. net' = net \/ \E s \in Scopes : net' = [net EXCEPT ![s] = Original]
  BY DEF PowerLoss
<1>3. InEffect' \subseteq InEffect
  <2>1. \A s \in Scopes : net'[s] = net[s] \/ net'[s] = Original
    BY <1>2 DEF IInv, TypeOK
  <2>2. \A o \in Ops : Scope[o] \in Scopes /\ o # Original
    BY PlanAssumption DEF Scopes
  <2> QED
    BY <2>1, <2>2 DEF InEffect
<1>4. TypeOK'
  <2>1. net' \in [Scopes -> Values]
    BY <1>2 DEF IInv, TypeOK, Values
  <2> QED
    BY <1>1, <2>1, IdleTyped DEF TypeOK
<1>5. InPlace'
  BY <1>2, PlanAssumption DEF IInv, TypeOK, InPlace
<1>6. Complete' /\ Present'
  <2>1. \A t \in Txns : pendMay'[t] \subseteq pendMay[t] /\ applMay'[t] \subseteq applMay[t]
    BY <1>1
  <2>2. Complete'
    BY <1>3, <2>1 DEF IInv, Complete
  <2> QED
    BY <1>3, <2>1, <2>2, PlanAssumption DEF IInv, Present, InEffect
<1>7. Restores'
  BY <1>1, IdleTyped DEF IInv, Restores
<1>8. ExecutionInv' /\ RecoveryInv'
  BY <1>1, IdleTyped DEF ExecutionInv, RecoveryInv, Executing
<1> QED
  BY <1>4, <1>5, <1>6, <1>7, <1>8 DEF IInv

\* The invariant is inductive: every step of execution, recovery and faults.
LEMMA NextStep == ASSUME Disciplined, IInv, [Next]_vars PROVE IInv'
<1>1. CASE UNCHANGED vars
  <2>1. TypeOK'
    BY <1>1 DEF IInv, TypeOK, vars, disk, mem
  <2>2. InPlace' /\ Complete' /\ Present' /\ Restores' /\ InEffect' = InEffect
    BY <1>1 DEF IInv, InPlace, Complete, Present, Restores, InEffect, vars, disk, mem
  <2>3. ExecutionInv' /\ RecoveryInv'
    BY <1>1, <2>2 DEF IInv, ExecutionInv, RecoveryInv, vars, disk, mem, CurrentJournal
  <2> QED
    BY <2>1, <2>2, <2>3 DEF IInv
<1>2. CASE Execute
  <2>1. ASSUME NEW t \in Txns, Start(t) PROVE IInv'
    BY <2>1, StartStep
  <2>2. ASSUME NEW o \in Ops, BeginOperation(o) PROVE IInv'
    BY <2>2, BeginStep
  <2>3. ASSUME NEW o \in Ops, RefuseIrreversible(o) PROVE IInv'
    BY <2>3, QuietStep DEF RefuseIrreversible
  <2>4. ~RemoveTarget /\ ~RemoveRecordTarget
    BY DEF RemoveTarget, RemoveRecordTarget, Disciplined
  <2>5. ASSUME NEW t \in Txns, ClearOtherRecord(t) PROVE IInv'
    BY <2>5, ClearOtherStep
  <2> QED
    BY <1>2, <2>1, <2>2, <2>3, <2>4, <2>5, ReplaceStep, SyncStep, OperationStep,
       InterruptAfterStep, RecordStep, SyncRecordsStep DEF Execute
<1>3. CASE Recover
  BY <1>3, LoadStep, UndoStep, RolledBackStep, ClearRecordStep,
     SyncClearRecordStep DEF Recover
<1>4. CASE Interrupt
  BY <1>4, QuietStep DEF Interrupt
<1> QED
  BY <1>1, <1>2, <1>3, <1>4, ClearJournalStep, SyncClearStep, PowerLossStep DEF Next

-----------------------------------------------------------------------------
\* What holds of every caller and every build: the order of an execution's writes.

Resting == {"idle", "undoJournal", "undoRecord", "clearRecord", "clearRecordSync"}

\* The applied record lists every operation of the transaction.
Covered == \A o \in OpsOf(cur) : Undoes(appl[cur], o)

\* Statuses are those of the transaction at work, and nobody's at rest.
StatusInv ==
  /\ \A o \in Ops : status[o] = "Applied" => o \in OpsOf(cur)
  /\ pc \in Resting => \A o \in Ops : status[o] = "Planned"

\* What has been written at each step.
OrderInv ==
  /\ pc \in {"write", "sync"} /\ cont = "run" => op \in OpsOf(cur) /\ status[op] = "Applying"
  /\ pc = "sync" => pend[cur] = CurrentJournal
  /\ pc = "run" =>
       /\ op \in OpsOf(cur) /\ status[op] = "Applying"
       /\ pend[cur] = CurrentJournal /\ pendMay[cur] = {pend[cur]}
  /\ pc \in {"recordSync", "clearOthers"} => Covered
  /\ pc = "clear" /\ status[op] = "Applied" =>
       Covered /\ \A t \in Txns \ {cur} : appl[t] = NoFile

WInv == TypeOK /\ StatusInv /\ AppliedInForce /\ OrderInv

\* At rest nothing is said of the files.
LEMMA AtRest ==
  ASSUME pc' \in Resting, \A o \in Ops : status'[o] = "Planned"
  PROVE  StatusInv' /\ AppliedInForce' /\ OrderInv'
<1>1. \A o \in Ops : status'[o] # "Applied"
  OBVIOUS
<1>2. StatusInv' /\ AppliedInForce'
  BY <1>1 DEF StatusInv, AppliedInForce
<1>3. OrderInv'
  BY DEF OrderInv, Resting
<1> QED
  BY <1>2, <1>3

LEMMA IdleRests ==
  ASSUME Idle
  PROVE  StatusInv' /\ AppliedInForce' /\ OrderInv'
<1>1. pc' \in Resting /\ \A o \in Ops : status'[o] = "Planned"
  BY DEF Idle, Resting
<1> QED
  BY <1>1, AtRest

LEMMA InitWInv == Init => WInv
<1> SUFFICES ASSUME Init PROVE WInv
  OBVIOUS
<1>1. TypeOK
  BY InitInv DEF IInv
<1>2. \A o \in Ops : status[o] = "Planned"
  BY DEF Init
<1>3. StatusInv /\ AppliedInForce /\ OrderInv
  BY <1>2 DEF Init, StatusInv, AppliedInForce, OrderInv, Resting
<1> QED
  BY <1>1, <1>3 DEF WInv

\* Steps that stop the process and change at most what a power loss may leave.
LEMMA StopsKeep ==
  ASSUME WInv, SyncClear \/ SyncClearRecord \/ Interrupt \/ PowerLoss
               \/ \E o \in Ops : RefuseIrreversible(o)
  PROVE  WInv'
<1>1. Idle
  BY DEF SyncClear, SyncClearRecord, Interrupt, PowerLoss, RefuseIrreversible
<1>2. TypeOK'
  <2>1. CASE SyncClear
    BY <1>1, <2>1, IdleTyped DEF WInv, TypeOK, SyncClear, Durable
  <2>2. CASE SyncClearRecord
    BY <1>1, <2>2, IdleTyped DEF WInv, TypeOK, SyncClearRecord, Durable
  <2>3. CASE Interrupt \/ \E o \in Ops : RefuseIrreversible(o)
    BY <1>1, <2>3, IdleTyped DEF WInv, TypeOK, Interrupt, RefuseIrreversible, disk
  <2>4. CASE PowerLoss
    <3>1. pend' \in AfterLoss(pend, pendMay) /\ appl' \in AfterLoss(appl, applMay)
      BY <2>4 DEF PowerLoss
    <3>2. pend' \in [Txns -> Contents] /\ appl' \in [Txns -> Contents]
      BY <3>1, LossChoosesAllowed DEF WInv, TypeOK
    <3>3. net' \in [Scopes -> Values]
      BY <2>4 DEF PowerLoss, WInv, TypeOK, Values
    <3> QED
      BY <1>1, <2>4, <3>2, <3>3, IdleTyped DEF TypeOK, PowerLoss
  <2> QED
    BY <2>1, <2>2, <2>3, <2>4
<1> QED
  BY <1>1, <1>2, IdleRests DEF WInv

\* A transaction starts with nothing said of its operations.
LEMMA StartKeeps == ASSUME WInv, NEW t \in Txns, Start(t) PROVE WInv'
<1>1. undo' \in [Ops -> Values]
  BY DEF Start, Inverse, WInv, TypeOK, Scopes, Values
<1>2. TypeOK'
  BY <1>1 DEF WInv, TypeOK, Start, disk, Steps, Statuses
<1>3. \A o \in Ops : status'[o] = "Planned"
  BY DEF Start
<1>4. StatusInv' /\ AppliedInForce' /\ OrderInv'
  BY <1>3 DEF Start, StatusInv, AppliedInForce, OrderInv, Resting
<1> QED
  BY <1>2, <1>4 DEF WInv

LEMMA BeginKeeps == ASSUME WInv, NEW o \in Ops, BeginOperation(o) PROVE WInv'
<1>1. o \in OpsOf(cur) /\ status' = [status EXCEPT ![o] = "Applying"]
  BY DEF BeginOperation, IsNext, Unstarted
<1>2. TypeOK'
  BY <1>1 DEF WInv, TypeOK, BeginOperation, disk, Steps, Statuses
<1>3. status'[o] = "Applying" /\ \A p \in Ops : status'[p] = "Applied" => status[p] = "Applied"
  BY <1>1 DEF WInv, TypeOK
<1>4. StatusInv' /\ AppliedInForce'
  BY <1>3 DEF WInv, StatusInv, AppliedInForce, BeginOperation, OpsOf, Resting
<1>5. OrderInv'
  BY <1>1, <1>3 DEF OrderInv, BeginOperation, OpsOf
<1> QED
  BY <1>2, <1>4, <1>5 DEF WInv

\* The journal and the record are put in place, or their target is removed first.
LEMMA FilesKeep ==
  ASSUME WInv, RemoveTarget \/ ReplaceJournal \/ RemoveRecordTarget \/ RecordApplied
               \/ \E t \in Txns : ClearOtherRecord(t)
  PROVE  WInv'
<1>1. CurrentJournal \in Files /\ CurrentJournal # NoFile /\ CurrentJournal.status = status
  BY JournalTyped, FileAssumption DEF WInv, CurrentJournal
<1>2. CASE RemoveTarget
  <2>1. TypeOK'
    BY <1>2 DEF RemoveTarget, Put, MayPut, WInv, TypeOK, Contents, mem
  <2>2. StatusInv' /\ AppliedInForce' /\ OrderInv'
    BY <1>2 DEF RemoveTarget, WInv, StatusInv, AppliedInForce, OrderInv, mem, Resting
  <2> QED
    BY <2>1, <2>2 DEF WInv
<1>3. CASE ReplaceJournal
  <2>1. TypeOK'
    BY <1>1, <1>3 DEF ReplaceJournal, Put, MayPut, WInv, TypeOK, Contents, mem, Steps
  <2>2. StatusInv' /\ AppliedInForce'
    BY <1>3 DEF ReplaceJournal, WInv, StatusInv, AppliedInForce, mem, Resting
  <2>3. OrderInv'
    BY <1>3 DEF ReplaceJournal, Put, WInv, TypeOK, OrderInv, mem, CurrentJournal
  <2> QED
    BY <2>1, <2>2, <2>3 DEF WInv
<1>4. CASE RemoveRecordTarget
  <2>1. TypeOK'
    BY <1>4 DEF RemoveRecordTarget, Put, MayPut, WInv, TypeOK, Contents, mem
  <2>2. StatusInv' /\ AppliedInForce' /\ OrderInv'
    BY <1>4 DEF RemoveRecordTarget, WInv, StatusInv, AppliedInForce, OrderInv, mem, Resting
  <2> QED
    BY <2>1, <2>2 DEF WInv
<1>5. CASE RecordApplied
  <2>1. TypeOK'
    BY <1>1, <1>5 DEF RecordApplied, Put, MayPut, WInv, TypeOK, Contents, mem, Steps
  <2>2. StatusInv' /\ AppliedInForce'
    BY <1>5 DEF RecordApplied, WInv, StatusInv, AppliedInForce, mem, Resting
  <2>3. OpsOf(cur) \subseteq PossiblyApplied(status)
    BY <1>5 DEF RecordApplied, Unstarted, PossiblyApplied, OpsOf, WInv, TypeOK, Statuses
  <2>4. appl'[cur] = CurrentJournal /\ UNCHANGED cur /\ pc' = "recordSync"
    BY <1>5 DEF RecordApplied, Put, WInv, TypeOK, mem
  <2>5. Covered'
    BY <1>1, <2>3, <2>4 DEF Covered, Undoes
  <2>6. OrderInv'
    BY <2>4, <2>5 DEF OrderInv
  <2> QED
    BY <2>1, <2>2, <2>6 DEF WInv
<1>6. CASE \E t \in Txns : ClearOtherRecord(t)
  <2>1. TypeOK'
    BY <1>6 DEF ClearOtherRecord, Put, MayPut, WInv, TypeOK, Contents, mem
  <2>2. StatusInv' /\ AppliedInForce'
    BY <1>6 DEF ClearOtherRecord, WInv, StatusInv, AppliedInForce, mem, Resting
  <2>3. Covered' /\ pc' = "clearOthers"
    BY <1>6 DEF ClearOtherRecord, Put, WInv, TypeOK, OrderInv, Covered, mem
  <2>4. OrderInv'
    BY <2>3 DEF OrderInv
  <2> QED
    BY <2>1, <2>2, <2>4 DEF WInv
<1> QED
  BY <1>2, <1>3, <1>4, <1>5, <1>6

\* The directory is synced, and the process goes on.
LEMMA SyncsKeep ==
  ASSUME WInv, SyncJournal \/ SyncRecord \/ OthersCleared \/ ClearJournal
  PROVE  WInv'
<1>1. CASE SyncJournal /\ cont = "idle"
  <2>1. Idle
    BY <1>1 DEF SyncJournal, GoTo
  <2>2. TypeOK'
    BY <1>1, <2>1, IdleTyped DEF WInv, TypeOK, SyncJournal, Durable
  <2> QED
    BY <2>1, <2>2, IdleRests DEF WInv
<1>2. CASE SyncJournal /\ cont # "idle"
  <2>1. pc' = cont /\ UNCHANGED mem /\ cont \in {"step", "run"} /\ pc = "sync"
    BY <1>2 DEF SyncJournal, GoTo, WInv, TypeOK
  <2>2. pendMay' = [t \in Txns |-> {pend[t]}] /\ UNCHANGED <<net, pend, appl, applMay>>
    BY <1>2 DEF SyncJournal, Durable
  <2>3. TypeOK'
    BY <2>1, <2>2 DEF WInv, TypeOK, mem, Steps
  <2>4. StatusInv' /\ AppliedInForce'
    BY <2>1, <2>2 DEF WInv, StatusInv, AppliedInForce, mem, Resting
  <2>5. OrderInv'
    BY <2>1, <2>2 DEF WInv, TypeOK, OrderInv, mem, CurrentJournal
  <2> QED
    BY <2>3, <2>4, <2>5 DEF WInv
<1>3. CASE SyncRecord \/ OthersCleared
  <2>1. /\ applMay' = [t \in Txns |-> {appl[t]}]
        /\ \/ pc = "recordSync" /\ pc' = "clearOthers"
           \/ pc = "clearOthers" /\ pc' = "clear" /\ \A t \in Txns \ {cur} : appl[t] = NoFile
        /\ UNCHANGED <<net, pend, pendMay, appl, mem>>
    BY <1>3 DEF SyncRecord, OthersCleared, Durable
  <2>2. TypeOK'
    BY <2>1 DEF WInv, TypeOK, mem, Steps
  <2>3. StatusInv' /\ AppliedInForce'
    BY <2>1 DEF WInv, StatusInv, AppliedInForce, mem, Resting
  <2>4. Covered'
    BY <2>1 DEF WInv, OrderInv, Covered, mem
  <2>5. OrderInv'
    BY <2>1, <2>4 DEF OrderInv, mem
  <2> QED
    BY <2>2, <2>3, <2>5 DEF WInv
<1>4. CASE ClearJournal
  <2>1. TypeOK'
    BY <1>4 DEF ClearJournal, Put, MayPut, WInv, TypeOK, Contents, mem, Steps
  <2>2. StatusInv' /\ AppliedInForce' /\ OrderInv'
    BY <1>4 DEF ClearJournal, WInv, StatusInv, AppliedInForce, OrderInv, mem, Resting
  <2> QED
    BY <2>1, <2>2 DEF WInv
<1> QED
  BY <1>1, <1>2, <1>3, <1>4

\* An operation that succeeds agrees with those that set its scope before it; one
\* that fails after its effect had none before it.
LEMMA OperationKeeps == ASSUME WInv, OperationOk \/ OperationFailed PROVE WInv'
<1>1. op \in OpsOf(cur) /\ op \in Ops /\ status[op] = "Applying" /\ Scope[op] \in Scopes
  BY DEF WInv, OrderInv, OperationOk, OperationFailed, OpsOf, Scopes
<1>2. pc' = "write" /\ cont' \in {"step", "idle"}
      /\ UNCHANGED <<pend, pendMay, appl, applMay, cur, op, undo, todo>>
  BY DEF OperationOk, OperationFailed, disk
<1>3. /\ net' = net \/ (Earlier(op) = {} /\ net' = [net EXCEPT ![Scope[op]] = op])
      /\ status' \in {[status EXCEPT ![op] = "Applied"], [status EXCEPT ![op] = "Failed"]}
  BY DEF OperationOk, OperationFailed
<1>4. TypeOK'
  <2>1. net' \in [Scopes -> Values]
    BY <1>1, <1>3 DEF WInv, TypeOK, Values
  <2>2. status' \in [Ops -> Statuses]
    BY <1>1, <1>3 DEF WInv, TypeOK, Statuses
  <2> QED
    BY <1>2, <2>1, <2>2 DEF WInv, TypeOK, Steps
<1>5. StatusInv' /\ OrderInv'
  BY <1>1, <1>2, <1>3 DEF WInv, TypeOK, StatusInv, OrderInv, Resting
<1>6. ASSUME NEW o \in Ops, status'[o] = "Applied"
      PROVE  net'[Scope[o]] \in Ops /\ Setting[net'[Scope[o]]] = Setting[o]
  <2>0. Scope[o] \in Scopes /\ net \in [Scopes -> Values]
    BY DEF Scopes, WInv, TypeOK
  <2>1. CASE o # op
    <3>1. status[o] = "Applied" /\ o \in OpsOf(cur)
      BY <1>3, <1>6, <2>1 DEF WInv, TypeOK, StatusInv
    <3>2. Scope[o] = Scope[op] => Earlier(op) # {}
      BY <3>1 DEF Earlier
    <3>3. net'[Scope[o]] = net[Scope[o]]
      BY <1>1, <1>3, <2>0, <3>2
    <3> QED
      BY <3>1, <3>3 DEF WInv, AppliedInForce
  <2>2. CASE o = op
    <3>1. OperationOk
      BY <1>1, <1>6, <2>2 DEF OperationFailed, WInv, TypeOK
    <3>2. CASE Earlier(op) = {}
      BY <1>1, <2>0, <2>2, <3>1, <3>2 DEF OperationOk
    <3>3. CASE Earlier(op) # {}
      <4>1. PICK p \in Earlier(op) : Setting[p] = Setting[op]
        BY <3>1, <3>3 DEF OperationOk
      <4>2. p \in Ops /\ status[p] = "Applied" /\ Scope[p] = Scope[op]
        BY DEF Earlier, OpsOf
      <4>3. net' = net
        BY <3>1, <3>3 DEF OperationOk
      <4> QED
        BY <2>2, <4>1, <4>2, <4>3 DEF WInv, AppliedInForce
    <3> QED
      BY <3>2, <3>3
  <2> QED
    BY <2>1, <2>2
<1> QED
  BY <1>4, <1>5, <1>6 DEF WInv, AppliedInForce

LEMMA InterruptedKeeps == ASSUME WInv, InterruptAfterOperation PROVE WInv'
<1>1. TypeOK'
  BY DEF WInv, TypeOK, InterruptAfterOperation, disk, Steps
<1>2. StatusInv' /\ AppliedInForce' /\ OrderInv'
  BY DEF WInv, StatusInv, AppliedInForce, OrderInv, InterruptAfterOperation, Resting
<1> QED
  BY <1>1, <1>2 DEF WInv

\* Recovery says nothing of statuses.
LEMMA RecoverKeeps ==
  ASSUME WInv, Recover, ~SyncClearRecord
  PROVE  WInv'
<1>1. CASE \E t \in Txns : LoadJournal(t) \/ LoadRecord(t)
  <2>1. PICK t \in Txns, file \in {pend, appl} :
          /\ file[t] # NoFile /\ cur' = t
          /\ undo' = file[t].undo /\ todo' = PossiblyApplied(file[t].status)
          /\ pc = "idle" /\ pc' \in {"undoJournal", "undoRecord"} /\ cont' = cont /\ op' = op
          /\ UNCHANGED <<net, pend, pendMay, appl, applMay, status>>
    BY <1>1 DEF LoadJournal, LoadRecord, Load, disk
  <2>2. file[t] \in Files
    BY <2>1 DEF WInv, TypeOK, Contents
  <2>3. TypeOK'
    BY <2>1, <2>2 DEF WInv, TypeOK, Files, PossiblyApplied, Steps
  <2>4. pc' \in Resting /\ \A o \in Ops : status'[o] = "Planned"
    BY <2>1 DEF WInv, StatusInv, Resting
  <2> QED
    BY <2>3, <2>4, AtRest DEF WInv
<1>2. CASE \E o \in Ops : UndoOperation(o)
  <2>1. PICK o \in Ops : UndoOperation(o)
    BY <1>2
  <2>2. net' \in [Scopes -> Values]
    BY <2>1 DEF UndoOperation, WInv, TypeOK, Scopes
  <2>3. TypeOK'
    BY <2>1, <2>2 DEF UndoOperation, WInv, TypeOK, disk
  <2>4. pc' \in Resting /\ \A p \in Ops : status'[p] = "Planned"
    BY <2>1 DEF UndoOperation, WInv, StatusInv, Resting
  <2> QED
    BY <2>3, <2>4, AtRest DEF WInv
<1>3. CASE RolledBack
  <2>1. TypeOK'
    BY <1>3 DEF RolledBack, WInv, TypeOK, disk, mem, Steps
  <2>2. op \in Ops /\ \A o \in Ops : status'[o] = "Planned"
    BY <1>3 DEF RolledBack, WInv, TypeOK, StatusInv, Resting, mem
  <2>3. StatusInv' /\ AppliedInForce' /\ OrderInv'
    BY <1>3, <2>2 DEF RolledBack, StatusInv, AppliedInForce, OrderInv, mem
  <2> QED
    BY <2>1, <2>3 DEF WInv
<1>4. CASE ClearRecord
  <2>1. TypeOK'
    BY <1>4 DEF ClearRecord, Put, MayPut, WInv, TypeOK, Contents, mem, Steps
  <2>2. pc' \in Resting /\ \A o \in Ops : status'[o] = "Planned"
    BY <1>4 DEF ClearRecord, WInv, StatusInv, Resting, mem
  <2> QED
    BY <2>1, <2>2, AtRest DEF WInv
<1> QED
  BY <1>1, <1>2, <1>3, <1>4 DEF Recover

LEMMA WStep == ASSUME WInv, [Next]_vars PROVE WInv'
<1>1. CASE UNCHANGED vars
  <2>1. TypeOK' /\ StatusInv' /\ AppliedInForce'
    BY <1>1 DEF WInv, TypeOK, StatusInv, AppliedInForce, vars, disk, mem
  <2>2. OrderInv'
    BY <1>1 DEF WInv, OrderInv, Covered, CurrentJournal, vars, disk, mem
  <2> QED
    BY <2>1, <2>2 DEF WInv
<1>2. CASE Execute
  <2>1. ASSUME NEW t \in Txns, Start(t) PROVE WInv'
    BY <2>1, StartKeeps
  <2>2. ASSUME NEW o \in Ops, BeginOperation(o) PROVE WInv'
    BY <2>2, BeginKeeps
  <2> QED
    BY <1>2, <2>1, <2>2, StopsKeep, FilesKeep, SyncsKeep, OperationKeeps, InterruptedKeeps
       DEF Execute
<1>3. CASE Recover
  BY <1>3, RecoverKeeps, StopsKeep
<1> QED
  BY <1>1, <1>2, <1>3, StopsKeep, SyncsKeep DEF Next

LEMMA WritesHold == Spec => []WInv
<1>1. WInv /\ [Next]_vars => WInv'
  BY WStep
<1> QED
  BY InitWInv, <1>1, PTL DEF Spec

-----------------------------------------------------------------------------
\* The kill switch around a tunnel, on unix and for callers that recover first.

\* Files are those of a plan that was admitted, and say nothing of another's.
FilesOwn ==
  \A t \in Txns : \A c \in (pendMay[t] \cup applMay[t]) \ {NoFile} :
    ValidForExecution(t) /\ PossiblyApplied(c.status) \subseteq OpsOf(t)

\* What is in effect belongs to one transaction: no other has a journal that can
\* come back, nor a record once the journal of the first can go.
OneInEffect ==
  \A o \in InEffect :
    /\ \A t \in Txns \ {TxnOf[o]} : pendMay[t] = {NoFile}
    /\ \/ NoFile \notin pendMay[TxnOf[o]]
       \/ \A t \in Txns \ {TxnOf[o]} : applMay[t] = {NoFile}

\* Operations are applied in order, and a firewall that is applied is in effect.
ApplyingInv ==
  /\ pc \in Executing =>
       /\ ValidForExecution(cur) /\ PossiblyApplied(status) \subseteq OpsOf(cur)
       /\ \A f \in OpsOf(cur) : Kind[f] = "firewallOn" /\ status[f] = "Applied" => net[Scope[f]] = f
  /\ pc = "step" \/ (pc \in {"write", "sync"} /\ cont = "step") =>
       \A p \in OpsOf(cur) : status[p] \in {"Planned", "Applied"}
  /\ pc = "run" \/ (pc \in {"write", "sync"} /\ cont = "run") =>
       \A p \in OpsOf(cur) \ {op} :
         /\ status[p] \in {"Planned", "Applied"}
         /\ ApplyOrder[p] < ApplyOrder[op] => status[p] = "Applied"

\* A rollback is of what is in effect and of nothing else.
UndoingInv ==
  /\ pc \in {"undoJournal", "undoRecord"} =>
       ValidForExecution(cur) /\ InEffect \subseteq OpsOf(cur) /\ todo \subseteq OpsOf(cur)
  /\ pc = "clear" => InEffect \cap OpsOf(cur) = {} \/ \A t \in Txns \ {cur} : applMay[t] = {NoFile}

KInv == FilesOwn /\ OneInEffect /\ ApplyingInv /\ UndoingInv

LEMMA KInit == Init => KInv
<1> SUFFICES ASSUME Init PROVE KInv
  OBVIOUS
<1>1. InEffect = {}
  BY PlanAssumption DEF Init, InEffect, Scopes
<1> QED
  BY <1>1 DEF Init, KInv, FilesOwn, OneInEffect, ApplyingInv, UndoingInv, Executing, Durable

\* A process that stops leaves no more than the files may say, and no new setting.
LEMMA KQuiet ==
  ASSUME KInv, pc' = "idle", InEffect' \subseteq InEffect,
         \A t \in Txns : pendMay'[t] \subseteq pendMay[t] /\ applMay'[t] \subseteq applMay[t]
                         /\ pendMay'[t] # {} /\ applMay'[t] # {}
  PROVE  KInv'
<1>1. FilesOwn'
  BY DEF KInv, FilesOwn
<1>2. OneInEffect'
  <2> SUFFICES ASSUME NEW o \in InEffect'
               PROVE  /\ \A t \in Txns \ {TxnOf[o]} : pendMay'[t] = {NoFile}
                      /\ \/ NoFile \notin pendMay'[TxnOf[o]]
                         \/ \A t \in Txns \ {TxnOf[o]} : applMay'[t] = {NoFile}
    BY DEF OneInEffect
  <2>1. o \in InEffect /\ TxnOf[o] \in Txns
    BY PlanAssumption DEF InEffect
  <2>2. \A t \in Txns \ {TxnOf[o]} : pendMay'[t] = {NoFile}
    BY <2>1 DEF KInv, OneInEffect
  <2>3. CASE NoFile \notin pendMay[TxnOf[o]]
    BY <2>1, <2>2, <2>3
  <2>4. CASE \A t \in Txns \ {TxnOf[o]} : applMay[t] = {NoFile}
    BY <2>1, <2>2, <2>4
  <2> QED
    BY <2>1, <2>3, <2>4 DEF KInv, OneInEffect
<1>3. ApplyingInv' /\ UndoingInv'
  BY DEF ApplyingInv, UndoingInv, Executing
<1> QED
  BY <1>1, <1>2, <1>3 DEF KInv

\* Every step that ends in an idle process.
LEMMA KStops ==
  ASSUME IInv, IInv', KInv,
         \/ SyncClear \/ SyncClearRecord \/ Interrupt \/ PowerLoss
         \/ \E o \in Ops : RefuseIrreversible(o)
         \/ SyncJournal /\ cont = "idle"
  PROVE  KInv'
<1>1. pc' = "idle"
  BY DEF SyncClear, SyncClearRecord, Interrupt, PowerLoss, RefuseIrreversible, SyncJournal,
     GoTo, Idle
<1>2. InEffect' \subseteq InEffect
  <2>1. CASE PowerLoss
    <3>1. \A s \in Scopes : net'[s] = net[s] \/ net'[s] = Original
      BY <2>1 DEF PowerLoss, IInv, TypeOK
    <3>2. \A o \in Ops : Scope[o] \in Scopes /\ o # Original
      BY PlanAssumption DEF Scopes
    <3> QED
      BY <3>1, <3>2 DEF InEffect
  <2>2. CASE ~PowerLoss
    BY <2>2 DEF SyncClear, SyncClearRecord, Interrupt, RefuseIrreversible, SyncJournal, InEffect
  <2> QED
    BY <2>1, <2>2
<1>3. \A t \in Txns : pendMay'[t] # {} /\ applMay'[t] # {}
  BY DEF IInv, TypeOK
<1>4. \A t \in Txns : pendMay'[t] \subseteq pendMay[t] /\ applMay'[t] \subseteq applMay[t]
  <2>1. CASE PowerLoss
    <3>1. pend' \in AfterLoss(pend, pendMay) /\ appl' \in AfterLoss(appl, applMay)
      BY <2>1 DEF PowerLoss
    <3>2. \A t \in Txns : pend'[t] \in pendMay[t] /\ appl'[t] \in applMay[t]
      BY <3>1, LossChoosesAllowed DEF IInv, TypeOK
    <3> QED
      BY <2>1, <3>2 DEF PowerLoss
  <2>2. CASE ~PowerLoss
    BY <2>2 DEF SyncClear, SyncClearRecord, Interrupt, RefuseIrreversible, SyncJournal, Durable,
       disk, IInv, TypeOK
  <2> QED
    BY <2>1, <2>2
<1> QED
  BY <1>1, <1>2, <1>3, <1>4, KQuiet

LEMMA KStart ==
  ASSUME Disciplined, IInv, KInv, NEW t \in Txns, Start(t)
  PROVE  KInv'
<1>1. InEffect' = {} /\ UNCHANGED <<pendMay, applMay>>
  BY CleanStart DEF Start, InEffect, disk
<1>2. /\ pc' = "step" /\ cur' = t /\ status' = [o \in Ops |-> "Planned"]
      /\ ValidForExecution(t)
  BY DEF Start
<1>3. FilesOwn' /\ OneInEffect' /\ UndoingInv'
  BY <1>1, <1>2 DEF KInv, FilesOwn, OneInEffect, UndoingInv
<1>4. ApplyingInv'
  BY <1>2 DEF ApplyingInv, Executing, PossiblyApplied, OpsOf
<1> QED
  BY <1>3, <1>4 DEF KInv

LEMMA KBegin ==
  ASSUME IInv, KInv, NEW o \in Ops, BeginOperation(o)
  PROVE  KInv'
<1>1. /\ o \in OpsOf(cur) /\ \A p \in OpsOf(cur) : status[p] = "Planned" => ApplyOrder[o] <= ApplyOrder[p]
      /\ status' = [status EXCEPT ![o] = "Applying"] /\ status \in [Ops -> Statuses]
      /\ pc = "step" /\ pc' = "write" /\ cont' = "run" /\ op' = o
      /\ UNCHANGED <<net, pendMay, applMay, cur>>
  BY DEF BeginOperation, IsNext, Unstarted, disk, IInv, TypeOK
<1>2. FilesOwn' /\ OneInEffect' /\ UndoingInv'
  BY <1>1 DEF KInv, FilesOwn, OneInEffect, UndoingInv, InEffect
<1>3. \A p \in Ops : ApplyOrder[p] \in Nat
  BY PlanAssumption
<1>4. \A p \in OpsOf(cur) \ {o} : /\ status'[p] \in {"Planned", "Applied"}
                                  /\ ApplyOrder[p] < ApplyOrder[o] => status'[p] = "Applied"
  BY <1>1, <1>3 DEF KInv, ApplyingInv, OpsOf
<1>5. /\ PossiblyApplied(status') \subseteq OpsOf(cur) /\ ValidForExecution(cur)
      /\ \A f \in OpsOf(cur) : Kind[f] = "firewallOn" /\ status'[f] = "Applied" => net[Scope[f]] = f
  BY <1>1 DEF KInv, ApplyingInv, Executing, PossiblyApplied, OpsOf
<1>6. ApplyingInv'
  BY <1>1, <1>4, <1>5 DEF ApplyingInv
<1> QED
  BY <1>2, <1>6 DEF KInv

\* A journal or a record is put in place: it is the plan's own.
LEMMA KFiles ==
  ASSUME Disciplined, IInv, KInv, ReplaceJournal \/ RecordApplied
  PROVE  KInv'
<1>1. /\ pc \in Executing /\ cur \in Txns
      /\ InEffect \subseteq OpsOf(cur) /\ InEffect' = InEffect
      /\ CurrentJournal.status = status /\ CurrentJournal # NoFile
  BY JournalTyped, FileAssumption
     DEF IInv, TypeOK, ExecutionInv, Executing, ReplaceJournal, RecordApplied, InEffect, CurrentJournal
<1>2. /\ \A t \in Txns \ {cur} : pendMay'[t] = pendMay[t] /\ applMay'[t] = applMay[t]
      /\ pendMay'[cur] \subseteq pendMay[cur] \cup {CurrentJournal}
      /\ applMay'[cur] \subseteq applMay[cur] \cup {CurrentJournal}
      /\ UNCHANGED <<net, cur, op, status, cont>>
  BY DEF ReplaceJournal, RecordApplied, Put, MayPut, Disciplined, IInv, TypeOK, mem
<1>3. FilesOwn'
  BY <1>1, <1>2 DEF KInv, FilesOwn, ApplyingInv
<1>4. OneInEffect'
  BY <1>1, <1>2 DEF KInv, OneInEffect, OpsOf
<1>5. CASE ReplaceJournal
  <2>1. pc = "write" /\ pc' = "sync"
    BY <1>5 DEF ReplaceJournal
  <2> QED
    BY <1>1, <1>2, <1>3, <1>4, <2>1 DEF KInv, ApplyingInv, UndoingInv, Executing
<1>6. CASE RecordApplied
  <2>1. pc = "step" /\ pc' = "recordSync"
    BY <1>6 DEF RecordApplied
  <2> QED
    BY <1>1, <1>2, <1>3, <1>4, <2>1 DEF KInv, ApplyingInv, UndoingInv, Executing
<1> QED
  BY <1>5, <1>6

\* The other records go, and what is left is durable.
LEMMA KSyncs ==
  ASSUME Disciplined, IInv, KInv,
         \/ SyncJournal /\ cont # "idle"
         \/ SyncRecord \/ OthersCleared \/ \E t \in Txns : ClearOtherRecord(t)
  PROVE  KInv'
<1>1. /\ pc \in Executing /\ InEffect \subseteq OpsOf(cur) /\ InEffect' = InEffect
      /\ UNCHANGED <<net, cur, op, status, cont>>
  BY DEF IInv, TypeOK, ExecutionInv, Executing, SyncJournal, GoTo, SyncRecord, OthersCleared,
     ClearOtherRecord, InEffect, mem
<1>2. /\ \A t \in Txns : pendMay'[t] \subseteq pendMay[t] /\ pendMay'[t] \in {pendMay[t], {pend[t]}}
      /\ \A t \in Txns : applMay'[t] \subseteq applMay[t] \cup {NoFile} /\ applMay'[t] # {}
  <2>1. CASE SyncJournal
    BY <2>1 DEF SyncJournal, Durable, IInv, TypeOK
  <2>2. CASE SyncRecord \/ OthersCleared
    BY <2>2 DEF SyncRecord, OthersCleared, Durable, IInv, TypeOK
  <2>3. CASE \E t \in Txns : ClearOtherRecord(t)
    <3>1. PICK t \in Txns : ClearOtherRecord(t)
      BY <2>3
    <3>2. pendMay' = pendMay /\ applMay' = [applMay EXCEPT ![t] = @ \cup {NoFile}]
      BY <3>1 DEF ClearOtherRecord, MayPut, Disciplined
    <3> QED
      BY <3>2 DEF IInv, TypeOK
  <2> QED
    BY <2>1, <2>2, <2>3
<1>3. FilesOwn'
  BY <1>2 DEF KInv, FilesOwn
<1>4. OneInEffect'
  <2> SUFFICES ASSUME NEW o \in InEffect
               PROVE  /\ \A t \in Txns \ {cur} : pendMay'[t] = {NoFile}
                      /\ \/ NoFile \notin pendMay'[cur]
                         \/ \A t \in Txns \ {cur} : applMay'[t] = {NoFile}
    BY <1>1 DEF OneInEffect, OpsOf
  <2>1. TxnOf[o] = cur /\ cur \in Txns
    BY <1>1 DEF OpsOf, IInv, TypeOK
  <2>2. \A t \in Txns \ {cur} : pendMay'[t] = {NoFile}
    BY <1>2, <2>1 DEF KInv, OneInEffect, IInv, TypeOK
  <2>3. CASE NoFile \notin pendMay[cur]
    BY <1>2, <2>1, <2>2, <2>3
  <2>4. CASE \A t \in Txns \ {cur} : applMay[t] = {NoFile}
    BY <1>2, <2>2, <2>4
  <2> QED
    BY <2>1, <2>3, <2>4 DEF KInv, OneInEffect
<1>5. CASE SyncJournal /\ cont # "idle"
  <2>1. pc = "sync" /\ pc' = cont /\ cont \in {"step", "run"}
    BY <1>5 DEF SyncJournal, GoTo, IInv, TypeOK
  <2>2. ApplyingInv' /\ UndoingInv'
    BY <1>1, <2>1 DEF KInv, ApplyingInv, UndoingInv, Executing
  <2> QED
    BY <1>3, <1>4, <2>2 DEF KInv
<1>6. CASE SyncRecord \/ \E t \in Txns : ClearOtherRecord(t)
  <2>1. pc' = "clearOthers"
    BY <1>6 DEF SyncRecord, ClearOtherRecord
  <2>2. ApplyingInv' /\ UndoingInv'
    BY <1>1, <2>1 DEF KInv, ApplyingInv, UndoingInv, Executing
  <2> QED
    BY <1>3, <1>4, <2>2 DEF KInv
<1>7. CASE OthersCleared
  <2>1. pc' = "clear" /\ \A t \in Txns \ {cur} : applMay'[t] = {NoFile}
    BY <1>7 DEF OthersCleared, Durable
  <2>2. ApplyingInv' /\ UndoingInv'
    BY <1>1, <2>1 DEF ApplyingInv, UndoingInv, Executing
  <2> QED
    BY <1>3, <1>4, <2>2 DEF KInv
<1> QED
  BY <1>5, <1>6, <1>7

\* A firewall operation of an admitted plan shares its scope with no other.
LEMMA FirewallAlone ==
  ASSUME NEW t \in Txns, ValidForExecution(t),
         NEW f \in OpsOf(t), Kind[f] = "firewallOn", NEW o \in OpsOf(t), Scope[o] = Scope[f]
  PROVE  o = f
BY ScopeAssumption DEF ValidForExecution, OpsOf, FirewallKinds

\* The adapter is called with every earlier operation applied.
LEMMA KOperation ==
  ASSUME IInv, IInv', KInv, OperationOk \/ OperationFailed
  PROVE  KInv'
<1>1. /\ pc = "run" /\ pc' = "write" /\ cont' \in {"step", "idle"}
      /\ net' \in {net, [net EXCEPT ![Scope[op]] = op]}
      /\ status' \in {[status EXCEPT ![op] = "Applied"], [status EXCEPT ![op] = "Failed"]}
      /\ cont' = "step" => status' = [status EXCEPT ![op] = "Applied"]
      /\ UNCHANGED <<pendMay, applMay, cur, op>>
  BY DEF OperationOk, OperationFailed, disk
<1>2. /\ op \in Ops /\ op \in OpsOf(cur) /\ Scope[op] \in Scopes /\ cur \in Txns
      /\ status[op] = "Applying" /\ pc \in Executing /\ pc' \in Executing
      /\ \A t \in Txns : pendMay[t] = {pend[t]}
      /\ \A t \in Txns \ {cur} : pend[t] = NoFile
      /\ pend[cur] # NoFile
      /\ status \in [Ops -> Statuses] /\ net \in [Scopes -> Values]
  BY <1>1, JournalTyped, FileAssumption DEF IInv, TypeOK, ExecutionInv, OpsOf, Scopes, Executing
<1>3. InEffect' \subseteq OpsOf(cur)
  BY <1>1, <1>2 DEF IInv, ExecutionInv
<1>4. FilesOwn' /\ UndoingInv'
  BY <1>1 DEF KInv, FilesOwn, UndoingInv
<1>5. OneInEffect'
  BY <1>1, <1>2, <1>3 DEF OneInEffect, OpsOf
<1>6. ASSUME NEW f \in OpsOf(cur), Kind[f] = "firewallOn", status'[f] = "Applied"
      PROVE  net'[Scope[f]] = f
  <2>0. f \in Ops /\ Scope[f] \in Scopes /\ ValidForExecution(cur)
    BY <1>2 DEF OpsOf, Scopes, KInv, ApplyingInv
  <2>1. CASE f = op
    <3>1. OperationOk
      BY <1>2, <1>6, <2>1 DEF OperationFailed
    <3>2. Earlier(op) = {}
      <4> SUFFICES ASSUME NEW p \in Earlier(op) PROVE FALSE
        OBVIOUS
      <4>1. p \in OpsOf(cur) /\ status[p] = "Applied" /\ Scope[p] = Scope[op]
        BY DEF Earlier
      <4>2. p = op
        BY <1>2, <1>6, <2>0, <2>1, <4>1, FirewallAlone
      <4> QED
        BY <1>2, <4>1, <4>2
    <3> QED
      BY <1>2, <2>1, <3>1, <3>2 DEF OperationOk
  <2>2. CASE f # op
    <3>1. status[f] = "Applied"
      BY <1>1, <1>2, <1>6, <2>0, <2>2
    <3>2. net[Scope[f]] = f
      BY <1>2, <1>6, <3>1 DEF KInv, ApplyingInv
    <3>3. Scope[f] # Scope[op]
      BY <1>2, <1>6, <2>0, <2>2, FirewallAlone
    <3> QED
      BY <1>1, <1>2, <2>0, <3>2, <3>3
  <2> QED
    BY <2>1, <2>2
<1>7. PossiblyApplied(status') \subseteq OpsOf(cur) /\ ValidForExecution(cur)
  BY <1>1, <1>2 DEF KInv, ApplyingInv, PossiblyApplied
<1>8. \A p \in OpsOf(cur) \ {op} : status'[p] = status[p] /\ status[p] \in {"Planned", "Applied"}
  BY <1>1, <1>2 DEF KInv, ApplyingInv, OpsOf
<1>9. cont' = "step" => \A p \in OpsOf(cur) : status'[p] \in {"Planned", "Applied"}
  BY <1>1, <1>2, <1>8
<1>10. ApplyingInv'
  BY <1>1, <1>6, <1>7, <1>9 DEF ApplyingInv
<1> QED
  BY <1>4, <1>5, <1>10 DEF KInv

LEMMA KInterrupted ==
  ASSUME IInv, KInv, InterruptAfterOperation
  PROVE  KInv'
BY DEF KInv, FilesOwn, OneInEffect, ApplyingInv, UndoingInv, InEffect, InterruptAfterOperation,
   disk, Executing

\* The journal goes when nothing of its transaction is in effect, or its record is
\* the only one.
LEMMA KClear ==
  ASSUME Disciplined, IInv, KInv, ClearJournal \/ ClearRecord \/ RolledBack
  PROVE  KInv'
<1>1. /\ InEffect' = InEffect /\ cur \in Txns /\ cur' = cur
      /\ pc' \in {"clear", "clearSync", "clearRecord", "clearRecordSync"}
  BY DEF ClearJournal, ClearRecord, RolledBack, mem, InEffect, IInv, TypeOK
<1>2. /\ \A t \in Txns \ {cur} : pendMay'[t] = pendMay[t] /\ applMay'[t] = applMay[t]
      /\ pendMay'[cur] \in {pendMay[cur], pendMay[cur] \cup {NoFile}}
      /\ applMay'[cur] \in {applMay[cur], applMay[cur] \cup {NoFile}}
  BY DEF ClearJournal, ClearRecord, RolledBack, Put, MayPut, Disciplined, IInv, TypeOK, disk
<1>3. FilesOwn'
  BY <1>2 DEF KInv, FilesOwn
<1>4. pendMay'[cur] # pendMay[cur] => \A o \in InEffect :
        TxnOf[o] = cur => \A t \in Txns \ {cur} : applMay[t] = {NoFile}
  BY DEF ClearJournal, ClearRecord, RolledBack, KInv, UndoingInv, InEffect, OpsOf, disk
<1>5. OneInEffect'
  <2> SUFFICES ASSUME NEW o \in InEffect
               PROVE  /\ \A t \in Txns \ {TxnOf[o]} : pendMay'[t] = {NoFile}
                      /\ \/ NoFile \notin pendMay'[TxnOf[o]]
                         \/ \A t \in Txns \ {TxnOf[o]} : applMay'[t] = {NoFile}
    BY <1>1 DEF OneInEffect
  <2>1. TxnOf[o] \in Txns
    BY PlanAssumption DEF InEffect
  <2>2. \A t \in Txns \ {TxnOf[o]} : pendMay'[t] = {NoFile}
    BY <1>2 DEF KInv, OneInEffect
  <2>3. CASE TxnOf[o] = cur
    BY <1>2, <1>4, <2>2, <2>3 DEF KInv, OneInEffect
  <2>4. CASE TxnOf[o] # cur
    <3>1. CASE NoFile \notin pendMay[TxnOf[o]]
      BY <1>2, <2>1, <2>2, <2>4, <3>1
    <3>2. CASE \A t \in Txns \ {TxnOf[o]} : applMay[t] = {NoFile}
      BY <1>1, <1>2, <2>2, <2>4, <3>2
    <3> QED
      BY <3>1, <3>2 DEF KInv, OneInEffect
  <2> QED
    BY <2>3, <2>4
<1>6. ApplyingInv'
  BY <1>1 DEF ApplyingInv, Executing
<1>7. UndoingInv'
  <2>1. pc' = "clear" => InEffect \cap OpsOf(cur) = {}
    BY DEF ClearJournal, ClearRecord, RolledBack, IInv, RecoveryInv
  <2> QED
    BY <1>1, <2>1 DEF UndoingInv
<1> QED
  BY <1>3, <1>5, <1>6, <1>7 DEF KInv

\* What is loaded is of the transaction that is in effect, if one is.
LEMMA KLoad ==
  ASSUME IInv, KInv, NEW t \in Txns, LoadJournal(t) \/ LoadRecord(t)
  PROVE  KInv'
<1>1. /\ cur' = t /\ pc' \in {"undoJournal", "undoRecord"}
      /\ UNCHANGED <<net, pendMay, applMay>> /\ InEffect' = InEffect
  BY DEF LoadJournal, LoadRecord, Load, disk, InEffect
<1>2. PICK c \in (pendMay[t] \cup applMay[t]) \ {NoFile} : todo' = PossiblyApplied(c.status)
  BY DEF LoadJournal, LoadRecord, Load, IInv, TypeOK
<1>3. ValidForExecution(t) /\ todo' \subseteq OpsOf(t)
  BY <1>2 DEF KInv, FilesOwn
<1>4. ASSUME NEW o \in InEffect, TxnOf[o] # t PROVE FALSE
  <2>1. TxnOf[o] \in Txns /\ pendMay[t] = {NoFile} /\ pend[t] \in pendMay[t] /\ appl[t] \in applMay[t]
    BY <1>4, PlanAssumption DEF InEffect, KInv, OneInEffect, IInv, TypeOK
  <2>2. LoadRecord(t)
    BY <2>1 DEF LoadJournal, Load
  <2>3. NoFile \in pendMay[TxnOf[o]]
    BY <2>1, <2>2 DEF LoadRecord, IInv, TypeOK
  <2>4. applMay[t] = {NoFile}
    BY <1>4, <2>3 DEF KInv, OneInEffect
  <2> QED
    BY <2>1, <2>2, <2>4 DEF LoadRecord, Load
<1>5. InEffect \subseteq OpsOf(t)
  BY <1>4 DEF InEffect, OpsOf
<1>6. FilesOwn' /\ OneInEffect'
  BY <1>1 DEF KInv, FilesOwn, OneInEffect
<1>7. ApplyingInv' /\ UndoingInv'
  BY <1>1, <1>3, <1>5 DEF ApplyingInv, UndoingInv, Executing
<1> QED
  BY <1>6, <1>7 DEF KInv

LEMMA KUndo ==
  ASSUME IInv, KInv, NEW o \in Ops, UndoOperation(o)
  PROVE  KInv'
<1>1. /\ net' = [net EXCEPT ![Scope[o]] = Original]
      /\ todo' = todo \ {o} /\ pc \in {"undoJournal", "undoRecord"}
      /\ UNCHANGED <<pendMay, applMay, pc, cur>>
  BY DEF UndoOperation, IInv, Restores, disk
<1>2. InEffect' \subseteq InEffect
  BY <1>1, PlanAssumption DEF InEffect, IInv, TypeOK, Scopes
<1>3. FilesOwn' /\ OneInEffect'
  BY <1>1, <1>2 DEF KInv, FilesOwn, OneInEffect
<1>4. ApplyingInv' /\ UndoingInv'
  BY <1>1, <1>2 DEF KInv, ApplyingInv, UndoingInv, Executing
<1> QED
  BY <1>3, <1>4 DEF KInv

LEMMA KStep == ASSUME Disciplined, IInv, IInv', KInv, [Next]_vars PROVE KInv'
<1>1. CASE UNCHANGED vars
  BY <1>1 DEF KInv, FilesOwn, OneInEffect, ApplyingInv, UndoingInv, InEffect, vars, disk, mem
<1>2. CASE Execute
  <2>1. ASSUME NEW t \in Txns, Start(t) PROVE KInv'
    BY <2>1, KStart
  <2>2. ASSUME NEW o \in Ops, BeginOperation(o) PROVE KInv'
    BY <2>2, KBegin
  <2>3. ~RemoveTarget /\ ~RemoveRecordTarget
    BY DEF RemoveTarget, RemoveRecordTarget, Disciplined
  <2> QED
    BY <1>2, <2>1, <2>2, <2>3, KStops, KFiles, KSyncs, KOperation, KInterrupted DEF Execute
<1>3. CASE Recover
  BY <1>3, KLoad, KUndo, KClear, KStops DEF Recover
<1> QED
  BY <1>1, <1>2, <1>3, KStops, KClear DEF Next

-----------------------------------------------------------------------------
\* No step but a restart of the machine opens the kill switch.

\* A tunnel operation r of f's transaction and its firewall f, after a step.
LEMMA AppliedCovered ==
  ASSUME IInv, KInv, OperationOk \/ OperationFailed,
         NEW r \in Ops, Kind[r] \in {"route", "dns"}, net'[Scope[r]] = r,
         NEW f \in Ops, Kind[f] = "firewallOn", TxnOf[f] = TxnOf[r], net'[Scope[f]] # f
  PROVE  net[Scope[r]] = r /\ net[Scope[f]] # f
<1>1. /\ pc = "run"
      /\ net' = net \/ (Earlier(op) = {} /\ net' = [net EXCEPT ![Scope[op]] = op])
  BY DEF OperationOk, OperationFailed
<1>2. /\ op \in Ops /\ op \in OpsOf(cur) /\ Scope[op] \in Scopes /\ cur \in Txns
      /\ net \in [Scopes -> Values] /\ pc \in Executing /\ ValidForExecution(cur)
      /\ Scope[r] \in Scopes /\ Scope[f] \in Scopes
  BY <1>1 DEF IInv, TypeOK, ExecutionInv, OpsOf, Scopes, Executing, KInv, ApplyingInv
<1>3. CASE net' = net
  BY <1>3
<1>4. CASE Earlier(op) = {} /\ net' = [net EXCEPT ![Scope[op]] = op]
  <2>1. CASE r = op
    <3>1. f \in OpsOf(cur) /\ f # op /\ Scope[f] # Scope[op]
      BY <1>2, <2>1, FirewallAlone DEF OpsOf
    <3>2. ApplyOrder[f] < ApplyOrder[op]
      BY <1>2, <2>1, <3>1 DEF ValidForExecution
    <3>3. status[f] = "Applied"
      BY <1>1, <3>1, <3>2 DEF KInv, ApplyingInv
    <3>4. net[Scope[f]] = f
      BY <1>2, <3>1, <3>3 DEF KInv, ApplyingInv
    <3> QED
      BY <1>2, <1>4, <3>1, <3>4
  <2>2. CASE r # op
    <3>1. net[Scope[r]] = r
      BY <1>2, <1>4, <2>2
    <3>2. CASE net[Scope[f]] = f
      <4>1. Scope[f] = Scope[op] /\ f # op
        BY <1>2, <1>4, <3>2
      <4>2. f \in OpsOf(cur) /\ f \in PossiblyApplied(status)
        BY <1>2, <3>2 DEF IInv, ExecutionInv, InEffect
      <4>3. status[f] = "Applied"
        BY <1>1, <4>1, <4>2 DEF KInv, ApplyingInv, PossiblyApplied
      <4> QED
        BY <1>4, <4>1, <4>2, <4>3 DEF Earlier
    <3> QED
      BY <3>1, <3>2
  <2> QED
    BY <2>1, <2>2
<1> QED
  BY <1>1, <1>3, <1>4

LEMMA UndoneCovered ==
  ASSUME IInv, KInv, NEW o \in Ops, UndoOperation(o),
         NEW r \in Ops, Kind[r] \in {"route", "dns"}, net'[Scope[r]] = r,
         NEW f \in Ops, Kind[f] = "firewallOn", TxnOf[f] = TxnOf[r], net'[Scope[f]] # f
  PROVE  net[Scope[r]] = r /\ net[Scope[f]] # f
<1>1. /\ net' = [net EXCEPT ![Scope[o]] = Original] /\ IsLast(o, todo)
      /\ pc \in {"undoJournal", "undoRecord"}
      /\ net \in [Scopes -> Values]
      /\ Scope[o] \in Scopes /\ Scope[r] \in Scopes /\ Scope[f] \in Scopes
  BY DEF UndoOperation, IInv, Restores, TypeOK, Scopes
<1>2. net[Scope[r]] = r
  BY <1>1, PlanAssumption
<1>3. CASE net[Scope[f]] = f
  <2>1. Scope[o] = Scope[f]
    BY <1>1, <1>3
  <2>2. /\ ValidForExecution(cur) /\ InEffect \subseteq OpsOf(cur) /\ todo \subseteq OpsOf(cur)
        /\ InEffect \cap OpsOf(cur) \subseteq todo /\ cur \in Txns
    BY <1>1 DEF KInv, UndoingInv, IInv, RecoveryInv, TypeOK
  <2>3. r \in todo /\ f \in OpsOf(cur) /\ r \in OpsOf(cur) /\ o \in OpsOf(cur)
    BY <1>1, <1>2, <1>3, <2>2 DEF InEffect, IsLast
  <2>4. o = f
    BY <2>1, <2>2, <2>3, FirewallAlone
  <2>5. ApplyOrder[r] <= ApplyOrder[f] /\ ApplyOrder[f] < ApplyOrder[r]
    BY <1>1, <2>2, <2>3, <2>4 DEF IsLast, ValidForExecution
  <2> QED
    BY <2>5, PlanAssumption
<1> QED
  BY <1>2, <1>3

LEMMA ExposureStep ==
  ASSUME Disciplined, IInv, KInv, [Next]_vars, Exposed'
  PROVE  Exposed \/ PowerLoss
<1>1. PICK r \in Ops, f \in Ops :
        /\ Kind[r] \in {"route", "dns"} /\ net'[Scope[r]] = r
        /\ Kind[f] = "firewallOn" /\ TxnOf[f] = TxnOf[r] /\ net'[Scope[f]] # f
  BY DEF Exposed
<1>2. CASE net' = net
  BY <1>1, <1>2 DEF Exposed
<1>3. CASE OperationOk \/ OperationFailed
  BY <1>1, <1>3, AppliedCovered DEF Exposed
<1>4. CASE \E o \in Ops : UndoOperation(o)
  <2>1. PICK o \in Ops : UndoOperation(o)
    BY <1>4
  <2>2. net[Scope[r]] = r /\ net[Scope[f]] # f
    BY <1>1, <2>1, UndoneCovered
  <2> QED
    BY <1>1, <2>2 DEF Exposed
<1>5. net' = net \/ OperationOk \/ OperationFailed \/ PowerLoss \/ \E o \in Ops : UndoOperation(o)
  <2>1. UNCHANGED vars \/ Interrupt \/ ClearJournal \/ SyncClear => net' = net
    BY DEF vars, Interrupt, ClearJournal, SyncClear
  <2>2. Execute => OperationOk \/ OperationFailed \/ net' = net
    BY DEF Execute, Start, BeginOperation, RefuseIrreversible, RemoveTarget,
       ReplaceJournal, SyncJournal, InterruptAfterOperation, RemoveRecordTarget,
       RecordApplied, SyncRecord, ClearOtherRecord, OthersCleared
  <2>3. Recover => net' = net \/ \E o \in Ops : UndoOperation(o)
    BY DEF Recover, LoadJournal, LoadRecord, Load, RolledBack, ClearRecord, SyncClearRecord
  <2> QED
    BY <2>1, <2>2, <2>3 DEF Next
<1> QED
  BY <1>2, <1>3, <1>4, <1>5

-----------------------------------------------------------------------------
\* Theorems.

LEMMA InvariantHolds == ASSUME Disciplined PROVE Spec => []IInv
<1>1. IInv /\ [Next]_vars => IInv'
  BY NextStep
<1> QED
  BY InitInv, <1>1, PTL DEF Spec

\* The variables keep the shapes the code gives them, and what a process sees of
\* a file is always among what a power loss may leave of it, for every caller and
\* build.
THEOREM TypeCorrect == Spec => []TypeOK
<1>1. WInv => TypeOK
  BY DEF WInv
<1> QED
  BY WritesHold, <1>1, PTL

\* What an execution reports applied is still in force, for every caller and build.
THEOREM AppliedHolds == Spec => []AppliedInForce
<1>1. WInv => AppliedInForce
  BY DEF WInv
<1> QED
  BY WritesHold, <1>1, PTL

\* The adapter is called under a synced journal and the journal is dropped for a
\* record that covers it alone, for every caller and build.
THEOREM WritesInOrder == Spec => WriteOrder
<1> DEFINE Covering == \A s \in Scopes : pc = "run" /\ net'[s] \in Ops \ {net[s]} =>
                         AlwaysUndone(pendMay, net'[s])
           Alone == pc = "clear" /\ status[op] = "Applied" =>
                      \A t \in Txns : IF t = cur THEN OpsOf(t) \subseteq {o \in Ops : Undoes(appl[t], o)}
                                       ELSE appl[t] = NoFile
<1>1. ASSUME WInv, [Next]_vars PROVE [Covering /\ Alone]_vars
  <2>1. Alone
    BY <1>1 DEF WInv, OrderInv, Covered, OpsOf
  <2>2. ASSUME NEW s \in Scopes, pc = "run", net'[s] \in Ops \ {net[s]}
        PROVE  AlwaysUndone(pendMay, net'[s])
    <3>1. OperationOk \/ OperationFailed
      <4>1. ~UNCHANGED vars /\ ~Interrupt /\ ~ClearJournal /\ ~SyncClear
        BY <2>2 DEF vars, Interrupt, ClearJournal, SyncClear
      <4>2. Execute => OperationOk \/ OperationFailed
        BY <2>2 DEF Execute, Start, BeginOperation, RefuseIrreversible, RemoveTarget,
           ReplaceJournal, SyncJournal, InterruptAfterOperation, RemoveRecordTarget,
           RecordApplied, SyncRecord, ClearOtherRecord, OthersCleared
      <4>3. ~Recover
        BY <2>2 DEF Recover, LoadJournal, LoadRecord, Load, UndoOperation, RolledBack,
           ClearRecord, SyncClearRecord
      <4>4. ~PowerLoss
        BY <1>1, <2>2, PlanAssumption DEF PowerLoss, WInv, TypeOK
      <4> QED
        BY <1>1, <4>1, <4>2, <4>3, <4>4 DEF Next
    <3>2. net'[s] = op
      BY <1>1, <2>2, <3>1 DEF OperationOk, OperationFailed, WInv, TypeOK
    <3>3. /\ op \in OpsOf(cur) /\ status[op] = "Applying" /\ TxnOf[op] = cur
          /\ pendMay[cur] = {CurrentJournal}
      BY <1>1, <2>2 DEF WInv, OrderInv, OpsOf
    <3>4. Undoes(CurrentJournal, op)
      BY <1>1, <3>3, JournalTyped, FileAssumption
         DEF WInv, Undoes, PossiblyApplied, CurrentJournal, OpsOf
    <3> QED
      BY <3>2, <3>3, <3>4 DEF AlwaysUndone
  <2> QED
    BY <2>1, <2>2
<1>2. WInv /\ [Next]_vars => [Covering /\ Alone]_vars
  BY <1>1
<1> QED
  BY WritesHold, <1>2, PTL DEF Spec, WriteOrder

\* An operation in effect is listed by every version of its journal, or of its
\* applied record, that a crash may leave.
LEMMA InvImpliesUndo == IInv => UndoDurable
<1> SUFFICES ASSUME IInv, NEW o \in InEffect
             PROVE  AlwaysUndone(pendMay, o) \/ AlwaysUndone(applMay, o)
  BY DEF UndoDurable, Promised, InEffect
<1>1. TxnOf[o] \in Txns /\ o \in OpsOf(TxnOf[o])
  BY PlanAssumption DEF InEffect, OpsOf
<1>2. CASE NoFile \notin pendMay[TxnOf[o]]
  BY <1>1, <1>2 DEF IInv, Complete, AlwaysUndone, Undoes
<1>3. CASE NoFile \notin applMay[TxnOf[o]]
  BY <1>1, <1>3 DEF IInv, Complete, AlwaysUndone, Undoes
<1> QED
  BY <1>2, <1>3 DEF IInv, Present

\* Whatever the executor puts into effect is undone by what the next launch
\* reads, wherever execution, recovery or a clear is cut off.
THEOREM UndoSurvives == ASSUME Disciplined PROVE Spec => []UndoDurable
BY InvariantHolds, InvImpliesUndo, PTL

\* The start gate and the sync of the first journal make the adapter run with no
\* journal of another transaction, now or after a restart.
THEOREM GateHolds == ASSUME Disciplined PROVE Spec => []GateExclusive
<1>1. IInv => GateExclusive
  BY DEF IInv, TypeOK, ExecutionInv, GateExclusive, Executing
<1> QED
  BY InvariantHolds, <1>1, PTL

\* Whatever the plan, and wherever execution and recovery are cut off, no step but a
\* restart of the machine takes the firewall policy from around a tunnel route or
\* DNS setting.
THEOREM EnvelopeHolds == ASSUME Disciplined PROVE Spec => KillSwitchEnvelope
<1>1. IInv /\ IInv' /\ KInv /\ [Next]_vars => KInv'
  BY KStep
<1>2. IInv /\ KInv /\ [Next]_vars => [Exposed' => Exposed \/ PowerLoss]_vars
  BY ExposureStep
<1> QED
  BY InvariantHolds, KInit, <1>1, <1>2, PTL DEF Spec, KillSwitchEnvelope

-----------------------------------------------------------------------------
\* Refinement.

LEMMA InitRefines == Init => Log!Init
<1> SUFFICES ASSUME Init PROVE Log!Init
  OBVIOUS
<1>1. net = [s \in {Scope[o] : o \in Ops} |-> Original]
  BY DEF Init, Scopes
<1>2. Promised = {}
  BY PlanAssumption DEF Init, Promised, AlwaysUndone, Undoes, Durable
<1> QED
  BY <1>1, <1>2 DEF Log!Init

\* A step that leaves the network alone only rewrites promises.
LEMMA RelogStep ==
  ASSUME UndoDurable', UNCHANGED net
  PROVE  Log!Relog
<1>1. Promised' \subseteq Ops
  BY DEF Promised
<1>2. Log!InEffect = InEffect /\ InEffect' = InEffect
  BY DEF InEffect, Log!InEffect
<1> QED
  BY <1>1, <1>2 DEF Log!Relog, UndoDurable

\* A step that restores a scope keeps every remaining promise.
LEMMA RevertStep ==
  ASSUME UndoDurable', NEW o \in Ops, net' = [net EXCEPT ![Scope[o]] = Original]
  PROVE  Log!Revert(Scope[o])
<1>1. Promised' \subseteq Ops
  BY DEF Promised
<1>2. Log!InEffect' = InEffect'
  BY DEF InEffect, Log!InEffect
<1> QED
  BY <1>1, <1>2 DEF Log!Revert, UndoDurable

\* The adapter touches only what the synced journal promises to undo.
LEMMA MutateStep ==
  ASSUME IInv, OperationOk \/ OperationFailed, net' # net
  PROVE  op \in Ops /\ Log!Mutate(op)
<1>1. /\ pc = "run" /\ net' = [net EXCEPT ![Scope[op]] = op]
      /\ UNCHANGED <<pend, pendMay, appl, applMay>>
  BY DEF OperationOk, OperationFailed, disk
<1>2. /\ op \in OpsOf(cur) /\ status[op] = "Applying" /\ cur \in Txns
      /\ pendMay[cur] = {CurrentJournal} /\ CurrentJournal.status = status
      /\ CurrentJournal # NoFile
  BY <1>1, JournalTyped, FileAssumption DEF IInv, TypeOK, ExecutionInv, CurrentJournal
<1>3. op \in Promised
  BY <1>2 DEF Promised, AlwaysUndone, Undoes, PossiblyApplied, OpsOf
<1>4. Promised' = Promised
  BY <1>1 DEF Promised, AlwaysUndone
<1> QED
  BY <1>1, <1>2, <1>3, <1>4 DEF Log!Mutate, OpsOf

\* Every step is a step of the undo log.
LEMMA StepRefines ==
  ASSUME IInv, IInv', [Next]_vars, Disciplined
  PROVE  [Log!Next]_<<net, Promised>>
<1>0. UndoDurable'
  BY InvImpliesUndo, PTL
<1>1. CASE net' = net
  BY <1>0, <1>1, RelogStep DEF Log!Next
<1>2. CASE net' # net
  <2>1. CASE OperationOk \/ OperationFailed
    BY <1>2, <2>1, MutateStep DEF Log!Next
  <2>2. CASE \E o \in Ops : UndoOperation(o)
    <3>1. PICK o \in Ops : UndoOperation(o)
      BY <2>2
    <3>2. net' = [net EXCEPT ![Scope[o]] = Original]
      BY <3>1 DEF UndoOperation, IInv, Restores
    <3> QED
      BY <1>0, <3>2, RevertStep DEF Log!Next
  <2>3. CASE PowerLoss
    <3>1. PICK o \in Ops : net' = [net EXCEPT ![Scope[o]] = Original]
      BY <1>2, <2>3 DEF PowerLoss, Scopes
    <3> QED
      BY <1>0, <3>1, RevertStep DEF Log!Next
  <2> QED
    <3>1. ~UNCHANGED vars /\ ~Interrupt /\ ~ClearJournal /\ ~SyncClear
      BY <1>2 DEF vars, Interrupt, ClearJournal, SyncClear
    <3>2. Execute => OperationOk \/ OperationFailed
      BY <1>2 DEF Execute, Start, BeginOperation, RefuseIrreversible, RemoveTarget,
         ReplaceJournal, SyncJournal, InterruptAfterOperation, RemoveRecordTarget,
         RecordApplied, SyncRecord, ClearOtherRecord, OthersCleared
    <3>3. Recover => \E o \in Ops : UndoOperation(o)
      BY <1>2 DEF Recover, LoadJournal, LoadRecord, Load, RolledBack, ClearRecord,
         SyncClearRecord
    <3> QED
      BY <2>1, <2>2, <2>3, <3>1, <3>2, <3>3 DEF Next
<1> QED
  BY <1>1, <1>2

\* The executor, the store and recovery implement the undo log: the network
\* changes only under a promise that no crash can take back.
THEOREM Refinement == ASSUME Disciplined PROVE Spec => ImplementsUndoLog
<1>1. IInv /\ IInv' /\ [Next]_vars => [Log!Next]_<<net, Promised>>
  BY StepRefines
<1> QED
  BY InvariantHolds, InitRefines, <1>1, PTL DEF Spec, ImplementsUndoLog, Log!Spec
=============================================================================
