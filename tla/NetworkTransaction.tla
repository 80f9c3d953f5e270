------------------------- MODULE NetworkTransaction -------------------------
(***************************************************************************)
(* The write-ahead execution of network transactions: the executor of      *)
(* network_executor.rs, the recovery-journal store it writes to            *)
(* (recovery_journal.rs) and the plan rules it admits (network_state.rs),  *)
(* over a file system and a network that survive the process.              *)
(*                                                                         *)
(* An operation is identified by its transaction and its key, so that the  *)
(* value in effect in a scope ("Dns", "Firewall", ...) is the operation    *)
(* that set it, or Original when no transaction did.  JSON, file names,    *)
(* permissions and temp files are abstracted: a temp file is synced before *)
(* it is renamed and no loader reads one, so only the rename is visible.   *)
(*                                                                         *)
(* A stat is assumed not to fail.  exists() and is_file() report a failed  *)
(* one as absence, so that a loader then overlooks a journal (302, 314:    *)
(* JournalStore has that) and clear_other_applied_states passes over a     *)
(* record (439, 447), neither with an error.                               *)
(***************************************************************************)
EXTENDS Naturals, FiniteSets

CONSTANTS
  Txns,           \* transaction ids
  Ops,            \* the operations of all transactions
  TxnOf,          \* [Ops -> Txns]
  ApplyOrder,     \* [Ops -> Nat]: NetworkOperation.apply_order
  Kind,           \* [Ops -> Kinds]: what the operation mutates
  Scope,          \* [Ops -> Scopes]: idempotency_scope()
  Setting,        \* [Ops -> values]: the payload retry_effect_against compares
  Reversible,     \* operations whose rollback plan carries an inverse
  Original,       \* the value of a scope that no transaction has set
  NoFile,         \* the content of a path that does not exist
  Unix,           \* TRUE: rename replaces, directories are synced (cfg(unix))
  RetriesPending, \* a caller may execute a transaction whose journal is pending
  StacksApplied   \* a caller may execute while an applied record is in place

Kinds == {"route", "dns", "address", "firewallOn", "firewallOff",
          "restoreFirewall", "other"}
FirewallKinds == {"firewallOn", "firewallOff", "restoreFirewall"}
Scopes == {Scope[o] : o \in Ops}
OpsOf(t) == {o \in Ops : TxnOf[o] = t}

ASSUME PlanAssumption ==
  /\ Txns # {}
  /\ TxnOf \in [Ops -> Txns]
  /\ ApplyOrder \in [Ops -> Nat]
  /\ Kind \in [Ops -> Kinds]
  /\ DOMAIN Scope = Ops
  /\ DOMAIN Setting = Ops
  /\ Reversible \subseteq Ops
  /\ Original \notin Ops
  /\ \A t \in Txns : IsFiniteSet(OpsOf(t)) /\ OpsOf(t) # {}

\* Firewall settings have a scope of their own (idempotency_scope).
ASSUME ScopeAssumption ==
  \A o, p \in Ops :
    Scope[o] = Scope[p] /\ Kind[o] \in FirewallKinds => Kind[p] \in FirewallKinds

ASSUME BuildAssumption ==
  {Unix, RetriesPending, StacksApplied} \subseteq BOOLEAN

Values == Ops \cup {Original}
Statuses == {"Planned", "Applying", "Applied", "Failed"}

\* A journal or an applied record: the status of every operation and the value
\* its inverse restores.
Files == [status : [Ops -> Statuses], undo : [Ops -> Values]]
ASSUME FileAssumption == NoFile \notin Files
Contents == Files \cup {NoFile}

VARIABLES
  net,      \* [Scopes -> Values]: what is in effect on the machine
  pend,     \* [Txns -> Contents]: the pending journals as a process sees them
  pendMay,  \* [Txns -> SUBSET Contents]: what a power loss may leave of them
  appl,     \* [Txns -> Contents]: the applied records
  applMay,  \* [Txns -> SUBSET Contents]: what a power loss may leave of them
  pc,       \* the step the helper process is at
  cur,      \* the transaction it works on (meaningless when pc = "idle")
  op,       \* the operation it is applying
  status,   \* state.operations[..].status in memory
  undo,     \* the inverses planned from the snapshot
  cont,     \* where to go once the journal write is durable
  todo      \* rollback steps still to run

disk == <<pend, pendMay, appl, applMay>>
mem == <<cur, op, status, undo, cont, todo>>
vars == <<net, disk, pc, mem>>

Steps == {"idle", "step", "write", "sync", "run", "recordSync", "clearOthers",
          "clear", "clearSync", "undoJournal", "undoRecord", "clearRecord",
          "clearRecordSync"}

-----------------------------------------------------------------------------
\* Plans.

\* validate_for_execution: unique orders, and a plan that turns the kill switch
\* on has no other firewall operation and no route or DNS operation before it.
ValidForExecution(t) ==
  /\ \A o, p \in OpsOf(t) : ApplyOrder[o] = ApplyOrder[p] => o = p
  /\ \A f \in OpsOf(t) : Kind[f] = "firewallOn" =>
       \A o \in OpsOf(t) :
         /\ Kind[o] \in FirewallKinds => o = f
         /\ Kind[o] \in {"route", "dns"} => ApplyOrder[f] < ApplyOrder[o]

\* The inverse the planner pairs with an operation: the value the snapshot
\* holds, except that a tunnel address is always removed.
Inverse(o) == IF Kind[o] = "address" THEN Original ELSE net[Scope[o]]

\* Mutant: only operations known to be applied are rolled back.
PossiblyApplied_Sure(s) == {o \in Ops : s[o] = "Applied"}

\* rollback_steps_reverse_order keeps the operations that may have been applied.
PossiblyApplied(s) == {o \in Ops : s[o] \in {"Applying", "Applied", "Failed"}}

IsNext(o, S) == o \in S /\ \A p \in S : ApplyOrder[o] <= ApplyOrder[p]
IsLast(o, S) == o \in S /\ \A p \in S : ApplyOrder[p] <= ApplyOrder[o]

Unstarted == {o \in OpsOf(cur) : status[o] = "Planned"}

\* Mutant: the wrapper does not remember the scopes it has set.
Earlier_Forgotten(o) == {}

\* Entries of applied_by_scope made earlier in this execution.
Earlier(o) == {p \in OpsOf(cur) : status[p] = "Applied" /\ Scope[p] = Scope[o]}

-----------------------------------------------------------------------------
\* The file system.

Durable(f) == [t \in Txns |-> {f[t]}]
Put(file, t, c) == [file EXCEPT ![t] = c]

\* A directory entry that changes is durable once sync_parent_dir has run.  That
\* is a no-op on Windows, where an entry is taken to be durable at once (the file
\* system journals its metadata).
MayPut(may, t, c) ==
  IF Unix THEN [may EXCEPT ![t] = @ \cup {c}] ELSE [may EXCEPT ![t] = {c}]

\* The process stops using its memory: it returned, failed or died.
Idle ==
  /\ pc' = "idle"
  /\ cur' = CHOOSE t \in Txns : TRUE
  /\ op' = CHOOSE o \in Ops : TRUE
  /\ status' = [o \in Ops |-> "Planned"]
  /\ undo' = [o \in Ops |-> Original]
  /\ cont' = "idle"
  /\ todo' = {}

GoTo(step) == IF step = "idle" THEN Idle ELSE pc' = step /\ UNCHANGED mem

Init ==
  /\ net = [s \in Scopes |-> Original]
  /\ pend = [t \in Txns |-> NoFile] /\ pendMay = Durable(pend)
  /\ appl = [t \in Txns |-> NoFile] /\ applMay = Durable(appl)
  /\ pc = "idle"
  /\ cur = CHOOSE t \in Txns : TRUE
  /\ op = CHOOSE o \in Ops : TRUE
  /\ status = [o \in Ops |-> "Planned"]
  /\ undo = [o \in Ops |-> Original]
  /\ cont = "idle"
  /\ todo = {}

-----------------------------------------------------------------------------
\* Execution of a transaction.

\* What a caller of execute() promises beyond the gate: nothing when both
\* constants are TRUE.
CallerAllows(t) ==
  /\ RetriesPending \/ pend[t] = NoFile
  /\ StacksApplied \/ \A u \in Txns : appl[u] = NoFile

\* Mutant: the journals of other transactions are not counted.
GateOpen_Unchecked(t) == TRUE

\* ensure_can_start_transaction: no other transaction has a pending journal.
GateOpen(t) == \A u \in Txns \ {t} : pend[u] = NoFile

\* SerializedNetworkTransactionExecutor::execute: the plan is validated, then
\* the start gate is asked; a refusal by either changes nothing.
Start(t) ==
  /\ pc = "idle"
  /\ CallerAllows(t)
  /\ ValidForExecution(t)
  /\ GateOpen(t)
  /\ pc' = "step"
  /\ cur' = t
  /\ status' = [o \in Ops |-> "Planned"]
  /\ undo' = [o \in Ops |-> Inverse(o)]
  /\ UNCHANGED <<net, disk, op, cont, todo>>

\* Mutant: the operation is executed before its journal is written.
BeginOperation_NoPrewrite(o) ==
  /\ pc = "step"
  /\ IsNext(o, Unstarted)
  /\ o \in Reversible
  /\ op' = o
  /\ status' = [status EXCEPT ![o] = "Applying"]
  /\ cont' = "run"
  /\ pc' = "run"
  /\ UNCHANGED <<net, disk, cur, undo, todo>>

\* The loop body up to the journal write that precedes the mutation.
BeginOperation(o) ==
  /\ pc = "step"
  /\ IsNext(o, Unstarted)
  /\ o \in Reversible
  /\ op' = o
  /\ status' = [status EXCEPT ![o] = "Applying"]
  /\ cont' = "run"
  /\ pc' = "write"
  /\ UNCHANGED <<net, disk, cur, undo, todo>>

\* A started operation without rollback metadata fails journal.validate().
RefuseIrreversible(o) ==
  /\ pc = "step"
  /\ IsNext(o, Unstarted)
  /\ o \notin Reversible
  /\ Idle
  /\ UNCHANGED <<net, disk>>

CurrentJournal == [status |-> status, undo |-> undo]

\* replace_file on Windows removes the target before it renames.
RemoveTarget ==
  /\ pc = "write"
  /\ ~Unix /\ pend[cur] # NoFile
  /\ pend' = Put(pend, cur, NoFile)
  /\ pendMay' = MayPut(pendMay, cur, NoFile)
  /\ UNCHANGED <<net, appl, applMay, pc, mem>>

ReplaceJournal ==
  /\ pc = "write"
  /\ Unix \/ pend[cur] = NoFile
  /\ pend' = Put(pend, cur, CurrentJournal)
  /\ pendMay' = MayPut(pendMay, cur, CurrentJournal)
  /\ pc' = "sync"
  /\ UNCHANGED <<net, appl, applMay, mem>>

SyncJournal ==
  /\ pc = "sync"
  /\ pendMay' = Durable(pend)
  /\ GoTo(cont)
  /\ UNCHANGED <<net, pend, appl, applMay>>

\* IdempotentNetworkOperationExecutor::execute and the adapter behind it.  A
\* repeat of a setting made earlier in this execution calls no adapter.
OperationOk ==
  /\ pc = "run"
  /\ \A p \in Earlier(op) : Setting[p] = Setting[op]
  /\ net' = IF Earlier(op) = {} THEN [net EXCEPT ![Scope[op]] = op] ELSE net
  /\ status' = [status EXCEPT ![op] = "Applied"]
  /\ cont' = "step"
  /\ pc' = "write"
  /\ UNCHANGED <<disk, cur, op, undo, todo>>

\* A conflict with an earlier setting, or an adapter error: the adapter may have
\* changed the machine before it failed.
OperationFailed ==
  /\ pc = "run"
  /\ Earlier(op) # {} => \E p \in Earlier(op) : Setting[p] # Setting[op]
  /\ \/ net' = net
     \/ Earlier(op) = {} /\ net' = [net EXCEPT ![Scope[op]] = op]
  /\ status' = [status EXCEPT ![op] = "Failed"]
  /\ cont' = "idle"
  /\ pc' = "write"
  /\ UNCHANGED <<disk, cur, op, undo, todo>>

\* interruption_after: the journal is written once more and execution stops.
InterruptAfterOperation ==
  /\ pc = "step"
  /\ op \in OpsOf(cur) /\ status[op] = "Applied"
  /\ cont' = "idle"
  /\ pc' = "write"
  /\ UNCHANGED <<net, disk, cur, op, status, undo, todo>>

\* Every operation is applied: write_applied_state, first half.
RemoveRecordTarget ==
  /\ pc = "step" /\ Unstarted = {}
  /\ ~Unix /\ appl[cur] # NoFile
  /\ appl' = Put(appl, cur, NoFile)
  /\ applMay' = MayPut(applMay, cur, NoFile)
  /\ UNCHANGED <<net, pend, pendMay, pc, mem>>

RecordApplied ==
  /\ pc = "step" /\ Unstarted = {}
  /\ Unix \/ appl[cur] = NoFile
  /\ appl' = Put(appl, cur, CurrentJournal)
  /\ applMay' = MayPut(applMay, cur, CurrentJournal)
  /\ pc' = "recordSync"
  /\ UNCHANGED <<net, pend, pendMay, mem>>

SyncRecord ==
  /\ pc = "recordSync"
  /\ applMay' = Durable(appl)
  /\ pc' = "clearOthers"
  /\ UNCHANGED <<net, pend, pendMay, appl, mem>>

\* clear_other_applied_states removes the records one by one, then syncs; it
\* returns early only when a removal fails.
ClearOtherRecord(t) ==
  /\ pc = "clearOthers"
  /\ t # cur /\ appl[t] # NoFile
  /\ appl' = Put(appl, t, NoFile)
  /\ applMay' = MayPut(applMay, t, NoFile)
  /\ UNCHANGED <<net, pend, pendMay, pc, mem>>

\* Mutant: a record that cannot be removed is passed over.
OthersCleared_Lenient ==
  /\ pc = "clearOthers"
  /\ applMay' = Durable(appl)
  /\ pc' = "clear"
  /\ UNCHANGED <<net, pend, pendMay, appl, mem>>

OthersCleared ==
  /\ pc = "clearOthers"
  /\ \A t \in Txns \ {cur} : appl[t] = NoFile
  /\ applMay' = Durable(appl)
  /\ pc' = "clear"
  /\ UNCHANGED <<net, pend, pendMay, appl, mem>>

\* clear_pending: called by the executor and, after a rollback, by recovery.
ClearJournal ==
  /\ pc = "clear"
  /\ pend' = Put(pend, cur, NoFile)
  /\ pendMay' = MayPut(pendMay, cur, NoFile)
  /\ pc' = "clearSync"
  /\ UNCHANGED <<net, appl, applMay, mem>>

SyncClear ==
  /\ pc = "clearSync"
  /\ pendMay' = Durable(pend)
  /\ Idle
  /\ UNCHANGED <<net, pend, appl, applMay>>

-----------------------------------------------------------------------------
\* Recovery: src/ supplies the loaders, the rollback steps and the clears; the
\* loop that runs the inverses is the caller's (external), in the order given.

Load(file, t, next) ==
  /\ pc = "idle"
  /\ file[t] # NoFile
  /\ cur' = t
  /\ undo' = file[t].undo
  /\ todo' = PossiblyApplied(file[t].status)
  /\ pc' = next
  /\ UNCHANGED <<net, disk, op, status, cont>>

\* Mutant: the journal waits for the applied record to be rolled back.
LoadJournal_AfterRecord(t) ==
  /\ \A u \in Txns : appl[u] = NoFile
  /\ Load(pend, t, "undoJournal")

LoadJournal(t) == Load(pend, t, "undoJournal")

\* An applied record is rolled back on disconnect, or at start-up when no
\* journal is pending ("recovery may prefer the pending journal").
LoadRecord(t) ==
  /\ \A u \in Txns : pend[u] = NoFile
  /\ Load(appl, t, "undoRecord")

UndoOperation(o) ==
  /\ pc \in {"undoJournal", "undoRecord"}
  /\ IsLast(o, todo)
  /\ net' = [net EXCEPT ![Scope[o]] = undo[o]]
  /\ todo' = todo \ {o}
  /\ UNCHANGED <<disk, pc, cur, op, status, undo, cont>>

RolledBack ==
  /\ todo = {}
  /\ \/ pc = "undoJournal" /\ pc' = "clear"
     \/ pc = "undoRecord" /\ pc' = "clearRecord"
  /\ UNCHANGED <<net, disk, mem>>

\* clear_applied_state.
ClearRecord ==
  /\ pc = "clearRecord"
  /\ appl' = Put(appl, cur, NoFile)
  /\ applMay' = MayPut(applMay, cur, NoFile)
  /\ pc' = "clearRecordSync"
  /\ UNCHANGED <<net, pend, pendMay, mem>>

SyncClearRecord ==
  /\ pc = "clearRecordSync"
  /\ applMay' = Durable(appl)
  /\ Idle
  /\ UNCHANGED <<net, pend, pendMay, appl>>

-----------------------------------------------------------------------------
\* Faults.

\* The process dies, a journal or rollback step returns an error (what a call
\* reports is passed to the caller by `?`; stats are assumed not to fail, see
\* above), or the adapter reports an interruption.
Interrupt ==
  /\ pc # "idle"
  /\ Idle
  /\ UNCHANGED <<net, disk>>

\* What the files of a directory may be after a restart of the machine.
AfterLoss(file, may) ==
  LET unsynced == {t \in Txns : may[t] # {file[t]}}
  IN  {[t \in Txns |-> IF t \in unsynced THEN f[t] ELSE file[t]] :
         f \in {g \in [unsynced -> UNION {may[t] : t \in unsynced}] :
                  \A t \in unsynced : g[t] \in may[t]}}

\* The machine restarts: unsynced directory entries are decided one by one, and
\* a setting in effect may be gone (several, when it restarts several times).
PowerLoss ==
  /\ Idle
  /\ \/ UNCHANGED net
     \/ \E s \in {r \in Scopes : net[r] # Original} :
          net' = [net EXCEPT ![s] = Original]
  /\ pend' \in AfterLoss(pend, pendMay)
  /\ appl' \in AfterLoss(appl, applMay)
  /\ pendMay' = [t \in Txns |-> {pend'[t]}]
  /\ applMay' = [t \in Txns |-> {appl'[t]}]

Execute ==
  \/ \E t \in Txns : Start(t)
  \/ \E o \in Ops : BeginOperation(o) \/ RefuseIrreversible(o)
  \/ RemoveTarget \/ ReplaceJournal \/ SyncJournal
  \/ OperationOk \/ OperationFailed \/ InterruptAfterOperation
  \/ RemoveRecordTarget \/ RecordApplied \/ SyncRecord
  \/ \E t \in Txns : ClearOtherRecord(t)
  \/ OthersCleared

Recover ==
  \/ \E t \in Txns : LoadJournal(t) \/ LoadRecord(t)
  \/ \E o \in Ops : UndoOperation(o)
  \/ RolledBack \/ ClearRecord \/ SyncClearRecord

Next ==
  \/ Execute
  \/ ClearJournal \/ SyncClear
  \/ Recover
  \/ Interrupt \/ PowerLoss

Spec == Init /\ [][Next]_vars

-----------------------------------------------------------------------------
\* Fairness: the executor is a loop without waits, and a caller keeps recovering
\* while there is a journal.  Nothing is assumed of Start, of disconnecting, of
\* the adapter's verdict, or of faults.
Fairness ==
  /\ WF_vars(\/ \E o \in Ops : BeginOperation(o) \/ RefuseIrreversible(o)
             \/ RemoveTarget \/ ReplaceJournal \/ SyncJournal
             \/ OperationOk \/ OperationFailed
             \/ RemoveRecordTarget \/ RecordApplied \/ SyncRecord
             \/ \E t \in Txns : ClearOtherRecord(t)
             \/ OthersCleared \/ ClearJournal \/ SyncClear)
  /\ WF_vars(\/ \E t \in Txns : LoadJournal(t)
             \/ \E o \in Ops : UndoOperation(o)
             \/ RolledBack \/ ClearRecord \/ SyncClearRecord)

FairSpec == Spec /\ Fairness

-----------------------------------------------------------------------------
\* Properties.

\* Every variable has the shape the code gives it, and what a process sees of a
\* file is among what a power loss may leave of it.
TypeOK ==
  /\ net \in [Scopes -> Values]
  /\ pend \in [Txns -> Contents] /\ appl \in [Txns -> Contents]
  /\ pendMay \in [Txns -> SUBSET Contents]
  /\ applMay \in [Txns -> SUBSET Contents]
  /\ \A t \in Txns : pend[t] \in pendMay[t] /\ appl[t] \in applMay[t]
  /\ pc \in Steps /\ cont \in {"idle", "step", "run"}
  /\ cur \in Txns /\ op \in Ops
  /\ status \in [Ops -> Statuses] /\ undo \in [Ops -> Values]
  /\ todo \subseteq Ops

Undoes(c, o) == c # NoFile /\ o \in PossiblyApplied(c.status)
AlwaysUndone(may, o) == \A c \in may[TxnOf[o]] : Undoes(c, o)
InEffect == {o \in Ops : net[Scope[o]] = o}

\* Operations whose undoing is on stable storage: whatever a power loss leaves
\* of the journal, or of the applied record, has them among its rollback steps.
Promised == {o \in Ops : AlwaysUndone(pendMay, o) \/ AlwaysUndone(applMay, o)}

\* Write-ahead: whatever is in effect on the machine will be undone by what the
\* next launch reads, at every instant, through every crash and restart
\* (SPEC_EN.md FR-004: the journal and the applied record).
UndoDurable == InEffect \subseteq Promised

\* The same for a process that dies while the machine stays up.
UndoVisible ==
  \A o \in InEffect : Undoes(pend[TxnOf[o]], o) \/ Undoes(appl[TxnOf[o]], o)

\* A tunnel route or DNS setting of a kill-switch transaction is in effect
\* without its firewall policy.
Exposed ==
  \E o \in Ops :
    /\ Kind[o] \in {"route", "dns"} /\ net[Scope[o]] = o
    /\ \E f \in Ops : /\ Kind[f] = "firewallOn" /\ TxnOf[f] = TxnOf[o]
                      /\ net[Scope[f]] # f

\* Neither executing nor rolling back, with failures and restarts anywhere,
\* opens the kill switch around a tunnel route or DNS setting; only a restart
\* of the machine, which drops settings in no order, can.
KillSwitchEnvelope == [][Exposed' => Exposed \/ PowerLoss]_vars

\* No operation reported applied in this execution has had its setting replaced
\* by a later one: a repeat changes nothing and a conflict is refused.
AppliedInForce ==
  \A o \in Ops : status[o] = "Applied" =>
    net[Scope[o]] \in Ops /\ Setting[net[Scope[o]]] = Setting[o]

\* When the adapter is called, no journal of another transaction exists, nor can
\* one come back: the gate's look at the directory is made good by the sync of
\* the first journal write.
GateExclusive ==
  pc = "run" => \A t \in Txns \ {cur} :
                  pendMay[t] = {NoFile}

\* The writes of an execution come in order: a setting comes into effect only after
\* a journal that would undo it whatever a crash leaves, and that journal is dropped
\* only when the applied record has taken its place and every other record is gone.
WriteOrder ==
  [][/\ \A s \in Scopes : pc = "run" /\ net'[s] \in Ops \ {net[s]} =>
          AlwaysUndone(pendMay, net'[s])
     /\ pc = "clear" /\ status[op] = "Applied" =>
          \A t \in Txns : IF t = cur THEN OpsOf(t) \subseteq {o \in Ops : Undoes(appl[t], o)}
                           ELSE appl[t] = NoFile]_vars

\* Once faults stop, every journal that is pending is eventually resolved: no
\* new transaction gets in the way of its recovery.
Resolved ==
  <>[][~Interrupt /\ ~PowerLoss]_vars
    => \A t \in Txns : []<>(pend[t] = NoFile)

\* Seen from outside, the executor, the store and recovery are an undo log: the
\* network changes only under a promise that no crash can take back.
Log == INSTANCE UndoLog WITH promised <- Promised

ImplementsUndoLog == Log!Spec
=============================================================================
