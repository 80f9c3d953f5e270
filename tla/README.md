# NovaRay, specified in TLA+

This directory is a verification development of NovaRay (`src/`, Rust): TLA+
modules translated from the code that decides what the program promises,
configurations that check them with TLC, and theorems checked with TLAPS. File
names below are those of `src/src/` unless a path is given.

Contents: 1 the system, 2 the plan, 3 the modules and the code, 4 the runs, their
bounds and fairness, 5 what is proved, 6 where code and documents disagree, 7 what
is not modelled, 8 how to run it all.

## 1. The system

NovaRay starts a proxy engine (Xray, sing-box) from a share link, and prepares the
machinery for a privileged VPN mode: a helper process, installed on macOS through
launchd, that mutates the system network on behalf of an unprivileged client.

| Component (files) | State it keeps | Operations | What makes it hard |
|---|---|---|---|
| Network transaction executor (`network_executor.rs`) | operations with a status, the snapshot | `execute`, one at a time by `&mut self`; the idempotency wrapper around the platform adapter | the process dies or power is lost between any write and any adapter call; adapters fail after their effect |
| Recovery journal and applied-record store (`recovery_journal.rs`) | one journal and one record per transaction, on disk | write, replace, clear, load, quarantine | a rename is visible before it is durable; on Windows it is not atomic |
| Network state and plan rules (`network_state.rs`) | none: data with rules | admission, rollback order, idempotency scopes | order of rollback under the kill switch |
| Connect planner (`network_transaction.rs`) | none | plan of a connection with or without the kill switch | inverses taken from a snapshot |
| Endpoint revocation (`endpoint_revocation.rs`) and its diagnostics (`revocation_diagnostics.rs`) | what of the operation was attempted; a bounded buffer | ten stages, then containment, then recording | the machine changes between a look and an action; adapters lie, fail late, panic |
| Proxy service (`engine.rs`), process supervisor and worker (`core.rs`), CLI (`cli.rs`) | the watch channel of the state, `active_pid`, the command channel, the runtime config file | start, stop, cancel, drop; the worker's probe, serve and terminate | two tasks, a child and timers; cancellation at any await; children that do not die |
| Endpoint bootstrap (`endpoint_bootstrap.rs`) | the request, its deadline, the choice | `begin`, `revalidate`, `accept_response`, `resolution_failed`, `take_endpoint` | answers that are late, repeated or expire; observations made earlier than they are used |
| Connection state machine (`connection.rs`) | state and operation id of the client | `execute`, `observe_helper_state` | answers about other operations |
| Platform contract, admission, helper skeleton (`platform_contract.rs`, `helper_runtime_admission.rs`, `platform_helper.rs`) | the session and its last sequence number | admit, check the right, accept or refuse a command | replay, gaps, sessions that overlap, the last sequence number |
| Helper installation (`macos_helper_install.rs`) | the machine: helper, property list, job | install with rollback, uninstall | every call fails or is the last one before a kill; the source is swapped |
| Runtime right (`helper_runtime_right.rs`, `helper_runtime_right_execution.rs`, `macos_runtime_right.rs`) | an entry of the authorization database | install with readback and compensation, uninstall with readback | other writers; errors after effects |
| Native right experiment (`right_experiment/`) | a manifest of intents and readings, a lock, a deadline | one round trip: create, verify, remove, verify | blocking native calls, a watchdog that exits the process, a second run in the directory |
| Share-link parser (`parser.rs`), profiles (`config.rs`), generators (`xray_generator.rs`, `sing_box_generator.rs`) | none over time | a link becomes a profile with an identity, a profile one of two configurations | rules spread over four files that must agree |
| Engine catalog and artifact checks (`engine.rs`, `config_generator.rs`) | none over time | admission of a catalog, selection of a release, verification of a file | several lookups, each with its own idea of equality |
| Kill switch policy (`kill_switch.rs`), split-tunnel matcher (`matcher.rs`) | none over time | classification of traffic, routing decisions | addresses and names at the edges of their classes |
| Route manager | a stub | - | - |

How they interact: the CLI calls the proxy service, which owns a supervisor and,
through it, a worker task and a child; they meet at a watch channel, an atomic pid
and a command channel. The connection machine sends commands through a transport
(not in the repository) to the helper, whose admission checks session, sequence and
runtime right before a command acts; the right and the helper itself are put in
place by the two installers. The planner's plan goes to the executor, which drives
an adapter (not in the repository) under the protection of the journal store;
recovery reads the store at the next launch. Bootstrap picks the endpoint before
there is protection, revocation removes the old endpoint's grant afterwards.

What makes each correct, in short:

* *Executor and store*: whatever is in effect on the machine is listed, with its
  inverse, in a file that survives any crash; one transaction at a time; the kill
  switch closes first and opens last; a pending journal is always resolved.
* *Revocation*: what the caller is told was true of the machine at one moment; the
  intent is durable before the first mutation; what was touched is contained;
  failures are accounted for.
* *Service and supervisor*: who says Stopped has no child running and forgets no
  config with secrets: it has been removed, or its removal was tried; an engine that
  ends is noticed; every call returns.
* *Bootstrap*: one outcome for each request, from the answer to that request,
  within its lifetime; a request that is checked on settles.
* *Client and helper*: commands accepted once and in order; Connected and
  Disconnected mean what they say of the tunnel.
* *Installer*: completed means done, a failure accounts for what it left, a loaded
  job has its files.
* *Runtime right*: reports are true, leftovers are reported, others' policies are
  spared.
* *Right experiment*: no mutation before its evidence is on disk, an exit code that
  can be relied on, an end whatever blocks.
* *Links, profiles, engines*: a link tells both engines the same, a stored profile the
  same up to blanks, and sing-box never less protection than is named, nor Xray by a
  link; a file is started only as a row of the version that was asked for.
* *Traffic*: outside the tunnel goes exactly what the endpoint or a list names.
* *Plans*: admission, journal and rollback agree, so that nothing is done that no
  journal undoes.

`PROJECT.json` lists the hazards behind these, each at its line.

## 2. The plan

Modules were written in this order, the behaviour that costs a user most first:

1. `UndoLog` (abstract), `NetworkTransaction`, `ConnectPlanner`, instance
   `MCNetworkTransaction`; proofs. **done**
2. `EndpointRevocation`; proofs. **done**
3. `ProcessSupervisor` (proxy service, supervisor, worker, CLI order); proofs. **done**
4. `EndpointBootstrap`, instance `MCEndpointBootstrap`; proofs. **done**
5. `HelperSession` (client, admission, replay guard, helper); proofs. **done**
6. `HelperInstall`; proofs. **done**
7. `RuntimeRight`; proofs. **done**
8. `RightExperiment` (preflight, round trip, watchdog); proofs. **done**
9. `JournalStore` (the directory of journals under several processes); proofs. **done**
10. `ShareLink`, `EngineCatalog`, `TrafficPolicy`, `NetworkRules`, `HelperContract`
    and their instance `MCRules`; proofs in `RulesProofs`. **done**
11. Still open: an abstract specification of a session (accepted commands as a queue)
    that `HelperSession` implements. *later*

Composition: `NetworkTransaction` takes its plans as constants; the instance gives it
those of `ConnectPlanner`. It is related to `UndoLog` by
`INSTANCE UndoLog WITH promised <- Promised`. `ProcessSupervisor` and `HelperSession`
each hold both sides of an interaction in one module, because what they promise is
about the pair. `HelperContract` is the payload of the messages that `HelperSession`
follows over time. `NetworkRules` and `NetworkTransaction` model the two sides of one
interaction: the rules a plan is held to, for every plan of a family, and an
execution over time, for a few plans. `JournalStore` takes the directory that
`NetworkTransaction` uses as a few durable files and opens it up: temp files,
quarantine, several processes.

## 3. The modules and the code

### NetworkTransaction, ConnectPlanner, UndoLog

`net` is the value in effect in each scope (the operation that set it, or
`Original`). `pend` and `appl` are the pending journal and the applied record of each
transaction as a running process reads them; `pendMay` and `applMay` are the contents
a power loss may leave of each, so that a rename that has not been followed by a
directory sync (`recovery_journal.rs:678`) is two possible contents and not one. The
rest (`pc`, `cont`, `cur`, `op`, `status`, `undo`, `todo`) is a process's memory.

An execution is: gate (`network_executor.rs:86-104`), for each operation in order the
check of reversibility, the journal write with its replacement and sync, and the
adapter's call, which succeeds, fails without effect or fails after it
(`BeginOperation`, `RefuseIrreversible`, `RemoveTarget`, `ReplaceJournal`,
`SyncJournal`, `OperationOk`, `OperationFailed`), then the applied record, the
removal of the other records and of the journal (`RecordApplied` to `SyncClear`).
The idempotency wrapper (188) is in `OperationOk`. Recovery (`Recover` and the steps
below it) loads journals and records and undoes in reverse order. `Interrupt` is a
process that dies, `PowerLoss` a machine that does: any setting may fall back to
`Original`, and each file to one of its possible contents.

Stats are assumed not to fail here: a gate or recovery that overlooks a file for want
of one is in `JournalStore`, and that `clear_other_applied_states` passes over a
record whose stat fails (`recovery_journal.rs:439`, `447`) is in neither.

The constants `Unix`, `RetriesPending` and `StacksApplied` name the build and the
discipline of the caller: whether it re-executes a transaction whose own journal is
pending, and whether it executes over an applied transaction. The executor admits
both; the runs show what each costs.

`UndoLog` is what this promises from outside: the set of operations that stable
storage will undo, and a network that changes only under such a promise.

### EndpointRevocation

The ten stages of `run()` (`endpoint_revocation.rs:356-538`) in order, each with an
observation or a mutation of the adapter, then the containment after a failure
(`Teardown`, `TeardownInspection`) and the recording of the failure in the bounded
buffer (`Record`, `Clear`; `revocation_diagnostics.rs:246-300`). The machine is a
pair `present`, `facts`; `Environment` changes it between any two calls. Of the
adapter the module assumes only the obligations that the trait states: an
observation is the truth or `Unknown`; a mutation checks binding and deny at its own
boundary. A call may otherwise fail before or after its effect, claim success
without one, or panic. `snapshot` and `touched` are history.

### ProcessSupervisor

Caller steps: `StartRefused`, `WriteFails`, `Prepare`, `StartGoesOn`, `CancelStart`,
`StopStopped`, `Stop`, `StopGoesOn`, `DropService` (`engine.rs:801-1060`,
`core.rs:189-420`, `cli.rs:526-675`). Each session has a `Worker(s)` (`core.rs:500-727`) and a child that
exits when it likes and may ignore a kill for as long as it likes. They meet at
`state` (watch channel), `active_pid`, `cmd_tx` and `file` (the runtime config).
A config is absent, a part whose write failed, written, or one whose latest removal
failed (`Files`): every removal (`Remove`) may fail, and the code discards the error and
goes on. `Fresh` says whether each start has a supervisor of its own (as `ProxyService`
does), `CancelStops` whether a cancelled start is followed by `stop()` (as the CLI
does).

### EndpointBootstrap

`begin`, `revalidate`, `accept_response`, `resolution_failed`, `take_endpoint`, each
with an observation that the owner has just made or made earlier (`held`). Time,
network binding and admission conditions change on their own. The preference of
addresses, the deduplication and the limits on an answer are operators on sequences
of records. `answer` and `handed` are history.

### HelperSession

The client (`Execute`, `ExecuteStatus`, `Observe`; `connection.rs`), and the helper
(`Admit`, `Deliver`; `helper_runtime_admission.rs`, `platform_contract.rs:134-306`):
a session and its last sequence number, the check of the runtime right before a
mutating command. The transport and the tunnel are not in the repository: anything
sent may arrive, again, late and out of order; the tunnel moves through the states
of `PlatformObservedState` (`TunnelMoves`) and dies with the helper
(`HelperRestarts`). Assumed of the code that is to come: the client numbers the
commands of a session from 1, never uses a correlation id twice and asks for the
status under its present one; a new session ends the old connection.

### HelperInstall

A file is its data and whether owner and mode have been set. `Execute` validates the
plan (170-251), `Preflight` opens and hashes the source and keeps the descriptor,
`EnsureAuthorized` follows; each operation is opening and writing (`OpenHelper`,
`CopyHelper`, ...), each may fail, and `Failed` leads to the rollback of an install
or the end of an uninstall. `Killed` and `Restart` (launchd loads what has a whole
definition) come anywhere, and so does `SourceReplaced`. Loading is the last
operation of an install, so a rollback never has to unload. `slips` and `over` are
history: what an ignored error left, and a helper written over an existing one.
Assumed: the source is replaced, not written in place while it is held open; one
executor at a time.

### RuntimeRight

`policy` is one of five forms an entry can have (`Entries`); `Classified` is what
`macos_runtime_right.rs` reads it as. `Begin` is a call of install or uninstall,
followed by the adapter's calls one at a time; each may fail, a mutation also after
its effect. `AnotherWriter` and `ExecutorKilled` come anywhere. The database may store a
written rule with fields of its own. `writer` and `others` are history.

### RightExperiment

A run goes through places (`prepare`, the approval, the manifest, then the phases of
`execute_inner`, `right_experiment/protocol.rs:136-157`) and, in each phase, through
parts: intent, deadline check, look, call, answer, record, exit. The manifest is the
set of its whole lines, `durable` those that were synced and `loose` those a failed
append may have left. A native call is begun (`Call`), takes effect (`Effect`) and
returns (`Return`) in three steps or never, and its effect may come after its caller
gave up. `Tick` lets the two clocks of a run pass the deadline, `Watchdog` ends the
process between any two steps (`native.rs:203-218`). `Killed`, `PowerLoss` and other
writers of the database come anywhere. `called` and `warned` are history.

### JournalStore

The directory of pending journals as several processes use it, with no lock:
`write_pending` (temp file, rename, sync), `clear_pending`, `load_pending_report`
(clean-up of temp files, listing, reading, quarantine, sync) and the start gate that
rests on it. A journal is a number that counts the journals put in place, 0 a file
the loader cannot use. `past` is what a power loss may bring back of each id's files.
`accepted` and `unseen` are history: the journals whose write returned `Ok`, and what a
gate has not seen, because others changed it under the gate or because a stat failed.
Any call may fail; a stat that does is taken for absence, so that `List` may miss any
file and `LoadNothing` the directory. The temp files of the dead are removed by loaders
of the living.

### ShareLink, EngineCatalog, TrafficPolicy, NetworkRules, HelperContract, MCRules

The pure rules, as operators, and what is promised of them, stated beside them.
`MCRules` hands the program one input after another from named families (`ParseNames`,
`TwoRows`, `BuildAllowlist`, `AdmitTwo`, ...), so that one run checks them all.

* `ShareLink`: text is a name for a class of strings; `Trim` and `Lower` say what
  the string functions do to it. `Accepted` and `Profile` are `parse_uri`,
  `ProfileValid` the validation of `config.rs`, `XrayConfig` and `SingBoxConfig` the
  two generators with like fields named alike, `compute_profile_id` the identity.
  `EnginesAgree` is asked of links, `EnginesAgreeUpToBlanks` of any valid profile.
* `EngineCatalog`: a catalog is its rows; admission, the lookups by status, dialect
  and target, each with the comparison the code makes (exact, case-blind, trimmed),
  and the verification of a file. `AskedFor` says of a row that it is of the engine
  and version a request means.
* `TrafficPolicy`: addresses are one or more of each class the code tells apart,
  names sequences of labels. The allowlist comes from a connection intent, the
  split-tunnelling settings pass their validation first.
* `NetworkRules`: snapshots, operations, rollbacks, states and the two kinds of
  record, with their validation; `At` is the executor at its k-th operation, so that
  the admission of a plan can be compared with each write that its execution makes.
* `HelperContract`: one message with all it carries, through the client that checks
  and sends it (`execute`), the session that accepts it (`accept_command`) and the
  handler that answers (`handle_command`), back to the state the client is then in
  (`next_state_for_observed`); and the helper's binary as one message in, one exit
  code out.

## 4. The runs

Sizes are distinct states. Every property of a passing run has a mutant in
`PROJECT.json`: a plausible bug in the code that the run finds. `TypeOK` of the
modules with proofs is a theorem and no longer a property of the runs; TLC found each
to hold before it was proved.

| Run | Size | What is asked |
|---|---|---|
| `net_recover_first` | 8,295 | unix, a caller that recovers before it executes; the kill-switch connect plan, a plan with a step that cannot be inverted and an invalid plan. `UndoDurable`: what is in effect will be undone by whatever a crash leaves. `GateExclusive`: no journal of another transaction while the adapter runs. `KillSwitchEnvelope`: no step but a restart of the machine takes the firewall from around a tunnel route or DNS. `Resolved`: journals are resolved once faults stop. `ImplementsUndoLog`. |
| `net_any_caller` | 260,618 | Windows' replacement, any caller; plans that repeat and contradict a setting. What the executor guarantees whoever calls. `AppliedInForce`: what it reports applied is in force. `WriteOrder`: a setting comes into effect only under a synced journal, and the journal is dropped only for an applied record that covers it alone. With `Unix = FALSE` a rename is durable at once, so the synced half of `WriteOrder` is shown by the theorem `WritesInOrder` only. |
| `net_retry_pending` | violation | `UndoVisible` for a caller that executes a transaction again while its journal is pending. |
| `revocation` | 221,914 | verdicts are true (`VerdictTruthful`), intent first, containment, the deny policy's absence is not masked, diagnostics are accounted for. |
| `supervisor` | 90,015 | as the CLI uses the service: no child behind the word Stopped, none left after stop, no config forgotten (`NoResidue`: each that was written has been removed or its removal failed), an engine's end is noticed, calls return. |
| `bootstrap` | 210,648 | the endpoint handed out is right, a request settles. |
| `helper_session` | 352,946 | commands once and in order, Disconnected and Connected mean what they say, every command is accepted in the end. |
| `helper_install` | 204,744 | completed means done, a failure accounts for its leftovers, a loaded job is backed. |
| `runtime_right` | 283 | reports hold, leftovers are reported, others are spared. |
| `right_experiment` | 239,840 | two runs in one directory: the exit code tells the truth, the evidence comes first, `--preflight` is no more lenient than `--run`, every run ends. |
| `journal_store` | 1,641,738 | an accepted journal is never lost; the gate overlooks one only after it was quarantined or changed under it, or when a stat failed. |
| `rules` | 289,495 | links give both engines one configuration, stored profiles one up to blanks; a file is started only as a row of the version asked for; traffic outside the tunnel is what is named; plan, journal and rollback agree; what the client sends the helper accepts and answers in words the client can take (`HelperUnderstood`). |

### Bounds and why they are enough

* `net_*`: nothing is bounded but the set of plans. Executions, crashes and
  recoveries repeat without limit; the plans are those of the planner and small ones
  that show each way two operations can relate (same scope and setting, same scope
  and another setting, different scopes, not invertible, refused by validation).
  Three plans at most share a run: enough for one that executes, one whose record
  is in place and one that is pending.
* `revocation`: `Capacity` 2 and `MaxDropped` 1 make the buffer full and its counter
  reach its limit with `MaxFailures` 4; `MaxChanges` 2 changes of the machine in
  one operation are one before and one after any given look. Operations repeat.
* `supervisor`: `MaxSessions` 2 starts; a worker can outlive its own session into
  one more. `CHECK_DEADLOCK FALSE`: after the last start, or once the service is
  dropped, there is nothing left to do.
* `bootstrap`: three addresses (usable IPv4, unusable IPv4, IPv6), answers of none
  to four records with duplicates and different ends, `MaxRecords` 3 and
  `MaxCandidates` 2 so that both limits are passed, `MaxLifetime` 2 within `MaxTime`
  3 so that a request can time out and an answer expire before, at and after the
  deadline, `MaxBinding` 3 for two changes of the network.
* `helper_session`: `MaxSequence` 3 so that a session reaches its last number,
  `MaxSessions` 2 for an old and a new one, `MaxId` 3 for connect, disconnect and
  another operation.
* `helper_install`: two contents of the helper; the two valid plans and six invalid
  ones; executions, kills and restarts repeat without limit.
* `runtime_right`: no bound at all.
* `right_experiment`: two runs, together or one after the other: one in progress and
  one that meets its directory. No other bound. `CHECK_DEADLOCK FALSE`: when both
  have ended there is nothing left to do.
* `journal_store`: two processes (symmetric), two transactions, `MaxPuts` 2 journals
  put in place, one name for quarantined files. Two of each is what a race needs: a
  writer and a loader, one's own transaction and another, a journal and the one that
  replaces it. One name makes the second quarantine of an id meet the first; calls,
  failures, damage and power losses repeat without limit.
* `rules`: no state over time. The families vary together what the code compares
  with each other and let the rest be fixed: all combinations of the security
  parameters of a link, all of the transport parameters, of the address; profiles in
  two families; pairs of links that differ in any of five fields; catalogs of one to
  four rows; every intent over every address class against every packet; settings of
  two domain rules against every name of up to two labels and what is below it; plans
  of up to three operations, states of up to two; hellos and commands with valid,
  blank, over-long and malformed identifiers, capability lists that are empty, met,
  not met, at the limit of 32 and above it, sizes at and above 65536 bytes and
  ranges of versions below, around and above the helper's. `MAX_NETWORK_COLLECTION_ITEMS` is 3
  and the DNS bounds 1 (256, 16 and 64 in the code), so that DNS data is met at and
  above its bounds; collections stay within theirs. `CHECK_DEADLOCK FALSE`: a
  behaviour is one input.

### Fairness and why the code justifies it

* `NetworkTransaction!Fairness`: the executor and recovery are loops without waits
  other than adapter calls, which return; a caller keeps recovering while a journal
  is pending. Nothing is assumed of starting, of the adapter's verdict or of faults.
  `Resolved` is stated for runs in which faults stop at some time.
* `ProcessSupervisor!FairSpec`: tokio polls a task that can go on and its timers
  fire. Nothing is assumed of the child, nor of when the kernel reaps a killed one;
  `CallsReturn` therefore names the one place where a start can hang on it.
* `EndpointBootstrap!FairSpec`: time passes and the owner calls `revalidate` with a
  present observation, which the documentation of the module asks of it: no timer is
  started here.
* `RightExperiment!FairSpec`: time passes for the watchdog and its thread runs
  (`native.rs:209-217`), a thread of its own that waits for nothing else. Nothing is
  assumed of the operator, of the native calls or of the run's own steps.
* `HelperSession!FairSpec`: a command that can be accepted is delivered (again) in
  the end. `CommandsAccepted` assumes that the right comes back for good.

## 5. What is proved

Every theorem is checked by TLAPS for all values of the constants, under the
assumption that the component's module states for them. The theorems about
components are inductive invariants, with the three usual facts and one step per
action; those about pure rules take the rule's input as a variable.

| Module (obligations) | Theorems | The inductive invariant |
|---|---|---|
| `NetworkTransactionProofs` (1619) | `TypeCorrect`, `AppliedHolds`, `WritesInOrder`, `UndoSurvives`, `GateHolds`, `Refinement`, `EnvelopeHolds` | The first three for every caller and both builds. *StatusInv*: statuses are those of the transaction at work, and nobody's at rest; *OrderInv*: what is on disk, and how durably, at each step of an execution. The others under `Disciplined` (unix; a caller that recovers first): *InPlace*: a setting in effect sits in its own scope. *Complete*: every journal that a crash can leave lists the operations of its transaction that are in effect, every record all of them. *Present*: an operation in effect has a journal or a record that no crash can remove. *Restores*: every inverse restores `Original`, for which the snapshot must have been taken with nothing applied; hence the discipline. *ExecutionInv*, *RecoveryInv*: what memory and disk say at each step. `UndoDurable` alone is not inductive: the step that drops a file needs to know that the other file, or nothing in effect, makes up for it. For `EnvelopeHolds` also *FilesOwn*, *OneInEffect*, *ApplyingInv*, *UndoingInv*: no stale journal or record can come back beside what is in effect, so a rollback is of that transaction, and operations are applied in the plan's order; that firewall settings have a scope of their own is `ScopeAssumption`. |
| `EndpointProofs` (779) | revocation: `TypeCorrect`, `VerdictHolds`, `IntentFirst`, `ContainmentHolds`, `DenyHolds`, `NothingLost`; bootstrap: `BootstrapTypeCorrect`, `HandoffIsSound`, `HandoffInTime`, `OutcomeFinal` | Revocation: *ProgressInv*: where the operation stands decides what it has written, touched and flagged; *EvidenceInv*: what the final inspection accepted was so at that moment; *BufferInv*: nothing is dropped before the buffer is full, nor refused before the counter is exhausted. No assumption beyond `BufferAssumption`. Bootstrap: *ClockInv*: a request runs within its lifetime; *ChoiceInv*: it was answered under its own binding; *PreparedInv*, *ConsumedInv*: the endpoint is the right choice from that answer, when chosen and when handed out. That a least element of the preference order exists is lemma `Least`, by well-founded induction. |
| `ProcessSupervisorProofs` (955) | `TypeCorrect`, `EngineGone`, `StopIsFinal`, `NothingLeft` | With `Fresh = TRUE`. *CallerInv*: what the caller may rely on where it stands; *WorkerInv*: what a worker has done to its child by each of its steps; *RunningInv*: a child that runs has its pid published and a worker that has not begun to wind up. `NothingLeft` also takes `CancelStops = TRUE`: *FileInv*: a config that was written, and not yet tried to be removed, is that of the supervisor in place or of the path the service remembers; *ServingInv*: such a one in place at rest is that of an engine that is ready or whose worker is about to remove it. Both assumptions are needed (section 6). |
| `HelperSessionProofs` (836) | `TypeCorrect`, `OrderHolds`, `DisconnectedHolds`, `ConnectedHolds` | *Short*, *SentIds*, *Unopened*: a session carries no more commands than it has numbers, under ids that were used, after it was admitted. *OperationsFirst*: a status request follows the operation of its id. *Quiet*: no tunnel is up, and no command on its way can raise one. *Own*, *Settled*: a tunnel that is up, or asked for, is the client's; it came up and nothing awaits acceptance. Which of them holds depends on the client's state and on what has been said under its id. |
| `HelperInstallProofs` (879) | `TypeCorrect`, `CompletedHolds`, `AccountedHolds`, `BackedHolds` | *Shape*, *Progress*: what a plan has done by the time it is in a given call; *CleanRun*: what a plan begun on an empty machine can have left by then; *Backing*, *Busy*: unless a helper was written over or an error ignored, a definition has a whole helper and files are touched only while there is no job. |
| `RightProofs` (728) | experiment: `TypeCorrect`, `ExitHolds`, `EvidenceHolds`, `PreflightIsHonest`; executor: `ExecutorTypeCorrect`, `ReportsHold`, `LeftoversReported`, `OthersAreSpared` | Experiment, for any number of runs, one conjunct of `RunInv` each. *Possession*: past the lock it has the lock, past the creation of the manifest the manifest is its own and synced. *Evidence*: every phase it is past has its line on disk. *Extent*: where it stands tells which mutations it can have begun and whether one is in flight. *Ended*: what the exit code says. A step of one run keeps what is said of the others (`Framed`), because it has the lock and a synced manifest only grows. Executor: *Progress*: a call in the middle has no result, and before it has written no entry is its own; *Authority*: what a pending mutation relies on is still so, or another writer is on record as having come in. |
| `JournalStoreProofs` (681) | `TypeCorrect`, `JournalsKept`, `GateHolds` | For any number of processes, transactions and journals, with any contents a power loss may leave. *StoreInv*: in every state the directory may fall back to, what stands under a journal's own name is newer than all that is in quarantine, and nothing is accepted where a damaged file could come back; *WriterInv*: between rename and sync a writer's journal is in the directory; *LoaderInv*: a loader has seen, or will see, every journal that nobody changed since and no stat failed of. `NothingLost` alone is not inductive: a quarantine may replace the file that has the chosen name by then, and only the order of the journals tells that it is an older one. |
| `RulesProofs` (2091) | for any input: `MessagesUnderstood`, `HandshakesAgree`, `KillSwitchContains`, `SplitContains`, `AddressContains`, `LinkIsFaithful`, `ProfilesFaithful`, `PairIsFaithful`, `SelectionIsSound`, `DefaultIsFound`, `OnlyPinnedStart`, `PlansRecoverable`, `StatesUndone`; for the run's: `RollbackIsComplete`, `HelperUnderstands`, `TrafficIsContained`, `LinksAreFaithful`, `CatalogsAreSound` | The first thirteen have the input as a variable: any identifiers and sizes, any set of packets, names and rules of any length, links with any parameters, catalogs of any number of rows, plans of any length and any bounds on collections. What they ask of it is the type of its fields and no more: the host of a link has no blanks around it (a URL has none), a stored profile's security is one of `none`, `tls`, `reality` (an enum of the configuration), a catalog's releases are a sequence whose rows have a version (a field that cannot be absent), an operation's order is a number or missing. The least row a search stops at is lemma `LeastIndex`, by well-founded induction; that the ids of different profiles differ is lemma `IdsFaithful`. For plans, lemma `Places` shows that the ranks of distinct numbers are 1 to their count in their order, by the pigeonhole theorems; with it a rollback is a permutation of what it has to undo (`RollbackUndoes`), and the k-th operation of an execution exists and is the only one whose outcome is open (`AtValid`, `FinishedValid`). *Asks*: every input that `MCRules` hands out has that type; with it the invariants of the run `rules` are instances. |

Every invariant and every safety property over steps that a passing run checks is
stated by a theorem. Only model-checked: the liveness properties (`Resolved`,
`EndNoticed`, `CallsReturn`, `Settles`, `CommandsAccepted`, `Ends`), which TLAPS
cannot prove under fairness. The planner's order is checked through the plans the
instance builds from it.

## 6. Where code and documents disagree

Shown by a run (`findings` in `PROJECT.json` quotes the lines):

* `net_retry_pending`: the gate (`network_executor.rs:94`) counts only the journals of
  *other* transactions, so executing the same id while its journal is pending
  replaces that journal, and with it the record of what the interrupted attempt did.

Other constants of the same modules show three more, which no run keeps:

* `Unix = FALSE` in `MCNetworkTransaction` violates `UndoVisible`:
  `recovery_journal.rs:646` removes the target before the rename; a process that dies
  in between leaves an unfinished transaction without a journal.
* `Fresh = FALSE` in `ProcessSupervisor` violates `StopLeavesNoChild`: a worker of an
  earlier session announces `Stopped` over the next session's `Ready`
  (`core.rs:638-653`) when a supervisor is started again after a stop that timed out.
  `ProxyService` makes one for each start and is not exposed (theorem `StopIsFinal`).
* `CancelStops = FALSE` violates `StopLeavesNoConfig`: a start that is dropped and
  followed by another start leaves its config on disk (`engine.rs:989`). The CLI stops
  after a cancelled start and is not exposed. It is exposed to a write of the config
  that fails half-way (`engine.rs:840`), whose file no call knows of, and to a removal
  that fails: `StopLeavesNoConfig` fails for either with the run's own constants too.
  `NoResidue` says what is left: a config that was written is removed, or its removal
  is tried.

Documents that say otherwise, where the modelled code does not follow them:

* `ProxyService::stop` "guarantees the removal of runtime files" (the comment at
  `engine.rs:1046`). Every error of a removal is discarded (`engine.rs:1006`, `1038`,
  `1055`; `core.rs:409`, `465`, `484`), the path is forgotten and Stopped announced.
* `docs/SPEC_EN.md:96` and `587-589` have corrupt journals quarantined "fail-closed".
  The loader renames them and the gate, which counts the journals that are left,
  opens (`recovery_journal.rs:325`, `network_executor.rs:94`); `GateSees` says so. A
  valid journal that cannot be read just now goes the same way, and one whose stat
  fails (`recovery_journal.rs:314`), or all when that of the directory does (`302`), is
  overlooked without quarantine. `clear_other_applied_states` passes over an older
  record in the same way (`439`, `447`), against the one record that is to be kept.

Observations for which no document says what should hold:

* The correlation id of an envelope is not compared with that of the command in it
  (`platform_contract.rs:416-432`). A client without an operation in force has no id
  for the envelope of a status request, so `Accepted` leaves that request out. The
  skeleton answers every status request with `Idle`, which a client that is
  connecting or connected refuses; `Answered` asks this of operations only.
* Applying a transaction over an applied one deletes the first one's record
  (`recovery_journal.rs:456`). `docs/SPEC_EN.md` says in one line that applied
  operations are recorded and in the next that only the latest record is kept.
  Callers that stack transactions are excluded in `net_recover_first`.
* A client that recovers takes any `Idle` under its id for the end of the recovery
  (`connection.rs:276`), also one that answers a status request of a later session
  while the recover command was lost with the earlier one.
* An install over an installed helper empties the working file first, and a refused
  load then removes the files of a job that is loaded
  (`macos_helper_install.rs:1384`); an uninstall that stopped after the unload
  cannot be run again, because unloading fails. `over` and `slips` mark these in
  `JobBacked` and `FailureAccounted`.
* If the database stores the created right with fields of its own, the readback is
  not the exact definition, the cleanup preserves it as a conflict, and later calls
  refuse to touch it. `LeftoverReported` shows that this is always said.
* `validate_for_execution` takes a plan with an operation that has no rollback; the
  execution stops before that operation's effect, at the latest when the journal that
  would list it as `Applying` is refused (`RollbackComplete` holds because of that
  order). An inverse need not be of its operation's scope. A transaction id with a dot
  is admitted and cannot be journalled.
* The generators differ in what no accepted link shows: for Reality, Xray is given
  the server name, address, short id and uuid of a stored profile untrimmed, and a
  blank fingerprint as it is, where sing-box trims and falls back to `chrome`;
  `EnginesAgreeUpToBlanks` is what holds of such profiles. For plain TLS without a
  fingerprint Xray is told `chrome` and sing-box nothing; `EnginesAgree` names that
  difference.
* A catalog whose recommended version is spelled in two cases is admitted and has no
  default version; two unknown systems whose names differ in case are two targets
  when a catalog is admitted and one when a row is looked up. `DefaultFound` and
  `SelectionSound` name both.
* `GEOSITE:other` passes the validation of the settings and matches nothing, while
  `geosite:other` is refused; a rule without a trailing dot does not match the name
  itself with one; `domain:` with nothing after it is a valid rule and matches what
  ends in a dot; `geoip:private` has no unique local IPv6 address. Traffic that
  split tunnelling sends directly is not in the kill switch's allowlist: nothing in
  the repository composes the two.

## 7. What is not modelled

* The route manager (`routing.rs`), a stub without state, and the scripts and spikes,
  which are outside the program. The adapters, the transport and the tunnel are not
  in the repository: the modules that meet them say what they assume.
* Data no property reads: the JSON documents and their schemas, user and client
  settings other than split tunnelling (ranges of ports, log levels), a profile's
  display name, inbounds and logging in the engines' configurations, the text of the
  launchd property list (`macos_launchd.rs`), the payload of planned operations, the
  redacted projection of a diagnostic record, log pumps.
* The CLI apart from the order of start, cancellation and stop: parsing of arguments
  and output are translations without state over time.
* How the helper learns who its peer is, and how its binary reads and writes: the
  uid, the right and the text of a message are inputs of `HelperContract`.
* File permissions, temp-file names and the zeroing of secrets.
* Death of NovaRay itself: its child and the runtime config stay, no drop runs and
  nothing in the code looks for them at the next start (`core.rs:715`). A pid used
  again by another process between the reaping of the child and the clearing of
  `active_pid` (`core.rs:676`): what another process is, no module says.
* Stats that fail under an execution or a recovery: `NetworkTransaction` assumes that
  they do not, `JournalStore` has those of the gate and the loader. A record of an
  applied transaction whose stat fails stays beside the new one.
* The restart of the client: it starts Disconnected while the helper may hold a tunnel
  (`connection.rs:113`), and nothing in the code tells it. `ConnectedIsThis` covers the
  restart of the helper.
* An install over an installed helper (`macos_helper_install.rs:1384`) is executed by
  `HelperInstall`, but `JobBacked` leaves its failure out (section 6).

## 8. Running it

    tlc -workers 2 -config NetRecoverFirst.cfg MCNetworkTransaction.tla
    tlapm NetworkTransactionProofs.tla

Each run's module and configuration are in `PROJECT.json` under `runs`, the proof
modules under `theorems`, and `map` ties each definition to the lines it translates.
