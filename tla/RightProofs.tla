----------------------------- MODULE RightProofs -----------------------------
(***************************************************************************)
(* The safety properties of the two components that write the runtime      *)
(* right: RightExperiment, for any number of runs in the directory, and    *)
(* then RuntimeRight, the executor of the helper.                          *)
(*                                                                         *)
(* For each run of the experiment: past the lock it holds the lock, past   *)
(* the creation of the manifest the manifest is its own and synced         *)
(* (Possession); every phase it is past has its line in the manifest       *)
(* (Evidence); and where it is tells which mutations it can have begun and *)
(* what of them is still in flight (Extent).  A step of one run leaves     *)
(* what is said of the others alone, because it has the lock and because a *)
(* manifest that is synced only grows (Framed).                            *)
(*                                                                         *)
(* For the executor: in the middle of a call there is no result; before a  *)
(* call has written, and in an uninstall, no entry is its own (Moment);    *)
(* and what a pending mutation relies on is either still so, or another    *)
(* writer is on record as having come in (Authority).                      *)
(***************************************************************************)
EXTENDS RightExperiment, RuntimeRight, TLAPS

Writing == {"approvalLine", "Result"} \cup Phases
Locked == {"approval", "manifest", "sync"} \cup Writing

Possession(r) ==
  /\ place[r] \in Locked => lock = r /\ Admitted(env) /\ env.private
  /\ place[r] = "prepare" => Admitted(env)
  /\ place[r] \in {"sync"} \cup Writing => owner = r
  /\ place[r] \in Writing => kept
  /\ owner = r => place[r] \notin {"off", "prepare", "approval", "manifest"}
  /\ warned[r] => ~Admitted(env) \/ ~env.private \/ owner \notin {None, r}

\* Past a place, or in the middle of it.
Past(r, places) == place[r] \in places \/ (place[r] = "Result" /\ verdict[r] = "ok")

Evidence(r) ==
  /\ Past(r, Phases) => <<"Approval", r>> \in durable
  /\ Past(r, Phases \ {"Baseline"}) => <<"Baseline", "Absent">> \in durable
  /\ Past(r, Phases \ {"Baseline", "Authorize"}) => <<"Authorize", "ok">> \in durable
  /\ Past(r, {"Create", "Created", "BeforeRemove", "Remove", "Removed"})
       => <<"BeforeCreate", "Absent">> \in durable
  /\ Past(r, {"Created", "BeforeRemove", "Remove", "Removed"})
     \/ (place[r] = "Create" /\ part[r] # "intent") => <<"Create", "intent">> \in durable
  /\ Past(r, {"Created", "BeforeRemove", "Remove", "Removed"}) => <<"Create", "ok">> \in durable
  /\ Past(r, {"BeforeRemove", "Remove", "Removed"}) => <<"Created", "Exact">> \in durable
  /\ Past(r, {"Remove", "Removed"}) => <<"BeforeRemove", "Exact">> \in durable
  /\ Past(r, {"Removed"})
     \/ (place[r] = "Remove" /\ part[r] # "intent") => <<"Remove", "intent">> \in durable
  /\ Past(r, {"Removed"}) => <<"Remove", "ok">> \in durable
  /\ Past(r, {}) => <<"Removed", "Absent">> \in durable
  /\ Past(r, {}) /\ part[r] = "exit" => <<"Result", "ok">> \in durable

\* Which mutations may have begun, and when none of them is in flight.
Extent(r) ==
  /\ called[r] # {} =>
       /\ \/ place[r] \in {"Create", "Created", "BeforeRemove", "Remove", "Removed", "ended"}
          \/ place[r] = "Result" /\ verdict[r] # "refused"
       /\ place[r] = "Create" => part[r] \in {"calling", "record"}
       /\ owner = r /\ kept /\ Admitted(env) /\ env.private
       /\ BeforeCreation(r) \subseteq durable
  /\ "Remove" \in called[r] => BeforeRemoval \subseteq durable
  /\ inflight[r] # "none" => called[r] # {}
  /\ place[r] \in Mutations /\ part[r] = "record" /\ got[r] = "ok" => inflight[r] = "none"
  /\ Past(r, {"Removed"}) => inflight[r] = "none"
  /\ place[r] = "Removed" /\ part[r] = "record" /\ got[r] = "Absent" => right[r] \notin Ours
  /\ Past(r, {}) => right[r] \notin Ours

Ended(r) ==
  /\ exit[r] = "none" <=> place[r] # "ended"
  /\ place[r] # "Result" => verdict[r] = "ok"
  /\ exit[r] = "exit2" => called[r] = {}
  /\ exit[r] = "exit0" =>
       /\ owner = r /\ kept
       /\ BeforeCreation(r) \cup BeforeRemoval
            \cup {<<"Remove", "ok">>, <<"Removed", "Absent">>, <<"Result", "ok">>} \subseteq durable
       /\ inflight[r] = "none" /\ right[r] \notin Ours

RunInv(r) == Possession(r) /\ Evidence(r) /\ Extent(r) /\ Ended(r)
IInv == TypeOK /\ \A r \in Runs : RunInv(r)

\* What is true of a run stays true in a step that changes nothing of it, does
\* not take its lock, and does not touch a manifest but to sync it, to add to
\* it, or to begin one where there is none.
Framed(s) ==
  /\ env' = env /\ warned'[s] = warned[s]
  /\ place'[s] = place[s] /\ part'[s] = part[s] /\ got'[s] = got[s]
  /\ verdict'[s] = verdict[s] /\ exit'[s] = exit[s]
  /\ called'[s] = called[s] /\ inflight'[s] = inflight[s] /\ right'[s] = right[s]
  /\ lock = s => lock' = s
  /\ \/ owner' = owner /\ (kept => kept') /\ durable \subseteq durable'
     \/ owner = None /\ owner' # s

\* What is known of a run survives the steps of the others.
LEMMA Frame ==
  ASSUME TypeOK, NEW s \in Runs, RunInv(s), Framed(s)
  PROVE  RunInv(s)'
  <1>0. s # None
    BY RunAssumption
  <1>1. Possession(s)'
    BY <1>0 DEF Framed, RunInv, Possession, Writing, Locked, Admitted, TypeOK,
       Environments
  <1>2. Evidence(s)'
    <2>1. Past(s, Phases) => owner = s
      BY DEF RunInv, Possession, Past, Writing
    <2>2. CASE owner' = owner /\ durable \subseteq durable'
      BY <2>2 DEF Framed, RunInv, Evidence, Past
    <2>3. CASE owner = None
      <3>1. place[s] \notin Phases /\ place[s] # "Result"
        BY <2>3, <1>0 DEF RunInv, Possession, Writing
      <3> QED
        BY <3>1 DEF Framed, Evidence, Past, Phases, Reads, Mutations
    <2> QED
      BY <2>2, <2>3 DEF Framed
  <1>3. Extent(s)'
    BY <1>0 DEF Framed, RunInv, Extent, Past, Admitted, BeforeCreation, BeforeRemoval,
       Ours
  <1>4. Ended(s)'
    BY <1>0 DEF Framed, RunInv, Ended, BeforeCreation, BeforeRemoval, Ours
  <1> QED
    BY <1>1, <1>2, <1>3, <1>4 DEF RunInv

\* At the start no run is anywhere and there is no manifest.
LEMMA InitHolds == Init => IInv
  <1> SUFFICES ASSUME Init PROVE IInv
    OBVIOUS
  <1>1. TypeOK
    BY DEF Init, TypeOK, Places, Parts, Observations
  <1>2. ASSUME NEW r \in Runs PROVE RunInv(r)
    BY <1>2, RunAssumption DEF Init, RunInv, Possession, Evidence, Extent, Ended, Past,
       Writing, Locked, Phases, Reads, Mutations, Preparations, Ours
  <1> QED
    BY <1>1, <1>2 DEF IInv

\* No step of a run takes another's lock or unmakes a manifest.
LEMMA OthersFramed ==
  ASSUME IInv, NEW r \in Runs, Prepares(r) \/ Executes(r) \/ Surroundings(r),
         NEW s \in Runs, s # r
  PROVE  Framed(s)
  <1> USE DEF IInv, TypeOK, Framed, GoTo, End, Stop, Proceed, Got, Appended, AppendFails,
          run, database, manifest
  <1>1. CASE Prepares(r)
    BY <1>1, RunAssumption DEF Prepares, Preflight, Start, Refuse, PrivateDirectory,
       Approve, CreateManifest, SyncManifest, ApprovalLine
  <1>2. CASE Executes(r)
    BY <1>2, RunAssumption DEF Executes, Checkpoint, Inspect, Authorize, Intent, Call,
       Return, Record, Result, Exit
  <1>3. CASE Surroundings(r)
    BY <1>3, RunAssumption DEF Surroundings, Tick, Watchdog, Effect, OtherWriter, Killed
  <1> QED
    BY <1>1, <1>2, <1>3

\* A step before execute() keeps what is known of its run.
LEMMA PreparesKeeps ==
  ASSUME IInv, NEW r \in Runs, Prepares(r)
  PROVE  RunInv(r)'
  <1> USE RunAssumption DEF IInv, TypeOK, Possession, Writing, Locked, Admitted, Environments,
          Extent, Ended, Evidence, Past, GoTo, End, Appended, AppendFails, FirstPart,
          run, database, manifest, Phases, Reads, Mutations, Preparations
  <1>0. RunInv(r)
    OBVIOUS
  <1>1. CASE Preflight(r)
    BY <1>0, <1>1 DEF RunInv, Preflight, PreflightPasses, BeforeCreation,
       BeforeRemoval, Ours
  <1>2. CASE Start(r)
    BY <1>0, <1>2 DEF RunInv, Start
  <1>3. CASE Refuse(r)
    BY <1>0, <1>3 DEF RunInv, Refuse
  <1>4. CASE PrivateDirectory(r)
    BY <1>0, <1>4 DEF RunInv, PrivateDirectory
  <1>5. CASE Approve(r)
    BY <1>0, <1>5 DEF RunInv, Approve
  <1>6. CASE CreateManifest(r)
    <2>1. called[r] = {} /\ inflight[r] = "none" /\ exit[r] = "none" /\ verdict[r] = "ok"
          /\ r # None
      BY <1>0, <1>6 DEF RunInv, CreateManifest
    <2>2. place'[r] = "sync" /\ owner' = r /\ exit' = exit /\ called' = called
          /\ inflight' = inflight /\ lock' = lock /\ env' = env /\ warned' = warned
          /\ verdict' = verdict
      BY <1>6 DEF CreateManifest
    <2>3. lock = r /\ Admitted(env) /\ env.private /\ ~warned[r]
      BY <1>0, <1>6 DEF RunInv, CreateManifest
    <2>4. Possession(r)'
      BY <2>1, <2>2, <2>3
    <2>5. Evidence(r)' /\ Ended(r)'
      BY <2>1, <2>2
    <2>6. Extent(r)'
      BY <2>1, <2>2
    <2> QED
      BY <2>4, <2>5, <2>6 DEF RunInv
  <1>7. CASE SyncManifest(r)
    BY <1>0, <1>7 DEF RunInv, SyncManifest
  <1>8. CASE ApprovalLine(r)
    <2>1. called[r] = {} /\ inflight[r] = "none" /\ exit[r] = "none" /\ verdict[r] = "ok"
      BY <1>0, <1>8 DEF RunInv, ApprovalLine
    <2>2. database' = database /\ UNCHANGED <<owner, kept, env, warned>>
      BY <1>8 DEF ApprovalLine
    <2>3. CASE <<"Approval", r>> \in durable' /\ GoTo(r, "Baseline") /\ UNCHANGED lock
      BY <1>0, <1>8, <2>1, <2>2, <2>3 DEF RunInv, ApprovalLine
    <2>4. CASE End(r, "exit2")
      BY <1>0, <1>8, <2>1, <2>2, <2>4 DEF RunInv, ApprovalLine
    <2> QED
      BY <1>8, <2>3, <2>4 DEF ApprovalLine
  <1> QED
    BY <1>1, <1>2, <1>3, <1>4, <1>5, <1>6, <1>7, <1>8 DEF Prepares

\* So does a step of execute(): each phase leaves its line behind it.
LEMMA ExecutesKeeps ==
  ASSUME IInv, NEW r \in Runs, Executes(r)
  PROVE  RunInv(r)'
  <1> USE RunAssumption DEF IInv, TypeOK, Possession, Writing, Locked, Admitted, Environments,
          Extent, Ended, Evidence, Past, GoTo, End, Stop, Proceed, Got, Appended, AppendFails,
          FirstPart, run, database, manifest, Phases, Reads, Mutations,
          BeforeCreation, BeforeRemoval, Ours
  <1>0. RunInv(r)
    OBVIOUS
  <1>1. CASE Checkpoint(r)
    BY <1>0, <1>1 DEF RunInv, Checkpoint
  <1>2. CASE Inspect(r)
    BY <1>0, <1>2 DEF RunInv, Inspect, Observed, ShapeMayExceed
  <1>3. CASE Authorize(r)
    BY <1>0, <1>3 DEF RunInv, Authorize
  <1>4. CASE Intent(r)
    BY <1>0, <1>4 DEF RunInv, Intent
  <1>5. CASE Call(r)
    BY <1>0, <1>5 DEF RunInv, Call
  <1>6. CASE Return(r)
    BY <1>0, <1>6 DEF RunInv, Return
  <1>7. CASE Record(r)
    <2> DEFINE stopped == place'[r] = "Result" /\ part'[r] = "record" /\ verdict'[r] # "ok"
               line == <<place[r], got[r]>>
    <2>1. /\ place[r] \in Phases /\ part[r] = "record" /\ durable \subseteq durable'
          /\ got' = got /\ exit' = exit /\ database' = database /\ lock' = lock /\ env' = env
          /\ warned' = warned /\ owner' = owner /\ kept' = kept
      BY <1>7 DEF Record
    <2>2. stopped \/ (/\ got[r] = Expected[place[r]] /\ place'[r] = After(place[r])
                     /\ part'[r] = FirstPart(After(place[r])) /\ verdict' = verdict
                     /\ line \in durable')
      BY <1>7 DEF Record
    <2>3. place[r] \notin {"Authorize"} /\ stopped => verdict'[r] = "quarantine"
      BY <1>0, <1>7 DEF RunInv, Record, Expected, After
    <2>4. Possession(r)'
      BY <1>0, <1>7 DEF RunInv, Record, Expected, After
    <2>5. Evidence(r)' /\ Extent(r)'
      <3>1. CASE stopped
        BY <1>0, <2>1, <2>3, <3>1 DEF RunInv
      <3>2. CASE ~stopped /\ place[r] \in {"Baseline", "Authorize", "BeforeCreate"}
        <4>1. called'[r] = {} /\ inflight'[r] = "none"
          BY <1>0, <2>1, <3>2 DEF RunInv
        <4> QED
          BY <1>0, <2>1, <2>2, <3>2, <4>1 DEF RunInv, Expected, After
      <3>3. CASE ~stopped /\ place[r] \in {"Create", "Created", "BeforeRemove"}
        BY <1>0, <2>1, <2>2, <3>3 DEF RunInv, Expected, After
      <3>4. CASE ~stopped /\ place[r] = "Remove"
        BY <1>0, <2>1, <2>2, <3>4 DEF RunInv, Expected, After
      <3>5. CASE ~stopped /\ place[r] = "Removed"
        BY <1>0, <2>1, <2>2, <3>5 DEF RunInv, Expected, After
      <3> QED
        BY <2>1, <3>1, <3>2, <3>3, <3>4, <3>5
    <2>6. Ended(r)'
      BY <1>0, <1>7 DEF RunInv, Record, Expected, After
    <2> QED
      BY <2>4, <2>5, <2>6 DEF RunInv
  <1>8. CASE Result(r)
    <2>1. /\ place[r] = "Result" /\ place' = place /\ durable \subseteq durable'
          /\ part[r] = "record" /\ part'[r] = "exit"
          /\ got' = got /\ exit' = exit /\ database' = database /\ lock' = lock /\ env' = env
          /\ warned' = warned /\ owner' = owner /\ kept' = kept
          /\ \/ verdict'[r] = verdict[r] /\ <<"Result", verdict[r]>> \in durable'
             \/ verdict'[r] = "quarantine"
      BY <1>8 DEF Result
    <2>2. Possession(r)' /\ Ended(r)'
      BY <1>0, <2>1 DEF RunInv
    <2>3. Evidence(r)'
      BY <1>0, <2>1 DEF RunInv
    <2>4. Extent(r)'
      BY <1>0, <2>1 DEF RunInv
    <2> QED
      BY <2>2, <2>3, <2>4 DEF RunInv
  <1>9. CASE Exit(r)
    BY <1>0, <1>9 DEF RunInv, Exit, ExitCode
  <1> QED
    BY <1>1, <1>2, <1>3, <1>4, <1>5, <1>6, <1>7, <1>8, <1>9 DEF Executes

\* And what happens around a run: time, its end, the database and other writers.
LEMMA SurroundingsKeep ==
  ASSUME IInv, NEW r \in Runs, Surroundings(r)
  PROVE  RunInv(r)'
  <1> USE RunAssumption DEF IInv, TypeOK, Possession, Writing, Locked, Admitted, Environments,
          Extent, Ended, Evidence, Past, End, run, database, manifest, Phases, Reads, Mutations,
          BeforeCreation, BeforeRemoval, Ours, Running
  <1>0. RunInv(r)
    OBVIOUS
  <1>1. CASE Tick(r, "watchdog") \/ Tick(r, "checkpoint")
    BY <1>0, <1>1 DEF RunInv, Tick
  <1>2. CASE Watchdog(r) \/ Killed(r)
    BY <1>0, <1>2 DEF RunInv, Watchdog, Killed
  <1>3. CASE Effect(r)
    BY <1>0, <1>3 DEF RunInv, Effect
  <1>4. CASE OtherWriter(r)
    BY <1>0, <1>4 DEF RunInv, OtherWriter, Others
  <1> QED
    BY <1>1, <1>2, <1>3, <1>4 DEF Surroundings

\* A power loss ends every run; a synced manifest and its lines stay.
LEMMA PowerLossKeeps ==
  ASSUME IInv, PowerLoss, NEW r \in Runs
  PROVE  RunInv(r)'
  <1> USE RunAssumption DEF IInv, TypeOK, Possession, Writing, Locked, Admitted, Environments,
          Extent, Ended, Evidence, Past, PowerLoss, Running, Phases, Reads, Mutations,
          BeforeCreation, BeforeRemoval, Ours
  <1>0. RunInv(r)
    OBVIOUS
  <1>1. Possession(r)'
    BY <1>0 DEF RunInv
  <1>2. Evidence(r)'
    BY <1>0 DEF RunInv
  <1>3. Extent(r)'
    BY <1>0 DEF RunInv
  <1>4. Ended(r)'
    BY <1>0 DEF RunInv
  <1> QED
    BY <1>1, <1>2, <1>3, <1>4 DEF RunInv

\* Whatever is appended to the manifest is a line.
LEMMA LinesTypes ==
  ASSUME TypeOK, NEW r \in Runs
  PROVE  /\ <<"Approval", r>> \in Lines
         /\ \A p \in Phases : /\ <<p, "shape">> \in Lines /\ <<p, "intent">> \in Lines
                              /\ <<p, got[r]>> \in Lines
         /\ <<"Result", verdict[r]>> \in Lines
  BY DEF TypeOK, Lines

\* An append leaves lines, whether it succeeds or not.
LEMMA AppendTypes ==
  ASSUME TypeOK, NEW line \in Lines, Appended(line) \/ AppendFails(line)
  PROVE  owner' = owner /\ kept' = kept /\ durable' \subseteq Lines /\ loose' \subseteq Lines
  BY DEF TypeOK, Appended, AppendFails

\* The types are kept by every step.
LEMMA TypesKept == IInv /\ [Next]_vars => TypeOK'
  <1> SUFFICES ASSUME IInv, [Next]_vars PROVE TypeOK'
    OBVIOUS
  <1> USE DEF IInv, TypeOK, GoTo, End, Stop, Proceed, Got, FirstPart, run, database, manifest,
          Places, Preparations, Phases, Reads, Mutations, Parts
  <1>1. CASE PowerLoss
    BY <1>1 DEF PowerLoss
  <1>2. ASSUME NEW r \in Runs, Prepares(r) PROVE TypeOK'
    <2>1. CASE ApprovalLine(r)
      <3>1. UNCHANGED <<owner, kept>> /\ durable' \subseteq Lines /\ loose' \subseteq Lines
        BY <2>1, LinesTypes, AppendTypes DEF ApprovalLine
      <3> QED
        BY <2>1, <3>1 DEF ApprovalLine
    <2>2. CASE Start(r) \/ Refuse(r)
      BY <2>2 DEF Start, Refuse
    <2>7. CASE Preflight(r)
      <3>1. warned' \in [Runs -> BOOLEAN]
        <4>1. (~PreflightPasses(env)) \in BOOLEAN
          BY DEF PreflightPasses
        <4> QED
          BY <2>7, <4>1 DEF Preflight
      <3> QED
        BY <2>7, <3>1 DEF Preflight
    <2>3. CASE PrivateDirectory(r)
      BY <2>3 DEF PrivateDirectory
    <2>4. CASE Approve(r)
      BY <2>4 DEF Approve
    <2>5. CASE CreateManifest(r)
      BY <2>5 DEF CreateManifest
    <2>6. CASE SyncManifest(r)
      BY <2>6 DEF SyncManifest
    <2> QED
      BY <1>2, <2>1, <2>2, <2>3, <2>4, <2>5, <2>6, <2>7 DEF Prepares
  <1>3. ASSUME NEW r \in Runs, Executes(r) PROVE TypeOK'
    <2>1. CASE Checkpoint(r) \/ Authorize(r) \/ Return(r)
      BY <2>1 DEF Checkpoint, Authorize, Return
    <2>2. CASE Inspect(r)
      <3>1. UNCHANGED <<owner, kept>> /\ durable' \subseteq Lines /\ loose' \subseteq Lines
        BY <2>2, LinesTypes, AppendTypes DEF Inspect
      <3> QED
        BY <2>2, <3>1 DEF Inspect, Observed, Observations
    <2>3. CASE Intent(r)
      <3>1. UNCHANGED <<owner, kept>> /\ durable' \subseteq Lines /\ loose' \subseteq Lines
        BY <2>3, LinesTypes, AppendTypes DEF Intent
      <3> QED
        BY <2>3, <3>1 DEF Intent
    <2>7. CASE Call(r)
      BY <2>7 DEF Call
    <2>4. CASE Record(r)
      <3>1. UNCHANGED <<owner, kept>> /\ durable' \subseteq Lines /\ loose' \subseteq Lines
        BY <2>4, LinesTypes, AppendTypes DEF Record
      <3> QED
        BY <2>4, <3>1 DEF Record, After
    <2>5. CASE Result(r)
      <3>1. UNCHANGED <<owner, kept>> /\ durable' \subseteq Lines /\ loose' \subseteq Lines
        BY <2>5, LinesTypes, AppendTypes DEF Result
      <3> QED
        BY <2>5, <3>1 DEF Result
    <2>6. CASE Exit(r)
      BY <2>6 DEF Exit, ExitCode
    <2> QED
      BY <1>3, <2>1, <2>2, <2>3, <2>4, <2>5, <2>6, <2>7 DEF Executes
  <1>4. ASSUME NEW r \in Runs, Surroundings(r) PROVE TypeOK'
    BY <1>4 DEF Surroundings, Tick, Watchdog, Effect, OtherWriter, Killed, Ours, Others
  <1>5. CASE UNCHANGED vars
    BY <1>5 DEF vars
  <1> QED
    BY <1>1, <1>2, <1>3, <1>4, <1>5 DEF Next

\* The invariant is inductive.
LEMMA StepHolds == IInv /\ [Next]_vars => IInv'
  <1> SUFFICES ASSUME IInv, [Next]_vars PROVE IInv'
    OBVIOUS
  <1>1. TypeOK'
    BY TypesKept
  <1>2. ASSUME NEW s \in Runs PROVE RunInv(s)'
    <2>1. CASE PowerLoss
      BY <2>1, PowerLossKeeps
    <2>2. ASSUME NEW r \in Runs, Prepares(r) \/ Executes(r) \/ Surroundings(r)
          PROVE  RunInv(s)'
      <3>1. CASE s = r
        BY <2>2, <3>1, PreparesKeeps, ExecutesKeeps, SurroundingsKeep
      <3>2. CASE s # r
        BY <2>2, <3>2, OthersFramed, Frame DEF IInv
      <3> QED
        BY <3>1, <3>2
    <2>3. CASE UNCHANGED vars
      <3>1. Framed(s)
        BY <2>3 DEF Framed, vars, run, database, manifest
      <3> QED
        BY <3>1, Frame DEF IInv
    <2> QED
      BY <2>1, <2>2, <2>3 DEF Next
  <1> QED
    BY <1>1, <1>2 DEF IInv

\* The strengthened invariant holds in every behaviour of the experiment.
THEOREM Invariance == Spec => []IInv
  <1> QED
    BY InitHolds, StepHolds, PTL DEF Spec

-----------------------------------------------------------------------------

\* Every variable keeps its type in every behaviour of the experiment.
THEOREM TypeCorrect == Spec => []TypeOK
  <1>1. IInv => TypeOK
    BY DEF IInv
  <1> QED
    BY <1>1, Invariance, PTL

\* The exit code of a run (native.rs run()) is true of the database and of the
\* manifest, whatever fails and however the run ended.
THEOREM ExitHolds == Spec => []ExitTruthful
  <1>1. IInv => ExitTruthful
    BY DEF IInv, RunInv, Ended, ExitTruthful
  <1> QED
    BY <1>1, Invariance, PTL

\* No mutation begins before its evidence is durable, in a manifest that is the
\* run's own (protocol.rs mutation(), Journal::create).
THEOREM EvidenceHolds == Spec => []EvidenceFirst
  <1>1. IInv => EvidenceFirst
    BY DEF IInv, RunInv, Extent, EvidenceFirst
  <1> QED
    BY <1>1, Invariance, PTL

\* What --preflight refuses, --run refuses before it mutates anything.
THEOREM PreflightIsHonest == Spec => []PreflightHolds
  <1>1. IInv => PreflightHolds
    BY RunAssumption DEF IInv, RunInv, Possession, Extent, PreflightHolds
  <1> QED
    BY <1>1, Invariance, PTL

-----------------------------------------------------------------------------
(* The executor.                                                            *)

Moment ==
    /\ pc # "idle" => result = NoResult
    /\ pc \in {"inspect", "create"} \cup Uninstalling => writer = "other"

Authority ==
    /\ pc = "create" => policy = "absent" \/ others = "after"
    /\ pc \in {"remove", "remove_created"} => policy \in {"absent", "rule"} \/ others = "after"
    /\ pc \in Installing /\ policy # "absent" => writer = "call" \/ others # "never"

ExecutorInv == ExecutorTypeOK /\ Moment /\ Authority /\ ReportHolds /\ LeftoverReported

\* What an inspection can say, and what it implies of the entry.
LEMMA ClassifiedFacts ==
    /\ \A entry \in Entries : Classified[entry] \in DOMAIN PlanInstall
    /\ DOMAIN PlanInstall = DOMAIN PlanUninstall
    /\ \A entry \in Entries : (Classified[entry] = "absent") <=> (entry = "absent")
    /\ \A entry \in Entries : (Classified[entry] = "exact_owned") <=> (entry = "rule")
  BY DEF Classified, PlanInstall, PlanUninstall

\* The plans look at nothing but whether the entry is absent, exact or neither.
LEMMA PlanFacts ==
    ASSUME ExecutorTypeOK
    PROVE  /\ (PlanInstall[Classified[policy]] = "create") <=> (policy = "absent")
           /\ (PlanInstall[Classified[policy]] = "already_owned") <=> (policy = "rule")
           /\ (PlanUninstall[Classified[policy]] = "already_absent") <=> (policy = "absent")
           /\ (PlanUninstall[Classified[policy]] = "remove") <=> (policy = "rule")
           /\ (PlanUninstall[Classified[policy]] = "preserve")
                <=> (Classified[policy] \in {"conflicting", "unrecognized"})
  BY ClassifiedFacts DEF ExecutorTypeOK, Classified, PlanInstall, PlanUninstall

\* Whatever a call reports is a result.
LEMMA ResultTypes ==
    /\ NoResult \in Results
    /\ \A o \in Outcomes : [outcome |-> o, cleanup |-> "none"] \in Results
    /\ \A p \in Failures, c \in Cleanups : [outcome |-> p, cleanup |-> c] \in Results
  BY DEF NoResult, Results

\* At the start no call is on its way and none has reported.
LEMMA ExecutorInitHolds == ExecutorInit => ExecutorInv
  <1> SUFFICES ASSUME ExecutorInit PROVE ExecutorInv
    OBVIOUS
  <1>1. ExecutorTypeOK
    BY ResultTypes DEF ExecutorInit, ExecutorTypeOK, Uninstalling
  <1>2. Moment /\ Authority
    BY DEF ExecutorInit, Moment, Authority, Installing
  <1>3. ReportHolds /\ LeftoverReported
    BY DEF ExecutorInit, ReportHolds, LeftoverReported, NoResult
  <1> QED
    BY <1>1, <1>2, <1>3 DEF ExecutorInv

Looked ==
    /\ others' = IF others = "after" THEN "before" ELSE others
    /\ UNCHANGED <<policy, writer, call>>

\* No step of a call, of another writer or of a kill breaks the invariant.
LEMMA ExecutorStepHolds == ExecutorInv /\ [ExecutorNext]_executorVars => ExecutorInv'
  <1> SUFFICES ASSUME ExecutorInv, [ExecutorNext]_executorVars PROVE ExecutorInv'
    OBVIOUS
  <1> USE DEF ExecutorInv
  <1>a. /\ (PlanInstall[Classified[policy]] = "create") <=> (policy = "absent")
        /\ (PlanInstall[Classified[policy]] = "already_owned") <=> (policy = "rule")
        /\ (PlanUninstall[Classified[policy]] = "already_absent") <=> (policy = "absent")
        /\ (PlanUninstall[Classified[policy]] = "remove") <=> (policy = "rule")
        /\ (PlanUninstall[Classified[policy]] = "preserve")
             <=> (Classified[policy] \in {"conflicting", "unrecognized"})
    BY PlanFacts
  <1>1. CASE Begin
    <2>1. result' \in Results
      BY <1>1, ResultTypes DEF Begin
    <2>2. ExecutorTypeOK'
      BY <1>1, <2>1 DEF Begin, ExecutorTypeOK, Installing, Uninstalling
    <2>3. Moment'
      BY <1>1 DEF Begin, Moment
    <2>4. Authority'
      BY <1>1 DEF Begin, Authority, Installing
    <2>5. ReportHolds'
      BY <1>1 DEF Begin, ReportHolds, NoResult
    <2>6. LeftoverReported'
      BY <1>1 DEF Begin, LeftoverReported
    <2> QED
      BY <2>2, <2>3, <2>4, <2>5, <2>6
  <1>2. CASE InspectForInstall
    <2>1. /\ pc = "inspect" /\ call = "install"
          /\ \/ InspectionFailed /\ Failed("inspection_failed", "not_attempted")
             \/ policy = "absent" /\ Looked /\ GoOn("create")
             \/ policy = "rule" /\ Looked /\ Done("already_owned")
             \/ Looked /\ Failed("conflicting_definition", "not_attempted")
      BY <1>2, <1>a DEF InspectForInstall, Inspected, Looked
    <2>2. result' \in Results
      BY <2>1, ResultTypes DEF GoOn, Done, Failed, ExecutorTypeOK, Outcomes,
         Failures, Cleanups
    <2>3. ExecutorTypeOK'
      BY <2>1, <2>2 DEF Looked, InspectionFailed, GoOn, Done, Failed,
         ExecutorTypeOK, Installing, Uninstalling
    <2>4. Moment'
      BY <2>1 DEF Looked, InspectionFailed, GoOn, Done, Failed, Moment
    <2>5. Authority'
      BY <2>1 DEF Looked, Done, Failed, Authority, Installing
    <2>6. ReportHolds'
      BY <2>1 DEF Looked, GoOn, Done, Failed, Moment, ReportHolds,
         NoResult
    <2>7. LeftoverReported'
      BY <2>1 DEF Looked, InspectionFailed, Moment, LeftoverReported
    <2> QED
      BY <2>3, <2>4, <2>5, <2>6, <2>7
  <1>3. CASE Create
    <2>1. result' \in Results
      BY <1>3, ResultTypes DEF Create, CreateHasEffect, GoOn, Failed,
         ExecutorTypeOK, Failures, Cleanups
    <2>2. ExecutorTypeOK'
      BY <1>3, <2>1 DEF Create, CreateHasEffect, NoEffect, GoOn, Failed,
         ExecutorTypeOK, Entries, Installing, Uninstalling
    <2>3. Moment'
      BY <1>3 DEF Create, CreateHasEffect, GoOn, Failed, Moment,
         Uninstalling
    <2>4. Authority'
      BY <1>3 DEF Create, CreateHasEffect, NoEffect, GoOn, Failed,
         Authority
    <2>5. ReportHolds'
      BY <1>3 DEF Create, CreateHasEffect, GoOn, Failed, Moment,
         ReportHolds, NoResult
    <2>6. LeftoverReported'
      BY <1>3 DEF Create, CreateHasEffect, GoOn, Failed, Moment,
         LeftoverReported, NoResult
    <2> QED
      BY <2>2, <2>3, <2>4, <2>5, <2>6
  <1>4. CASE VerifyCreate
    <2>1. /\ pc = "verify_create"
          /\ \/ InspectionFailed /\ GoOn("inspect_created")
             \/ policy = "rule" /\ Looked /\ Done("installed")
             \/ Looked /\ GoOn("inspect_created")
      BY <1>4, <1>a DEF VerifyCreate, Inspected, Looked
    <2>2. result' \in Results
      BY <2>1, ResultTypes DEF GoOn, Done, ExecutorTypeOK, Outcomes
    <2>3. ExecutorTypeOK'
      BY <2>1, <2>2 DEF Looked, InspectionFailed, GoOn, Done, ExecutorTypeOK,
         Installing, Uninstalling
    <2>4. Moment'
      BY <2>1 DEF GoOn, Done, Moment, Uninstalling
    <2>5. Authority'
      BY <2>1 DEF Looked, InspectionFailed, GoOn, Done, Authority,
         Installing
    <2>6. ReportHolds'
      BY <2>1 DEF Looked, GoOn, Done, Moment, ReportHolds, NoResult
    <2>7. LeftoverReported'
      BY <2>1 DEF Looked, InspectionFailed, GoOn, Done, LeftoverReported
    <2> QED
      BY <2>3, <2>4, <2>5, <2>6, <2>7
  <1>5. CASE InspectCreated
    <2>1. /\ pc = "inspect_created"
          /\ \/ InspectionFailed /\ CreatedFailed("inspection_failed")
             \/ policy = "absent" /\ Looked /\ CreatedFailed("already_absent")
             \/ /\ Classified[policy] \in {"conflicting", "unrecognized"}
                /\ Looked /\ CreatedFailed("preserved_conflict")
             \/ policy = "rule" /\ Looked /\ GoOn("remove_created")
      BY <1>5, <1>a DEF InspectCreated, Inspected, Looked, PlanUninstall
    <2>2. result' \in Results
      BY <2>1, ResultTypes DEF CreatedFailed, GoOn, Failed, ExecutorTypeOK,
         Failures, Cleanups
    <2>3. ExecutorTypeOK'
      BY <2>1, <2>2 DEF Looked, InspectionFailed, CreatedFailed, GoOn,
         Failed, ExecutorTypeOK, Installing, Uninstalling
    <2>4. Moment'
      BY <2>1 DEF CreatedFailed, GoOn, Failed, Moment, Uninstalling
    <2>5. Authority'
      BY <2>1 DEF Looked, CreatedFailed, GoOn, Failed, Authority, Installing
    <2>6. ReportHolds'
      BY <2>1 DEF Looked, CreatedFailed, GoOn, Failed, Moment, ReportHolds,
         NoResult
    <2>7. LeftoverReported'
      BY <2>1 DEF Looked, CreatedFailed, GoOn, Failed, ExecutorTypeOK,
         LeftoverReported
    <2> QED
      BY <2>3, <2>4, <2>5, <2>6, <2>7
  <1>6. CASE RemoveCreated
    <2>1. result' \in Results
      BY <1>6, ResultTypes DEF RemoveCreated, RemoveHasEffect, CreatedFailed,
         GoOn, Failed, ExecutorTypeOK, Failures, Cleanups
    <2>2. ExecutorTypeOK'
      BY <1>6, <2>1 DEF RemoveCreated, RemoveHasEffect, NoEffect,
         CreatedFailed, GoOn, Failed, ExecutorTypeOK, Entries, Installing,
         Uninstalling
    <2>3. Moment'
      BY <1>6 DEF RemoveCreated, RemoveHasEffect, CreatedFailed, GoOn,
         Failed, Moment, Uninstalling
    <2>4. Authority'
      BY <1>6 DEF RemoveCreated, RemoveHasEffect, CreatedFailed, Failed,
         Authority, Installing
    <2>5. ReportHolds'
      BY <1>6 DEF RemoveCreated, RemoveHasEffect, CreatedFailed, GoOn,
         Failed, Moment, ReportHolds, NoResult
    <2>6. LeftoverReported'
      BY <1>6 DEF RemoveCreated, RemoveHasEffect, CreatedFailed, Failed,
         LeftoverReported
    <2> QED
      BY <2>2, <2>3, <2>4, <2>5, <2>6
  <1>7. CASE VerifyRemoval
    <2>1. /\ pc = "verify_removal"
          /\ \/ InspectionFailed /\ CreatedFailed("verification_failed")
             \/ policy = "absent" /\ Looked /\ CreatedFailed("removed")
             \/ policy # "absent" /\ Looked /\ CreatedFailed("still_present")
      BY <1>7, <1>a DEF VerifyRemoval, Inspected, Looked
    <2>2. result' \in Results
      BY <2>1, ResultTypes DEF CreatedFailed, Failed, Failures, Cleanups
    <2>3. ExecutorTypeOK'
      BY <2>1, <2>2 DEF Looked, InspectionFailed, CreatedFailed, Failed,
         ExecutorTypeOK, Uninstalling
    <2>4. Moment'
      BY <2>1 DEF CreatedFailed, Failed, Moment, Uninstalling
    <2>5. Authority'
      BY <2>1 DEF CreatedFailed, Failed, Authority, Installing
    <2>6. ReportHolds'
      BY <2>1 DEF Looked, CreatedFailed, Failed, ReportHolds
    <2>7. LeftoverReported'
      BY <2>1 DEF Looked, CreatedFailed, Failed, ExecutorTypeOK, LeftoverReported
    <2> QED
      BY <2>3, <2>4, <2>5, <2>6, <2>7
  <1>8. CASE InspectForUninstall
    <2>1. /\ pc = "inspect" /\ call = "uninstall"
          /\ \/ InspectionFailed /\ Failed("inspection_failed", "not_attempted")
             \/ policy = "absent" /\ Looked /\ Done("already_absent")
             \/ Looked /\ Failed("conflicting_definition", "not_attempted")
             \/ policy = "rule" /\ Looked /\ GoOn("remove")
      BY <1>8, <1>a DEF InspectForUninstall, Inspected, Looked, PlanUninstall
    <2>2. result' \in Results
      BY <2>1, ResultTypes DEF GoOn, Done, Failed, ExecutorTypeOK, Outcomes,
         Failures, Cleanups
    <2>3. ExecutorTypeOK'
      BY <2>1, <2>2 DEF Looked, InspectionFailed, GoOn, Done, Failed,
         ExecutorTypeOK, Installing, Uninstalling
    <2>4. Moment'
      BY <2>1 DEF Looked, InspectionFailed, GoOn, Done, Failed, Moment
    <2>5. Authority'
      BY <2>1 DEF Looked, GoOn, Failed, Authority, Installing
    <2>6. ReportHolds'
      BY <2>1 DEF Looked, GoOn, Done, Failed, Moment, ReportHolds,
         NoResult
    <2>7. LeftoverReported'
      BY <2>1 DEF Looked, InspectionFailed, Moment, LeftoverReported
    <2> QED
      BY <2>3, <2>4, <2>5, <2>6, <2>7
  <1>9. CASE Remove
    <2>1. result' \in Results
      BY <1>9, ResultTypes DEF Remove, RemoveHasEffect, GoOn, Failed,
         ExecutorTypeOK, Failures, Cleanups
    <2>2. ExecutorTypeOK'
      BY <1>9, <2>1 DEF Remove, RemoveHasEffect, NoEffect, GoOn, Failed,
         ExecutorTypeOK, Entries, Installing, Uninstalling
    <2>3. Moment'
      BY <1>9 DEF Remove, RemoveHasEffect, GoOn, Failed, Moment,
         Uninstalling
    <2>4. Authority'
      BY <1>9 DEF Remove, RemoveHasEffect, Failed, Authority, Installing
    <2>5. ReportHolds'
      BY <1>9 DEF Remove, RemoveHasEffect, GoOn, Failed, Moment,
         ReportHolds, NoResult
    <2>6. LeftoverReported'
      BY <1>9 DEF Remove, RemoveHasEffect, NoEffect, Moment,
         LeftoverReported, Uninstalling
    <2> QED
      BY <2>2, <2>3, <2>4, <2>5, <2>6
  <1>10. CASE VerifyRemove
    <2>1. /\ pc = "verify_remove"
          /\ \/ InspectionFailed /\ Failed("remove_verification_failed", "not_attempted")
             \/ policy = "absent" /\ Looked /\ Done("uninstalled")
             \/ Looked /\ Failed("remove_verification_failed", "not_attempted")
      BY <1>10, <1>a DEF VerifyRemove, Inspected, Looked
    <2>2. result' \in Results
      BY <2>1, ResultTypes DEF Done, Failed, Outcomes, Failures, Cleanups
    <2>3. ExecutorTypeOK'
      BY <2>1, <2>2 DEF Looked, InspectionFailed, Done, Failed, ExecutorTypeOK,
         Installing
    <2>4. Moment'
      BY <2>1 DEF Done, Failed, Moment, Uninstalling
    <2>5. Authority'
      BY <2>1 DEF Done, Failed, Authority, Installing
    <2>6. ReportHolds'
      BY <2>1 DEF Looked, Done, Failed, ReportHolds
    <2>7. LeftoverReported'
      BY <2>1 DEF Looked, InspectionFailed, Moment, LeftoverReported,
         Uninstalling
    <2> QED
      BY <2>3, <2>4, <2>5, <2>6, <2>7
  <1>11. CASE AnotherWriter
    <2>1. result' \in Results
      BY <1>11, ResultTypes DEF AnotherWriter, ExecutorTypeOK
    <2>2. ExecutorTypeOK'
      BY <1>11, <2>1 DEF AnotherWriter, ExecutorTypeOK
    <2>3. Moment'
      BY <1>11 DEF AnotherWriter, Moment
    <2>4. Authority'
      BY <1>11 DEF AnotherWriter, Authority
    <2>5. ReportHolds'
      BY <1>11 DEF AnotherWriter, ReportHolds
    <2>6. LeftoverReported'
      BY <1>11 DEF AnotherWriter, LeftoverReported
    <2> QED
      BY <2>2, <2>3, <2>4, <2>5, <2>6
  <1>12. CASE ExecutorKilled
    <2>1. result' \in Results
      BY <1>12, ResultTypes DEF ExecutorKilled
    <2>2. ExecutorTypeOK'
      BY <1>12, <2>1 DEF ExecutorKilled, ExecutorTypeOK, Installing, Uninstalling
    <2>3. Moment'
      BY <1>12 DEF ExecutorKilled, Moment, Uninstalling
    <2>4. Authority'
      BY <1>12 DEF ExecutorKilled, Authority, Installing
    <2>5. ReportHolds'
      BY <1>12 DEF ExecutorKilled, ReportHolds, NoResult
    <2>6. LeftoverReported'
      BY <1>12 DEF ExecutorKilled, LeftoverReported, NoResult
    <2> QED
      BY <2>2, <2>3, <2>4, <2>5, <2>6
  <1>13. CASE UNCHANGED executorVars
    BY <1>13 DEF executorVars, ExecutorTypeOK, Moment, Authority, ReportHolds,
       LeftoverReported
  <1> QED
    BY <1>1, <1>2, <1>3, <1>4, <1>5, <1>6, <1>7, <1>8, <1>9, <1>10, <1>11, <1>12,
       <1>13 DEF ExecutorNext

(* The inductive invariant holds of every call, install or uninstall,      *)
(* however often the process dies and whoever else writes.                  *)
THEOREM ExecutorInvariance == ExecutorSpec => []ExecutorInv
  BY ExecutorInitHolds, ExecutorStepHolds, PTL DEF ExecutorSpec

(* Every variable keeps its type, and an absent entry is nobody's, in every *)
(* behaviour of the executor (the adapter's calls of                        *)
(* helper_runtime_right_execution.rs in any order it can reach).            *)
THEOREM ExecutorTypeCorrect == ExecutorSpec => []ExecutorTypeOK
  BY ExecutorInvariance, PTL DEF ExecutorInv

(* What install and uninstall report is what is there until somebody else   *)
(* writes.                                                                  *)
THEOREM ReportsHold == ExecutorSpec => []ReportHolds
  BY ExecutorInvariance, PTL DEF ExecutorInv

(* A right that a failed install leaves behind is never reported as settled. *)
THEOREM LeftoversReported == ExecutorSpec => []LeftoverReported
  BY ExecutorInvariance, PTL DEF ExecutorInv

(* Without another writer in between, install touches nothing that it did   *)
(* not write and nothing but the exact definition is ever removed.          *)
THEOREM OthersAreSpared == ExecutorSpec => OthersSpared
  <1>1. ExecutorInv /\ [ExecutorNext]_executorVars =>
          [policy' # policy /\ policy # "absent" =>
             /\ call = "install" /\ writer = "other" => others' # "never"
             /\ policy' = "absent" /\ policy # "rule" => others' = "after"]_executorVars
    <2> SUFFICES ASSUME ExecutorInv, ExecutorNext, policy' # policy, policy # "absent"
                 PROVE  /\ call = "install" /\ writer = "other" => others' # "never"
                        /\ policy' = "absent" /\ policy # "rule" => others' = "after"
      BY DEF executorVars
    <2> USE DEF ExecutorInv
    <2>1. CASE Create
      BY <2>1 DEF Create, CreateHasEffect, NoEffect, Authority
    <2>2. CASE RemoveCreated
      BY <2>2 DEF RemoveCreated, RemoveHasEffect, NoEffect, Authority,
         Installing
    <2>3. CASE Remove
      BY <2>3 DEF Remove, RemoveHasEffect, NoEffect, Authority, ExecutorTypeOK
    <2>4. CASE AnotherWriter
      BY <2>4 DEF AnotherWriter
    <2>5. CASE Begin \/ ExecutorKilled
      BY <2>5 DEF Begin, ExecutorKilled
    <2>6. CASE InspectForInstall \/ VerifyCreate \/ InspectCreated \/ VerifyRemoval
                 \/ InspectForUninstall \/ VerifyRemove
      BY <2>6 DEF InspectForInstall, VerifyCreate, InspectCreated,
         VerifyRemoval, InspectForUninstall, VerifyRemove, Inspected,
         InspectionFailed
    <2> QED
      BY <2>1, <2>2, <2>3, <2>4, <2>5, <2>6 DEF ExecutorNext
  <1> QED
    BY ExecutorInvariance, <1>1, PTL DEF ExecutorSpec, OthersSpared
=============================================================================
