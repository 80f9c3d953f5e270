----------------------- MODULE ProcessSupervisorProofs -----------------------
(***************************************************************************)
(* With a supervisor of its own for each start, as ProxyService makes it,  *)
(* no engine outlives the word of its supervisor that it is not running,   *)
(* for every number of starts, every timeout and every cancellation; and   *)
(* no config is forgotten if the caller stops after a cancelled start.     *)
(*                                                                         *)
(* The inductive part: a child that runs has its pid published, belongs to *)
(* the supervisor in place, and its worker has not begun to wind up.       *)
(***************************************************************************)
EXTENDS ProcessSupervisor, TLAPS

Attending == {"probing", "serving", "terminating"}
WoundUp == {"clearing", "cleaning", "announcing", "done"}

\* Where the caller stands, what it may rely on.
CallerInv ==
  /\ sup \in 0..session
  /\ caller = "preflight" => session \in Sessions /\ sup # session
  /\ caller \in {"preflight", "starting"} => child[session] = "none"
  /\ caller = "starting" => state[sup] = "Starting"
  /\ caller \in {"starting", "readiness"} => session \in Sessions /\ sup = session
  /\ caller = "finish" => \A s \in Sessions : child[s] # "running"
  /\ \A s \in Sessions : s > session => child[s] = "none"

\* What a worker has done to its child by the step it stands at.
WorkerInv ==
  \A s \in Sessions :
    /\ worker[s] = "none" <=> child[s] = "none"
    /\ worker[s] \in WoundUp => child[s] = "reaped"
    /\ worker[s] \in {"killing", "cleaning", "announcing"} =>
         verdict[s] \in {"Stopped", "Failed"}
    /\ worker[s] = "clearing" => verdict[s] # "none"
    /\ readiness[s] = "err" => worker[s] = "done"

\* A child that runs.
RunningInv ==
  \A s \in Sessions :
    child[s] = "running" => worker[s] \in Attending /\ active_pid[s] = s

IInv == /\ Fresh = TRUE
        /\ TypeOK /\ CallerInv /\ WorkerInv /\ RunningInv
        /\ NotRunningMeansGone /\ StopLeavesNoChild

LEMMA InitInv == ASSUME Fresh = TRUE, Init PROVE IInv
<1>1. MaxSessions \in Nat \ {0}
  BY SupervisorAssumption
<1>2. TypeOK
  <2>1. /\ caller \in CallerSteps /\ last = "none" /\ session \in 0..MaxSessions
        /\ sup \in Supervisors /\ path \in 0..session /\ asked \in 0..session
    BY <1>1 DEF Init, CallerSteps, Supervisors
  <2>2. /\ state \in [Supervisors -> States]
        /\ active_pid \in [Supervisors -> 0..session]
        /\ cmd_tx \in [Supervisors -> 0..session]
        /\ file \in [Supervisors -> Files]
    BY DEF Init, States, Files
  <2>3. /\ queued \subseteq Sessions /\ worker \in [Sessions -> WorkerSteps]
        /\ verdict \in [Sessions -> {"none", "Stopped", "Failed", "byExit"}]
        /\ readiness \in [Sessions -> {"none", "ok", "err"}]
        /\ child \in [Sessions -> {"none", "running", "killed", "exited", "reaped"}]
    BY DEF Init, WorkerSteps
  <2>4. \A o \in Supervisors, s \in Sessions : s \notin {active_pid[o], cmd_tx[o]}
    BY <1>1 DEF Init, Sessions
  <2> QED
    BY <2>1, <2>2, <2>3, <2>4 DEF TypeOK
<1>3. CallerInv
  BY <1>1 DEF Init, CallerInv, Sessions
<1>4. WorkerInv /\ RunningInv /\ NotRunningMeansGone /\ StopLeavesNoChild
  BY DEF Init, WorkerInv, RunningInv, NotRunningMeansGone, StopLeavesNoChild, WoundUp
<1> QED
  BY <1>2, <1>3, <1>4 DEF IInv

-----------------------------------------------------------------------------
\* Facts the steps share.

\* Only the child of the supervisor in place may be running, and its pid is there.
LEMMA OnlyOne ==
  ASSUME IInv, NEW s \in Sessions, child[s] = "running"
  PROVE  /\ s = sup /\ active_pid[sup] = sup /\ caller # "gone"
         /\ state[sup] \notin {"Stopped", "Failed"}
  BY DEF IInv, NotRunningMeansGone, RunningInv, Of

\* Killing by that pid leaves nothing running.
LEMMA KilledRest ==
  ASSUME IInv PROVE \A s \in Sessions : Killed(active_pid[sup])[s] # "running"
  BY OnlyOne DEF Killed

\* What Killed gives.
LEMMA KilledType ==
  ASSUME IInv, NEW pid
  PROVE  /\ Killed(pid) \in [Sessions -> {"none", "running", "killed", "exited", "reaped"}]
         /\ \A s \in Sessions :
              /\ (Killed(pid)[s] = "none") = (child[s] = "none")
              /\ (Killed(pid)[s] = "reaped") = (child[s] = "reaped")
              /\ Killed(pid)[s] = "running" => child[s] = "running" /\ s # pid
  BY DEF IInv, TypeOK, Killed

LEMMA TypeConstants ==
  /\ MaxSessions \in Nat \ {0} /\ Sessions \subseteq Supervisors
  /\ 0 \in Supervisors /\ 0 \notin Sessions /\ \A s \in Sessions : s \in Nat
  BY SupervisorAssumption DEF Sessions, Supervisors

LEMMA RemoveType ==
  ASSUME IInv, NEW os, Remove(os) PROVE file' \in [Supervisors -> Files]
  BY DEF IInv, TypeOK, Remove, Files

-----------------------------------------------------------------------------
\* Steps of the caller.

\* The caller moves on and nothing else changes.
LEMMA MoveStep ==
  ASSUME IInv, CancelStart \/ Started \/ Stop \/ StopAnswered \/ StopTimeout
  PROVE  IInv'
<1>1. /\ UNCHANGED <<session, sup, path, state, active_pid, cmd_tx, file, queued,
                     worker, verdict, readiness, child>>
      /\ caller' \in {"idle", "stop", "kill"} /\ asked' \in {0, asked}
      /\ last' \in {last, "cancelled", "started"}
      /\ caller' = "idle" => last' # "stopped"
      /\ caller # "gone"
  BY DEF CancelStart, Started, Stop, StopAnswered, StopTimeout, Return, shared, workers
<1>2. TypeOK'
  BY <1>1, TypeConstants DEF IInv, TypeOK, CallerSteps
<1>3. CallerInv'
  BY <1>1 DEF IInv, CallerInv
<1>4. WorkerInv' /\ RunningInv' /\ NotRunningMeansGone' /\ StopLeavesNoChild'
  BY <1>1 DEF IInv, WorkerInv, RunningInv, NotRunningMeansGone, StopLeavesNoChild
<1> QED
  BY <1>1, <1>2, <1>3, <1>4 DEF IInv

LEMMA PrepareStep == ASSUME IInv, Prepare PROVE IInv'
<1>1. /\ UNCHANGED <<last, sup, asked, state, active_pid, cmd_tx, queued,
                     worker, verdict, readiness, child>>
      /\ caller = "idle" /\ caller' = "preflight"
      /\ session' = session + 1 /\ session' \in Sessions /\ path' = session'
      /\ file' = [file EXCEPT ![session'] = "written"]
      /\ session \in Nat
  BY SupervisorAssumption DEF IInv, TypeOK, Prepare, MayStart, workers, Sessions, Of
<1>2. 0..session \subseteq 0..session' /\ sup # session' /\ sup \in 0..session'
  BY <1>1 DEF IInv, CallerInv
<1>3. TypeOK'
  <2>1. /\ active_pid' \in [Supervisors -> 0..session']
        /\ cmd_tx' \in [Supervisors -> 0..session']
    BY <1>1, <1>2 DEF IInv, TypeOK
  <2>2. path' \in 0..session' /\ asked' \in 0..session' /\ session' \in 0..MaxSessions
    BY <1>1, <1>2, SupervisorAssumption DEF IInv, TypeOK, Sessions
  <2> QED
    BY <1>1, <2>1, <2>2, TypeConstants DEF IInv, TypeOK, CallerSteps, Files
<1>4. CallerInv'
  <2>1. session' > session
    BY <1>1
  <2>2. child[session'] = "none"
    BY <1>1, <2>1 DEF IInv, CallerInv
  <2>3. \A s \in Sessions : s > session' => s > session
    BY <1>1, TypeConstants
  <2> QED
    BY <1>1, <1>2, <2>2, <2>3 DEF IInv, CallerInv
<1>5. WorkerInv' /\ RunningInv' /\ NotRunningMeansGone' /\ StopLeavesNoChild'
  BY <1>1 DEF IInv, WorkerInv, RunningInv, NotRunningMeansGone, StopLeavesNoChild
<1> QED
  BY <1>1, <1>3, <1>4, <1>5 DEF IInv

\* A start that fails before there is a child changes no more than a file and
\* the number of the latest start.
LEMMA RefusedStep == ASSUME IInv, StartRefused \/ WriteFails PROVE IInv'
<1>1. /\ UNCHANGED <<sup, path, asked, state, active_pid, cmd_tx, queued,
                     worker, verdict, readiness, child>>
      /\ caller = "idle" /\ caller' = "idle" /\ last' = "failed"
      /\ session' \in {session, session + 1} /\ session' \in 0..MaxSessions
      /\ file' \in [Supervisors -> Files]
      /\ session \in Nat
  <2>1. session \in 0..MaxSessions /\ session \in Nat /\ file \in [Supervisors -> Files]
    BY SupervisorAssumption DEF IInv, TypeOK
  <2>2. CASE StartRefused
    BY <2>1, <2>2 DEF StartRefused, MayStart, Return, shared, workers
  <2>3. CASE WriteFails
    <3>1. session' = session + 1 /\ session + 1 \in 0..MaxSessions
      BY <2>1, <2>3, SupervisorAssumption DEF WriteFails
    <3>2. file' \in [Supervisors -> Files]
      BY <2>1, <2>3 DEF WriteFails, Files
    <3> QED
      BY <2>1, <2>3, <3>1, <3>2 DEF WriteFails, MayStart, Return, workers
  <2> QED
    BY <2>2, <2>3
<1>2. 0..session \subseteq 0..session' /\ \A s \in Sessions : s > session' => s > session
  BY <1>1, TypeConstants
<1>3. TypeOK'
  <2>1. /\ active_pid' \in [Supervisors -> 0..session']
        /\ cmd_tx' \in [Supervisors -> 0..session']
    BY <1>1, <1>2 DEF IInv, TypeOK
  <2> QED
    BY <1>1, <1>2, <2>1 DEF IInv, TypeOK, CallerSteps
<1>4. CallerInv'
  BY <1>1, <1>2 DEF IInv, CallerInv
<1>5. WorkerInv' /\ RunningInv' /\ NotRunningMeansGone' /\ StopLeavesNoChild'
  BY <1>1 DEF IInv, WorkerInv, RunningInv, NotRunningMeansGone, StopLeavesNoChild
<1> QED
  BY <1>1, <1>3, <1>4, <1>5 DEF IInv

LEMMA PreflightFailsStep == ASSUME IInv, PreflightFails PROVE IInv'
<1>1. /\ UNCHANGED <<session, sup, asked, state, active_pid, cmd_tx, queued,
                     worker, verdict, readiness, child>>
      /\ caller = "preflight" /\ caller' = "idle" /\ last' = "failed" /\ path' = 0
      /\ file' \in [Supervisors -> Files]
  BY RemoveType DEF PreflightFails, Return, workers
<1>2. TypeOK'
  BY <1>1, TypeConstants DEF IInv, TypeOK, CallerSteps
<1>3. CallerInv'
  BY <1>1 DEF IInv, CallerInv
<1>4. WorkerInv' /\ RunningInv' /\ NotRunningMeansGone' /\ StopLeavesNoChild'
  BY <1>1 DEF IInv, WorkerInv, RunningInv, NotRunningMeansGone, StopLeavesNoChild
<1> QED
  BY <1>1, <1>2, <1>3, <1>4 DEF IInv

\* The old supervisor goes and takes its child with it.
LEMMA PreflightPassesStep == ASSUME IInv, PreflightPasses PROVE IInv'
<1>1. /\ UNCHANGED <<last, session, path, asked, queued, worker, verdict, readiness>>
      /\ caller = "preflight" /\ caller' = "starting"
      /\ child' = Killed(active_pid[sup])
      /\ active_pid' = [active_pid EXCEPT ![sup] = 0]
      /\ cmd_tx' = [cmd_tx EXCEPT ![sup] = 0]
      /\ Remove({sup})
      /\ sup' = session
      /\ state' = [state EXCEPT ![session] = "Starting"]
  BY DEF IInv, PreflightPasses, Dropped, workers, Of
<1>2. \A s \in Sessions :
        /\ child'[s] # "running"
        /\ (child'[s] = "none") = (child[s] = "none")
        /\ (child'[s] = "reaped") = (child[s] = "reaped")
  BY <1>1, KilledRest, KilledType
<1>3. session \in Sessions /\ child[session] = "none" /\ session \in Nat
  BY <1>1, TypeConstants DEF IInv, CallerInv
<1>4. TypeOK'
  <2>1. /\ child' \in [Sessions -> {"none", "running", "killed", "exited", "reaped"}]
        /\ state' \in [Supervisors -> States] /\ sup' \in Supervisors
    BY <1>1, <1>3, KilledType, TypeConstants DEF IInv, TypeOK, States
  <2>2. file' \in [Supervisors -> Files]
    BY <1>1, RemoveType
  <2>3. /\ active_pid' \in [Supervisors -> 0..session]
        /\ cmd_tx' \in [Supervisors -> 0..session]
    BY <1>1, <1>3 DEF IInv, TypeOK
  <2>4. \A o \in Supervisors, s \in Sessions :
          s \in {active_pid'[o], cmd_tx'[o]} => s \in {active_pid[o], cmd_tx[o]}
    BY <1>1, TypeConstants DEF IInv, TypeOK
  <2> QED
    BY <1>1, <1>2, <2>1, <2>2, <2>3, <2>4 DEF IInv, TypeOK, CallerSteps
<1>5. CallerInv'
  BY <1>1, <1>2, <1>3, TypeConstants DEF IInv, CallerInv, TypeOK
<1>6. WorkerInv' /\ RunningInv' /\ NotRunningMeansGone' /\ StopLeavesNoChild'
  BY <1>1, <1>2 DEF IInv, WorkerInv, RunningInv, NotRunningMeansGone, StopLeavesNoChild
<1> QED
  BY <1>1, <1>4, <1>5, <1>6 DEF IInv

\* start() fails with no child running: none was spawned, or its worker is done.
LEMMA FailStep ==
  ASSUME IInv,
         SpawnFails \/ NotStarted
  PROVE  IInv'
<1>1. /\ UNCHANGED <<session, sup, asked, queued, worker, verdict, readiness, child>>
      /\ caller \in {"starting", "readiness"} /\ caller' = "idle" /\ last' = "failed"
      /\ state' = [state EXCEPT ![sup] = "Failed"] /\ path' = 0
      /\ file' \in [Supervisors -> Files]
      /\ cmd_tx' \in {cmd_tx, [cmd_tx EXCEPT ![sup] = 0]}
      /\ active_pid' \in {active_pid, [active_pid EXCEPT ![sup] = 0]}
  BY RemoveType DEF SpawnFails, NotStarted, FailStart, Return, workers
<1>2. child[sup] \in {"none", "reaped"} /\ sup \in Sessions
  BY DEF IInv, SpawnFails, NotStarted, CallerInv, WorkerInv, WoundUp
<1>3. \A s \in Sessions : child[s] # "running"
  BY <1>2, OnlyOne
<1>4. TypeOK'
  <2>1. /\ active_pid' \in [Supervisors -> 0..session]
        /\ cmd_tx' \in [Supervisors -> 0..session]
        /\ state' \in [Supervisors -> States] /\ path' \in 0..session
    BY <1>1, TypeConstants DEF IInv, TypeOK, States
  <2>2. \A o \in Supervisors, s \in Sessions :
          s \in {active_pid'[o], cmd_tx'[o]} => s \in {active_pid[o], cmd_tx[o]}
    BY <1>1, TypeConstants DEF IInv, TypeOK
  <2> QED
    BY <1>1, <2>1, <2>2 DEF IInv, TypeOK, CallerSteps
<1>5. CallerInv'
  BY <1>1 DEF IInv, CallerInv
<1>6. WorkerInv' /\ RunningInv' /\ NotRunningMeansGone' /\ StopLeavesNoChild'
  BY <1>1, <1>3 DEF IInv, WorkerInv, RunningInv, NotRunningMeansGone, StopLeavesNoChild
<1> QED
  BY <1>1, <1>4, <1>5, <1>6 DEF IInv

LEMMA SpawnStep == ASSUME IInv, Spawn PROVE IInv'
<1>1. /\ UNCHANGED <<last, session, sup, path, asked, state, file, queued, verdict, readiness>>
      /\ caller = "starting" /\ caller' = "readiness"
      /\ child' = [child EXCEPT ![session] = "running"]
      /\ active_pid' = [active_pid EXCEPT ![session] = session]
      /\ cmd_tx' = [cmd_tx EXCEPT ![session] = session]
      /\ worker' = [worker EXCEPT ![session] = "probing"]
      /\ sup = session /\ session \in Sessions /\ child[session] = "none"
      /\ state[session] = "Starting" /\ session \in 0..session
  BY TypeConstants DEF IInv, Spawn, CallerInv
<1>2. worker[session] = "none" /\ readiness[session] # "err"
  BY <1>1 DEF IInv, WorkerInv
<1>3. \A s \in Sessions : child[s] # "running"
  BY <1>1, OnlyOne
<1>4. TypeOK'
  <2>1. /\ active_pid' \in [Supervisors -> 0..session]
        /\ cmd_tx' \in [Supervisors -> 0..session]
        /\ worker' \in [Sessions -> WorkerSteps]
        /\ child' \in [Sessions -> {"none", "running", "killed", "exited", "reaped"}]
    BY <1>1 DEF IInv, TypeOK, WorkerSteps
  <2>2. ASSUME NEW o \in Supervisors, NEW s \in Sessions,
               s \in {active_pid'[o], cmd_tx'[o]}
        PROVE  Of(s) = o /\ child'[s] # "none" /\ worker'[s] # "none"
    <3>1. CASE o = session
      BY <1>1, <2>2, <3>1 DEF IInv, TypeOK, Of
    <3>2. CASE o # session
      BY <1>1, <2>2, <3>2 DEF IInv, TypeOK, Of
    <3> QED
      BY <3>1, <3>2
  <2> QED
    BY <1>1, <2>1, <2>2 DEF IInv, TypeOK, CallerSteps
<1>5. CallerInv'
  BY <1>1, TypeConstants DEF IInv, CallerInv, TypeOK
<1>6. WorkerInv'
  BY <1>1, <1>2 DEF IInv, WorkerInv, TypeOK, WoundUp
<1>7. RunningInv'
  BY <1>1, <1>3, TypeConstants DEF IInv, RunningInv, TypeOK, Attending
<1>8. NotRunningMeansGone' /\ StopLeavesNoChild'
  BY <1>1, <1>3 DEF IInv, NotRunningMeansGone, StopLeavesNoChild, TypeOK, Of
<1> QED
  BY <1>1, <1>4, <1>5, <1>6, <1>7, <1>8 DEF IInv

\* stop() of a supervisor that is Stopped: none of its children runs.
LEMMA StopStoppedStep == ASSUME IInv, StopStopped PROVE IInv'
<1>1. /\ UNCHANGED <<session, sup, asked, state, active_pid, cmd_tx, queued,
                     worker, verdict, readiness, child>>
      /\ caller' = "idle" /\ last' = "stopped" /\ path' = 0
      /\ Remove(ConfigOf(path)) /\ state[sup] = "Stopped"
  BY DEF StopStopped, FinishStop, Return, workers
<1>2. \A s \in Sessions : child[s] # "running"
  BY <1>1, OnlyOne
<1>3. TypeOK'
  <2>1. file' \in [Supervisors -> Files]
    BY <1>1, RemoveType
  <2> QED
    BY <1>1, <2>1, TypeConstants DEF IInv, TypeOK, CallerSteps
<1>4. CallerInv'
  BY <1>1 DEF IInv, CallerInv
<1>5. WorkerInv' /\ RunningInv' /\ NotRunningMeansGone' /\ StopLeavesNoChild'
  BY <1>1, <1>2 DEF IInv, WorkerInv, RunningInv, NotRunningMeansGone, StopLeavesNoChild
<1> QED
  BY <1>1, <1>3, <1>4, <1>5 DEF IInv

LEMMA SendStopStep == ASSUME IInv, SendStop PROVE IInv'
<1>1. /\ UNCHANGED <<last, session, sup, path, active_pid, file,
                     worker, verdict, readiness, child>>
      /\ caller = "stop" /\ caller' \in {"response", "kill"}
      /\ state' = [state EXCEPT ![sup] = "Stopping"]
      /\ cmd_tx' = [cmd_tx EXCEPT ![sup] = 0]
      /\ asked' \in {asked, cmd_tx[sup]}
      /\ queued' = queued \/ (cmd_tx[sup] # 0 /\ queued' = queued \cup {cmd_tx[sup]})
  BY DEF SendStop, workers
<1>2. /\ cmd_tx[sup] \in 0..session /\ cmd_tx[sup] # 0 => cmd_tx[sup] \in Sessions
  BY TypeConstants DEF IInv, TypeOK, Sessions
<1>3. TypeOK'
  <2>1. /\ cmd_tx' \in [Supervisors -> 0..session] /\ asked' \in 0..session
        /\ state' \in [Supervisors -> States] /\ queued' \subseteq Sessions
    BY <1>1, <1>2 DEF IInv, TypeOK, States
  <2>2. \A o \in Supervisors, s \in Sessions :
          s \in {active_pid'[o], cmd_tx'[o]} => s \in {active_pid[o], cmd_tx[o]}
    BY <1>1, TypeConstants DEF IInv, TypeOK
  <2> QED
    BY <1>1, <2>1, <2>2 DEF IInv, TypeOK, CallerSteps
<1>4. CallerInv'
  BY <1>1 DEF IInv, CallerInv
<1>5. WorkerInv' /\ RunningInv' /\ NotRunningMeansGone' /\ StopLeavesNoChild'
  BY <1>1 DEF IInv, WorkerInv, RunningInv, NotRunningMeansGone, StopLeavesNoChild, TypeOK
<1> QED
  BY <1>1, <1>3, <1>4, <1>5 DEF IInv

\* stop() and Drop kill by the published pid.
LEMMA KillRestStep == ASSUME IInv, KillRest \/ DropService PROVE IInv'
<1>1. /\ UNCHANGED <<session, sup, asked, state, queued, worker, verdict, readiness>>
      /\ caller' \in {"finish", "gone"} /\ last' \in {last, "dropped"}
      /\ path' \in {0, path}
      /\ child' = Killed(active_pid[sup])
      /\ active_pid' = [active_pid EXCEPT ![sup] = 0]
      /\ cmd_tx' \in {cmd_tx, [cmd_tx EXCEPT ![sup] = 0]}
  BY DEF KillRest, DropService, Dropped, workers
<1>2. \A s \in Sessions :
        /\ child'[s] # "running"
        /\ (child'[s] = "none") = (child[s] = "none")
        /\ (child'[s] = "reaped") = (child[s] = "reaped")
  BY <1>1, KilledRest, KilledType
<1>3. TypeOK'
  <2>1. /\ child' \in [Sessions -> {"none", "running", "killed", "exited", "reaped"}]
        /\ path' \in 0..session
    BY <1>1, KilledType, TypeConstants DEF IInv, TypeOK
  <2>2. file' \in [Supervisors -> Files]
    <3>1. CASE KillRest
      BY <3>1 DEF KillRest, IInv, TypeOK
    <3>2. CASE DropService
      BY <3>2, RemoveType DEF DropService
    <3> QED
      BY <3>1, <3>2
  <2>3. /\ active_pid' \in [Supervisors -> 0..session]
        /\ cmd_tx' \in [Supervisors -> 0..session]
    BY <1>1, TypeConstants DEF IInv, TypeOK
  <2>4. \A o \in Supervisors, s \in Sessions :
          s \in {active_pid'[o], cmd_tx'[o]} => s \in {active_pid[o], cmd_tx[o]}
    BY <1>1, TypeConstants DEF IInv, TypeOK
  <2> QED
    BY <1>1, <1>2, <2>1, <2>2, <2>3, <2>4 DEF IInv, TypeOK, CallerSteps
<1>4. CallerInv'
  BY <1>1, <1>2 DEF IInv, CallerInv
<1>5. WorkerInv' /\ RunningInv' /\ NotRunningMeansGone' /\ StopLeavesNoChild'
  BY <1>1, <1>2 DEF IInv, WorkerInv, RunningInv, NotRunningMeansGone, StopLeavesNoChild
<1> QED
  BY <1>1, <1>3, <1>4, <1>5 DEF IInv

LEMMA SetStoppedStep == ASSUME IInv, SetStopped PROVE IInv'
<1>1. /\ UNCHANGED <<session, sup, asked, active_pid, cmd_tx, queued,
                     worker, verdict, readiness, child>>
      /\ caller = "finish" /\ caller' = "idle" /\ last' = "stopped" /\ path' = 0
      /\ Remove(ConfigOf(path) \cup {sup})
      /\ state' = [state EXCEPT ![sup] = "Stopped"]
  BY DEF SetStopped, FinishStop, Return, workers
<1>2. \A s \in Sessions : child[s] # "running"
  BY <1>1 DEF IInv, CallerInv
<1>3. TypeOK'
  <2>1. file' \in [Supervisors -> Files] /\ state' \in [Supervisors -> States]
    BY <1>1, RemoveType DEF IInv, TypeOK, States
  <2> QED
    BY <1>1, <2>1, TypeConstants DEF IInv, TypeOK, CallerSteps
<1>4. CallerInv'
  BY <1>1 DEF IInv, CallerInv
<1>5. WorkerInv' /\ RunningInv' /\ NotRunningMeansGone' /\ StopLeavesNoChild'
  BY <1>1, <1>2 DEF IInv, WorkerInv, RunningInv, NotRunningMeansGone, StopLeavesNoChild
<1> QED
  BY <1>1, <1>3, <1>4, <1>5 DEF IInv

-----------------------------------------------------------------------------
\* Steps of a worker and of its child.

\* What every worker step respects: it starts no child, publishes nothing, and
\* speaks of its own supervisor only.
Respects(s) ==
  /\ UNCHANGED <<caller, last, session, sup, path, asked, cmd_tx>>
  /\ queued' \subseteq queued
  /\ state' \in {state} \cup {[state EXCEPT ![s] = v] : v \in States}
  /\ active_pid' \in {active_pid, [active_pid EXCEPT ![s] = 0]}
  /\ file' \in [Supervisors -> Files]
  /\ worker[s] # "none"
  /\ \E step \in WorkerSteps \ {"none"} : worker' = [worker EXCEPT ![s] = step]
  /\ \E v \in {"none", "Stopped", "Failed", "byExit"} : verdict' = [verdict EXCEPT ![s] = v]
  /\ \E r \in {"none", "ok", "err"} : readiness' = [readiness EXCEPT ![s] = r]
  /\ \E c \in {"none", "running", "killed", "exited", "reaped"} :
       /\ child' = [child EXCEPT ![s] = c]
       /\ c # "none" /\ (c = "running" => child[s] = "running")

\* Such a step keeps the invariant where what remains is shown of its own session.
LEMMA RespectfulStep ==
  ASSUME IInv, NEW s \in Sessions, Respects(s),
         /\ worker'[s] \in WoundUp => child'[s] = "reaped"
         /\ worker'[s] \in {"killing", "cleaning", "announcing"} =>
              verdict'[s] \in {"Stopped", "Failed"}
         /\ worker'[s] = "clearing" => verdict'[s] # "none"
         /\ readiness'[s] = "err" => worker'[s] = "done",
         child'[s] = "running" =>
           /\ worker'[s] \in Attending /\ active_pid' = active_pid
           /\ state'[s] \notin {"Stopped", "Failed"}
  PROVE  IInv'
<1>1. /\ child[s] # "none" /\ s \in Supervisors
  BY TypeConstants DEF IInv, WorkerInv, Respects
<1>2. /\ worker' \in [Sessions -> WorkerSteps]
      /\ verdict' \in [Sessions -> {"none", "Stopped", "Failed", "byExit"}]
      /\ readiness' \in [Sessions -> {"none", "ok", "err"}]
      /\ child' \in [Sessions -> {"none", "running", "killed", "exited", "reaped"}]
      /\ worker'[s] # "none" /\ child'[s] # "none"
      /\ child'[s] = "running" => child[s] = "running"
      /\ \A t \in Sessions : t # s =>
           /\ worker'[t] = worker[t] /\ verdict'[t] = verdict[t]
           /\ readiness'[t] = readiness[t] /\ child'[t] = child[t]
  BY DEF IInv, TypeOK, Respects
<1>3. /\ state' \in [Supervisors -> States]
      /\ active_pid' \in [Supervisors -> 0..session]
      /\ \A o \in Supervisors : o # s =>
           state'[o] = state[o] /\ active_pid'[o] = active_pid[o]
      /\ \A o \in Supervisors : active_pid'[o] \in {0, active_pid[o]}
  BY <1>1, TypeConstants DEF IInv, TypeOK, Respects
<1>4. TypeOK'
  <2>1. \A o \in Supervisors, t \in Sessions :
          t \in {active_pid'[o], cmd_tx'[o]} => t \in {active_pid[o], cmd_tx[o]}
    BY <1>3, TypeConstants DEF Respects
  <2>2. \A t \in Sessions : (child'[t] = "none" => child[t] = "none")
                            /\ (worker'[t] = "none" => worker[t] = "none")
    BY <1>2
  <2> QED
    BY <1>2, <1>3, <2>1, <2>2 DEF IInv, TypeOK, Respects
<1>5. CallerInv'
  <2>1. \A t \in Sessions : /\ child'[t] = "running" => child[t] = "running"
                            /\ child[t] = "none" => child'[t] = "none"
    BY <1>1, <1>2
  <2>2. caller = "starting" => state'[sup] = state[sup]
    BY <1>1, <1>3, TypeConstants DEF IInv, CallerInv
  <2> QED
    BY <2>1, <2>2 DEF IInv, CallerInv, Respects
<1>6. WorkerInv'
  BY <1>2 DEF IInv, WorkerInv
<1>7. RunningInv'
  BY <1>2, <1>3, TypeConstants DEF IInv, RunningInv
<1>8. NotRunningMeansGone' /\ StopLeavesNoChild'
  BY <1>2, <1>3, TypeConstants
     DEF IInv, NotRunningMeansGone, StopLeavesNoChild, Respects, Of
<1> QED
  BY <1>4, <1>5, <1>6, <1>7, <1>8 DEF IInv

\* Winding up: the child has been reaped before.
LEMMA WindUpStep ==
  ASSUME IInv, NEW s \in Sessions, ClearPid(s) \/ CleanUp(s) \/ Announce(s)
  PROVE  IInv'
<1>1. /\ UNCHANGED <<caller, last, session, sup, path, asked, cmd_tx, child>>
      /\ worker[s] \in {"clearing", "cleaning", "announcing"}
      /\ queued' \subseteq queued
      /\ Fresh = TRUE /\ Of(s) = s
  BY DEF IInv, ClearPid, CleanUp, Announce, calls, Of
<1>2. child[s] = "reaped" /\ child' = [child EXCEPT ![s] = "reaped"]
  BY <1>1 DEF IInv, WorkerInv, WoundUp, TypeOK
<1>3. /\ verdict[s] \in {"none", "Stopped", "Failed", "byExit"}
      /\ readiness[s] \in {"none", "ok", "err"}
      /\ verdict = [verdict EXCEPT ![s] = verdict[s]]
      /\ readiness = [readiness EXCEPT ![s] = readiness[s]]
      /\ readiness[s] # "err" /\ s \in Supervisors
  BY <1>1, TypeConstants DEF IInv, TypeOK, WorkerInv
<1>4. CASE ClearPid(s)
  <2>1. /\ active_pid' = [active_pid EXCEPT ![s] = 0]
        /\ worker' = [worker EXCEPT ![s] = "cleaning"]
        /\ UNCHANGED <<state, file, readiness>>
    BY <1>1, <1>4 DEF ClearPid, GoOn
  <2>2. \E v \in {"Stopped", "Failed"} : verdict' = [verdict EXCEPT ![s] = v]
    <3>1. verdict[s] \in {"byExit", "Stopped", "Failed"}
      BY <1>3, <1>4 DEF IInv, WorkerInv, ClearPid
    <3>2. CASE verdict[s] = "byExit" /\ state[Of(s)] # "Stopping"
      BY <1>4, <3>2 DEF ClearPid
    <3>3. CASE ~(verdict[s] = "byExit" /\ state[Of(s)] # "Stopping")
      BY <1>4, <3>1, <3>3, <1>3 DEF ClearPid
    <3> QED
      BY <3>2, <3>3
  <2>3. Respects(s)
    BY <1>1, <1>2, <1>3, <2>1, <2>2 DEF Respects, IInv, TypeOK, WorkerSteps
  <2>4. /\ worker'[s] = "cleaning" /\ verdict'[s] \in {"Stopped", "Failed"}
        /\ readiness'[s] # "err" /\ child'[s] = "reaped"
    BY <1>2, <1>3, <2>1, <2>2 DEF IInv, TypeOK
  <2> QED
    BY <2>3, <2>4, RespectfulStep
<1>5. CASE CleanUp(s)
  <2>1. /\ Remove({s})
        /\ worker' = [worker EXCEPT ![s] = "announcing"]
        /\ UNCHANGED <<state, active_pid, verdict, readiness>>
    BY <1>1, <1>5 DEF CleanUp, GoOn
  <2>2. file' \in [Supervisors -> Files]
    BY <2>1, RemoveType
  <2>3. Respects(s)
    BY <1>1, <1>2, <1>3, <2>1, <2>2 DEF Respects, WorkerSteps
  <2>4. /\ worker'[s] = "announcing" /\ verdict'[s] \in {"Stopped", "Failed"}
        /\ readiness'[s] # "err" /\ child'[s] = "reaped"
    BY <1>2, <1>3, <1>5, <2>1 DEF IInv, TypeOK, WorkerInv, CleanUp
  <2> QED
    BY <2>3, <2>4, RespectfulStep
<1>6. CASE Announce(s)
  <2>1. /\ state' = [state EXCEPT ![s] = verdict[s]]
        /\ worker' = [worker EXCEPT ![s] = "done"]
        /\ UNCHANGED <<active_pid, file, verdict>>
        /\ verdict[s] \in States
    BY <1>1, <1>6 DEF Announce, GoOn, IInv, WorkerInv, States
  <2>2. \E r \in {"none", "ok", "err"} : readiness' = [readiness EXCEPT ![s] = r]
    BY <1>6, <1>3 DEF Announce
  <2>3. Respects(s)
    BY <1>1, <1>2, <1>3, <2>1, <2>2 DEF Respects, WorkerSteps, IInv, TypeOK
  <2>4. worker'[s] = "done" /\ child'[s] = "reaped"
    BY <1>2, <2>1 DEF IInv, TypeOK
  <2> QED
    BY <2>3, <2>4, RespectfulStep
<1> QED
  BY <1>4, <1>5, <1>6

\* The worker kills its child.
LEMMA WorkerKillStep ==
  ASSUME IInv, NEW s \in Sessions,
         ProbeStop(s) \/ ProbeTimeout(s) \/ TerminateTimeout(s) \/ ServeClosed(s)
  PROVE  IInv'
<1>1. /\ UNCHANGED <<caller, last, session, sup, path, asked, cmd_tx,
                     state, active_pid, file, readiness>>
      /\ worker[s] \in Attending /\ queued' \subseteq queued
      /\ child' = Killed(s)
      /\ worker' = [worker EXCEPT ![s] = "killing"]
      /\ \E v \in {"Stopped", "Failed"} : verdict' = [verdict EXCEPT ![s] = v]
  BY DEF ProbeStop, ProbeTimeout, TerminateTimeout, ServeClosed, Kill, GoOn,
         Attending, calls, shared
<1>2. /\ worker[s] # "none" /\ child[s] # "none"
      /\ readiness[s] # "err" /\ readiness = [readiness EXCEPT ![s] = readiness[s]]
      /\ readiness[s] \in {"none", "ok"}
  BY <1>1 DEF Attending, IInv, TypeOK, WorkerInv
<1>3. /\ child' = [child EXCEPT ![s] = child'[s]]
      /\ child'[s] \in {"none", "running", "killed", "exited", "reaped"}
      /\ child'[s] \notin {"none", "running"}
  <2>1. child \in [Sessions -> {"none", "running", "killed", "exited", "reaped"}]
    BY DEF IInv, TypeOK
  <2>2. /\ \A t \in Sessions : t # s => child'[t] = child[t]
        /\ child'[s] = IF child[s] = "running" THEN "killed" ELSE child[s]
    BY <1>1 DEF Killed
  <2>3. child' = [t \in Sessions |-> child'[t]]
    BY <1>1 DEF Killed
  <2> QED
    BY <1>2, <2>1, <2>2, <2>3
<1>4. Respects(s)
  BY <1>1, <1>2, <1>3 DEF Respects, WorkerSteps, IInv, TypeOK
<1>5. /\ worker'[s] = "killing" /\ verdict'[s] \in {"Stopped", "Failed"}
      /\ readiness'[s] # "err" /\ child'[s] # "running"
  BY <1>1, <1>2, <1>3 DEF IInv, TypeOK
<1> QED
  BY <1>4, <1>5, RespectfulStep DEF WoundUp

\* A child that has ended is reaped.
LEMMA ReapStep ==
  ASSUME IInv, NEW s \in Sessions, ProbeExit(s) \/ ChildEnded(s)
  PROVE  IInv'
<1>1. /\ UNCHANGED <<caller, last, session, sup, path, asked, cmd_tx, queued,
                     state, active_pid, file, readiness>>
      /\ worker[s] \in {"probing", "serving", "terminating", "killing"}
      /\ child' = [child EXCEPT ![s] = "reaped"]
      /\ worker' = [worker EXCEPT ![s] = "clearing"]
      /\ verdict' \in {[verdict EXCEPT ![s] = v] : v \in {"Failed", AfterExit(s)}}
  BY DEF ProbeExit, ChildEnded, Reap, GoOn, calls, shared
<1>2. /\ readiness[s] # "err" /\ readiness = [readiness EXCEPT ![s] = readiness[s]]
      /\ readiness[s] \in {"none", "ok"}
      /\ AfterExit(s) \in {"Stopped", "Failed", "byExit"}
  BY <1>1 DEF IInv, TypeOK, WorkerInv, AfterExit
<1>3. Respects(s)
  <2>1. file' \in [Supervisors -> Files]
    BY <1>1 DEF IInv, TypeOK
  <2>2. \E v \in {"none", "Stopped", "Failed", "byExit"} :
          verdict' = [verdict EXCEPT ![s] = v]
    BY <1>1, <1>2
  <2> QED
    BY <1>1, <1>2, <2>1, <2>2 DEF Respects, WorkerSteps
<1>4. /\ worker'[s] = "clearing" /\ child'[s] = "reaped" /\ readiness'[s] # "err"
      /\ verdict'[s] # "none"
  BY <1>1, <1>2 DEF IInv, TypeOK
<1> QED
  BY <1>3, <1>4, RespectfulStep

\* The child is found ready, or asked to go.
LEMMA AttendStep ==
  ASSUME IInv, NEW s \in Sessions, ProbePasses(s) \/ ServeStop(s)
  PROVE  IInv'
<1>1. /\ UNCHANGED <<caller, last, session, sup, path, asked, cmd_tx,
                     active_pid, file, verdict, child>>
      /\ worker[s] \in {"probing", "serving"} /\ queued' \subseteq queued
      /\ worker' \in {[worker EXCEPT ![s] = step] : step \in {"serving", "terminating"}}
      /\ state' \in {[state EXCEPT ![s] = v] : v \in {"Ready", "Stopping"}}
      /\ readiness' \in {readiness, [readiness EXCEPT ![s] = "ok"]}
  BY DEF IInv, ProbePasses, ServeStop, GoOn, calls, Of
<1>2. /\ readiness[s] # "err" /\ readiness = [readiness EXCEPT ![s] = readiness[s]]
      /\ verdict = [verdict EXCEPT ![s] = verdict[s]]
      /\ child = [child EXCEPT ![s] = child[s]]
      /\ readiness[s] \in {"none", "ok"} /\ child[s] # "none" /\ s \in Supervisors
  BY <1>1, TypeConstants DEF IInv, TypeOK, WorkerInv
<1>3. Respects(s)
  <2>1. file' \in [Supervisors -> Files]
    BY <1>1 DEF IInv, TypeOK
  <2>2. /\ \E step \in WorkerSteps \ {"none"} : worker' = [worker EXCEPT ![s] = step]
        /\ \E r \in {"none", "ok", "err"} : readiness' = [readiness EXCEPT ![s] = r]
    BY <1>1, <1>2 DEF WorkerSteps
  <2>3. /\ \E v \in {"none", "Stopped", "Failed", "byExit"} :
             verdict' = [verdict EXCEPT ![s] = v]
        /\ \E c \in {"none", "running", "killed", "exited", "reaped"} :
             /\ child' = [child EXCEPT ![s] = c]
             /\ c # "none" /\ (c = "running" => child[s] = "running")
    <3>1. /\ verdict[s] \in {"none", "Stopped", "Failed", "byExit"}
          /\ child[s] \in {"none", "running", "killed", "exited", "reaped"}
      BY DEF IInv, TypeOK
    <3> QED
      BY <1>1, <1>2, <3>1
  <2> QED
    BY <1>1, <1>2, <2>1, <2>2, <2>3 DEF Respects, States
<1>4. /\ worker'[s] \in {"serving", "terminating"} /\ readiness'[s] # "err"
      /\ state'[s] \in {"Ready", "Stopping"}
  BY <1>1, <1>2 DEF IInv, TypeOK
<1> QED
  BY <1>1, <1>3, <1>4, RespectfulStep DEF Attending, WoundUp

LEMMA ChildExitsStep == ASSUME IInv, NEW s \in Sessions, ChildExits(s) PROVE IInv'
<1>1. /\ UNCHANGED <<caller, last, session, sup, path, asked, cmd_tx, queued,
                     state, active_pid, file, worker, verdict, readiness>>
      /\ child[s] \in {"running", "killed"}
      /\ child' = [child EXCEPT ![s] = "exited"]
  BY DEF ChildExits, calls, shared, workers
<1>2. /\ worker[s] \in WorkerSteps \ {"none"} /\ worker = [worker EXCEPT ![s] = worker[s]]
      /\ verdict = [verdict EXCEPT ![s] = verdict[s]]
      /\ readiness = [readiness EXCEPT ![s] = readiness[s]]
      /\ worker[s] \notin WoundUp
  BY <1>1 DEF IInv, TypeOK, WorkerInv
<1>3. Respects(s)
  BY <1>1, <1>2 DEF Respects, IInv, TypeOK
<1>4. /\ worker'[s] \notin WoundUp /\ child'[s] = "exited"
      /\ worker'[s] \in {"killing", "cleaning", "announcing"} =>
           verdict'[s] \in {"Stopped", "Failed"}
      /\ readiness'[s] = "err" => worker'[s] = "done"
  BY <1>1, <1>2 DEF IInv, TypeOK, WorkerInv
<1> QED
  BY <1>3, <1>4, RespectfulStep DEF WoundUp

LEMMA NextStep == ASSUME IInv, [Next]_vars PROVE IInv'
<1>1. CASE UNCHANGED vars
  <2>1. UNCHANGED <<caller, last, session, sup, path, asked, state, active_pid,
                    cmd_tx, file, queued, worker, verdict, readiness, child>>
    BY <1>1 DEF vars, calls, shared, workers
  <2>2. TypeOK' /\ CallerInv'
    BY <2>1 DEF IInv, TypeOK, CallerInv
  <2>3. WorkerInv' /\ RunningInv' /\ NotRunningMeansGone' /\ StopLeavesNoChild'
    BY <2>1 DEF IInv, WorkerInv, RunningInv, NotRunningMeansGone, StopLeavesNoChild
  <2> QED
    BY <2>2, <2>3 DEF IInv
<1>2. CASE Next
  <2>1. CASE Occurs
    BY <2>1, RefusedStep, PrepareStep, MoveStep, StopStoppedStep, KillRestStep,
       ChildExitsStep DEF Occurs
  <2>2. CASE StartGoesOn
    BY <2>2, PreflightFailsStep, PreflightPassesStep, FailStep, SpawnStep, MoveStep
       DEF StartGoesOn
  <2>3. CASE StopGoesOn
    BY <2>3, SendStopStep, MoveStep, KillRestStep, SetStoppedStep DEF StopGoesOn
  <2>4. CASE \E s \in Sessions : Worker(s)
    BY <2>4, WindUpStep, WorkerKillStep, ReapStep, AttendStep DEF Worker
  <2> QED
    BY <1>2, <2>1, <2>2, <2>3, <2>4 DEF Next
<1> QED
  BY <1>1, <1>2

-----------------------------------------------------------------------------
\* The runtime config, for a caller that stops after a cancelled start.

\* Which configs may exist, and what stands for the removal of each.
FileInv ==
  /\ \A o \in Supervisors : file[o] = "written" => o \in {sup, path}
  /\ file[0] # "written"
  /\ caller \in {"preflight", "starting", "readiness"} => path = session
  /\ path \in {0, sup} \/ caller = "preflight" \/ last = "cancelled"
  /\ last = "cancelled" \/ caller = "preflight" => path = sup \/ file[sup] # "written"
  /\ caller = "gone" => last = "dropped" /\ path = 0 /\ file[sup] # "written"

\* The worker of a session removes its config before it announces the end.
CleanedInv ==
  \A s \in Sessions :
    /\ worker[s] \in {"announcing", "done"} => file[s] # "written"
    /\ worker[s] = "none" => s \notin queued /\ readiness[s] # "ok"

\* A config in place at rest is that of an engine that is ready, or whose worker
\* is about to remove it.
ServingInv ==
  /\ caller = "readiness" \/ (caller = "idle" /\ last = "started") => sup \notin queued
  /\ /\ file[sup] = "written"
     /\ \/ caller = "readiness" /\ readiness[sup] = "ok"
        \/ caller = "idle" /\ last # "cancelled"
     => /\ state[sup] = "Ready"
        /\ worker[sup] \in {"serving", "killing", "clearing", "cleaning"}
        /\ caller = "idle" => last = "started"

ResidueInv == FileInv /\ CleanedInv /\ ServingInv

LEMMA ResidueInit == Init => ResidueInv
BY TypeConstants DEF Init, ResidueInv, FileInv, CleanedInv, ServingInv

\* The caller's own progress touches no file.
LEMMA CallerMovesResidue ==
  ASSUME IInv, ResidueInv,
         CancelStart \/ Started \/ Stop \/ StopAnswered \/ StopTimeout \/ KillRest
  PROVE  ResidueInv'
<1>1. /\ UNCHANGED <<session, sup, path, state, file, queued, worker, readiness>>
      /\ caller' \in {"idle", "stop", "kill", "finish"}
      /\ last' \in {last, "cancelled", "started"}
      /\ last' = "cancelled" => last = "cancelled"
                                  \/ caller \in {"preflight", "starting", "readiness"}
      /\ caller' = "idle" => last' = "cancelled"
           \/ (caller = "readiness" /\ readiness[session] = "ok" /\ last' = "started")
      /\ last' = "started" => last = "started" \/ (caller = "readiness" /\ caller' = "idle")
      /\ caller # "gone"
      /\ last' # last => caller \in {"preflight", "starting", "readiness"}
  BY DEF CancelStart, Started, Stop, StopAnswered, StopTimeout, KillRest, Return, shared, workers
<1>2. caller \in {"starting", "readiness"} => path = sup
  BY DEF IInv, CallerInv, ResidueInv, FileInv
<1>3. caller = "readiness" => sup = session
  BY DEF IInv, CallerInv
<1>4. FileInv'
  <2>1. path' \in {0, sup'} \/ last' = "cancelled"
    <3>1. CASE last' = last
      BY <1>1, <3>1 DEF ResidueInv, FileInv, CancelStart, Started, Stop, StopAnswered, StopTimeout,
         KillRest, Return
    <3>2. CASE last' # last
      BY <1>1, <1>2, <3>2 DEF CancelStart, Started, Stop, StopAnswered, StopTimeout,
         KillRest, Return
    <3> QED
      BY <3>1, <3>2
  <2>2. last' = "cancelled" => path = sup \/ file[sup] # "written"
    BY <1>1, <1>2 DEF ResidueInv, FileInv
  <2> QED
    BY <1>1, <2>1, <2>2 DEF ResidueInv, FileInv
<1>5. CleanedInv'
  BY <1>1 DEF ResidueInv, CleanedInv
<1>6. ServingInv'
  BY <1>1, <1>3 DEF ResidueInv, ServingInv
<1> QED
  BY <1>4, <1>5, <1>6 DEF ResidueInv

\* A start is begun by a caller whose engine, if it had one, has no config left.
LEMMA NothingServed ==
  ASSUME CancelStops = TRUE, IInv, ResidueInv, MayStart
  PROVE  /\ file[sup] # "written" /\ path \in {0, sup} /\ last # "cancelled" /\ caller = "idle"
         /\ session \in Nat /\ sup \in 0..session
BY SupervisorAssumption DEF MayStart, IsRunning, ResidueInv, FileInv, ServingInv, IInv, TypeOK, CallerInv

LEMMA BeginResidue ==
  ASSUME CancelStops = TRUE, IInv, ResidueInv,
         WriteFails \/ StartRefused \/ Prepare
  PROVE  ResidueInv'
<1>1. /\ file[sup] # "written" /\ path \in {0, sup} /\ last # "cancelled" /\ caller = "idle"
      /\ session \in Nat /\ sup \in 0..session
  BY NothingServed DEF WriteFails, StartRefused, Prepare
<1>2. CASE StartRefused
  BY <1>1, <1>2 DEF StartRefused, Return, shared, workers, ResidueInv, FileInv, CleanedInv, ServingInv
<1>3. CASE WriteFails \/ Prepare
  <2>1. /\ session' = session + 1 /\ session' \in Sessions /\ session' \in Supervisors
        /\ session' # sup /\ session' # 0
        /\ \E f \in Files : file' = [file EXCEPT ![session'] = f]
        /\ UNCHANGED <<sup, state, queued, worker, readiness>>
        /\ caller' \in {"idle", "preflight"}
    <3>1. /\ session < MaxSessions /\ session' = session + 1
          /\ \E f \in Files : file' = [file EXCEPT ![session'] = f]
          /\ UNCHANGED <<sup, state, queued, worker, readiness>>
          /\ caller' \in {"idle", "preflight"}
      BY <1>3 DEF WriteFails, Prepare, Return, IInv, Of, workers, Files
    <3>2. /\ session' \in Sessions /\ session' \in Supervisors
          /\ session' # sup /\ session' # 0
      BY <1>1, <3>1, SupervisorAssumption DEF Sessions, Supervisors
    <3> QED
      BY <3>1, <3>2
  <2>2. worker[session'] = "none"
    BY <1>1, <2>1 DEF IInv, CallerInv, WorkerInv
  <2>3. file \in [Supervisors -> Files] /\ sup \in Supervisors /\ 0 \in Supervisors
    BY TypeConstants DEF IInv, TypeOK
  <2>4. file'[sup] # "written" /\ \A o \in Supervisors : o # session' => file'[o] = file[o]
    BY <1>1, <2>1, <2>3
  <2>5. FileInv'
    <3>1. CASE WriteFails
      BY <1>1, <2>1, <2>3, <2>4, <3>1 DEF ResidueInv, FileInv, WriteFails, Return
    <3>2. CASE Prepare
      BY <1>1, <2>1, <2>3, <2>4, <3>2 DEF ResidueInv, FileInv, Prepare
    <3> QED
      BY <1>3, <3>1, <3>2
  <2>6. CleanedInv'
    BY <2>1, <2>2, <2>3, <2>4, TypeConstants DEF ResidueInv, CleanedInv
  <2>7. ServingInv'
    BY <1>1, <1>3, <2>1, <2>4 DEF ServingInv, WriteFails, Prepare, Return
  <2> QED
    BY <2>5, <2>6, <2>7 DEF ResidueInv
<1> QED
  BY <1>2, <1>3

\* No config that a removal was tried of is as it was written.
LEMMA RemoveLeaves ==
  ASSUME NEW os, Remove(os), NEW o \in Supervisors
  PROVE  /\ file'[o] = "written" => file[o] = "written" /\ o \notin os
         /\ o \notin os => file'[o] = file[o]
BY DEF Remove

\* What a path names, with a supervisor of its own for each start.
LEMMA ConfigIs == ASSUME IInv, NEW p PROVE ConfigOf(p) = IF p = 0 THEN {} ELSE {p}
BY DEF ConfigOf, IInv, Of

LEMMA StartResidue ==
  ASSUME IInv, ResidueInv,
         PreflightFails \/ PreflightPasses \/ SpawnFails \/ Spawn \/ NotStarted
  PROVE  ResidueInv'
<1>0. /\ sup \in Supervisors /\ session \in Supervisors /\ 0 \in Supervisors /\ session # 0
      /\ session \in Sessions
  BY TypeConstants DEF IInv, TypeOK, CallerInv, PreflightFails, PreflightPasses, SpawnFails,
     Spawn, NotStarted
<1>1. CASE PreflightFails
  <2>1. /\ Remove(ConfigOf(session)) /\ path = session /\ path' = 0 /\ sup # session /\ file[sup] # "written"
        /\ caller' = "idle" /\ last' = "failed"
        /\ UNCHANGED <<session, sup, state, queued, worker, readiness>>
    BY <1>1 DEF PreflightFails, Return, workers, IInv, CallerInv, ResidueInv, FileInv
  <2>2. \A o \in Supervisors : file'[o] = "written" => file[o] = "written" /\ o # session
    BY <1>0, <2>1, RemoveLeaves, ConfigIs
  <2> QED
    BY <1>0, <2>1, <2>2, TypeConstants DEF ResidueInv, FileInv, CleanedInv, ServingInv
<1>2. CASE PreflightPasses
  <2>1. /\ Remove({sup}) /\ path = session /\ sup' = session
        /\ file[sup] # "written" /\ caller' = "starting"
        /\ UNCHANGED <<session, path, last, queued, worker, readiness>>
    BY <1>2 DEF PreflightPasses, Dropped, workers, IInv, CallerInv, ResidueInv, FileInv, Of
  <2>2. \A o \in Supervisors : file'[o] = "written" => file[o] = "written" /\ o # sup
    BY <1>0, <2>1, RemoveLeaves, ConfigIs
  <2> QED
    BY <1>0, <2>1, <2>2, TypeConstants DEF ResidueInv, FileInv, CleanedInv, ServingInv
<1>3. CASE SpawnFails \/ NotStarted
  <2>1. /\ Remove(ConfigOf(session)) /\ path = session /\ path' = 0 /\ sup = session
        /\ caller' = "idle" /\ last' = "failed"
        /\ UNCHANGED <<session, sup, queued, worker, readiness>>
    BY <1>3 DEF SpawnFails, NotStarted, FailStart, Return, workers, IInv, CallerInv, ResidueInv, FileInv
  <2>2. \A o \in Supervisors : file'[o] = "written" => file[o] = "written" /\ o # session
    BY <1>0, <2>1, RemoveLeaves, ConfigIs
  <2> QED
    BY <1>0, <2>1, <2>2, TypeConstants DEF ResidueInv, FileInv, CleanedInv, ServingInv
<1>4. CASE Spawn
  <2>1. /\ worker' = [worker EXCEPT ![session] = "probing"] /\ sup = session
        /\ caller = "starting" /\ caller' = "readiness"
        /\ child[session] = "none" /\ worker[session] = "none"
        /\ UNCHANGED <<last, session, sup, path, file, queued, readiness>>
    BY <1>4, <1>0 DEF Spawn, IInv, CallerInv, WorkerInv
  <2>2. session \notin queued /\ readiness[session] # "ok"
    BY <1>0, <2>1 DEF ResidueInv, CleanedInv
  <2>3. FileInv' /\ ServingInv'
    BY <2>1, <2>2 DEF ResidueInv, FileInv, ServingInv
  <2>4. CleanedInv'
    BY <1>0, <2>1, <2>2 DEF ResidueInv, CleanedInv, IInv, TypeOK
  <2> QED
    BY <2>3, <2>4 DEF ResidueInv
<1> QED
  BY <1>1, <1>2, <1>3, <1>4

LEMMA StopResidue ==
  ASSUME IInv, ResidueInv,
         StopStopped \/ SendStop \/ SetStopped \/ DropService
  PROVE  ResidueInv'
<1>0. sup \in Supervisors /\ 0 \in Supervisors
  BY TypeConstants DEF IInv, TypeOK
<1>1. CASE SendStop
  <2>1. /\ caller' \in {"response", "kill"} /\ caller = "stop"
        /\ UNCHANGED <<last, session, sup, path, file, worker, readiness>>
        /\ queued' = queued \/ (cmd_tx[sup] # 0 /\ queued' = queued \cup {cmd_tx[sup]})
    BY <1>1 DEF SendStop, workers
  <2>2. \A s \in Sessions : s = cmd_tx[sup] => worker[s] # "none"
    BY <1>0 DEF IInv, TypeOK
  <2>3. FileInv' /\ ServingInv'
    BY <2>1 DEF ResidueInv, FileInv, ServingInv
  <2>4. CleanedInv'
    BY <2>1, <2>2 DEF ResidueInv, CleanedInv
  <2> QED
    BY <2>3, <2>4 DEF ResidueInv
<1>2. CASE StopStopped \/ SetStopped \/ DropService
  <2>1. /\ UNCHANGED <<session, sup, queued, worker, readiness>>
        /\ path' = 0 /\ last' \in {"stopped", "dropped"} /\ caller' \in {"idle", "gone"}
        /\ caller' = "gone" => last' = "dropped"
    BY <1>2 DEF StopStopped, SetStopped, DropService, FinishStop, Return, workers
  <2>2. \A o \in Supervisors : file'[o] = "written" => file[o] = "written" /\ (path = 0 \/ o # path)
    <3>1. Remove(ConfigOf(path)) \/ Remove(ConfigOf(path) \cup {sup})
      BY <1>2 DEF StopStopped, SetStopped, DropService
    <3> QED
      BY <3>1, RemoveLeaves, ConfigIs
  <2>3. file'[sup] # "written"
    <3>1. CASE StopStopped
      <4>1. file[sup] = "written" => last = "cancelled"
        BY <3>1 DEF StopStopped, ResidueInv, ServingInv
      <4>2. file[sup] = "written" => path = sup /\ sup # 0
        BY <4>1 DEF ResidueInv, FileInv
      <4> QED
        BY <1>0, <2>2, <4>2
    <3>2. CASE SetStopped \/ DropService
      BY <3>2, <1>0, RemoveLeaves DEF SetStopped, DropService
    <3> QED
      BY <1>2, <3>1, <3>2
  <2>4. FileInv'
    BY <1>0, <2>1, <2>2, <2>3 DEF ResidueInv, FileInv
  <2>5. CleanedInv'
    BY <2>1, <2>2, TypeConstants DEF ResidueInv, CleanedInv
  <2>6. ServingInv'
    BY <2>1, <2>3 DEF ServingInv
  <2> QED
    BY <2>4, <2>5, <2>6 DEF ResidueInv
<1> QED
  BY <1>1, <1>2

\* A worker that serves the engine in place goes on serving it or removes its config.
LEMMA WorkerResidue ==
  ASSUME IInv, ResidueInv, NEW s \in Sessions, Worker(s)
  PROVE  ResidueInv'
<1>0. /\ s \in Supervisors /\ s # 0 /\ Of(s) = s /\ 0 \in Supervisors /\ sup \in Supervisors
      /\ worker[s] # "none"
  BY TypeConstants DEF IInv, TypeOK, Of, Worker, ProbeStop, ProbeExit, ProbePasses, ProbeTimeout,
     ServeStop, ServeClosed, TerminateTimeout, ChildEnded, ClearPid, CleanUp, Announce
<1>1. /\ UNCHANGED <<caller, last, session, sup, path>>
      /\ queued' \subseteq queued
      /\ \A o \in Supervisors : o # s => state'[o] = state[o]
  BY <1>0 DEF IInv, TypeOK, Worker, ProbeStop, ProbeExit, ProbePasses, ProbeTimeout,
     ServeStop, ServeClosed, TerminateTimeout, ChildEnded, ClearPid, CleanUp, Announce,
     calls, shared, Kill, GoOn
<1>2. /\ \A t \in Sessions : t # s => worker'[t] = worker[t] /\ readiness'[t] = readiness[t]
      /\ worker'[s] # "none"
  BY <1>0 DEF IInv, TypeOK, Worker, ProbeStop, ProbeExit, ProbePasses, ProbeTimeout,
     ServeStop, ServeClosed, TerminateTimeout, ChildEnded, ClearPid, CleanUp, Announce,
     calls, shared, Kill, GoOn
<1>3. /\ file' = file \/ Remove({s})
      /\ worker'[s] \in {"announcing", "done"} => file'[s] # "written"
  <2>1. CASE CleanUp(s)
    BY <1>0, <2>1, RemoveLeaves DEF CleanUp, IInv, TypeOK
  <2>2. CASE Announce(s)
    BY <2>2 DEF Announce, ResidueInv, CleanedInv
  <2>3. CASE ~CleanUp(s) /\ ~Announce(s)
    BY <1>0, <2>3 DEF IInv, TypeOK, Worker, ProbeStop, ProbeExit, ProbePasses, ProbeTimeout,
     ServeStop, ServeClosed, TerminateTimeout, ChildEnded, ClearPid, shared, Kill, GoOn
  <2> QED
    BY <2>1, <2>2, <2>3
<1>4. file \in [Supervisors -> Files] /\ \A o \in Supervisors : file'[o] = "written" => file[o] = "written"
  BY <1>0, <1>3, RemoveLeaves DEF IInv, TypeOK
<1>5. FileInv'
  BY <1>0, <1>1, <1>4 DEF ResidueInv, FileInv
<1>6. CleanedInv'
  BY <1>0, <1>1, <1>2, <1>3, <1>4, TypeConstants DEF ResidueInv, CleanedInv
<1>7. ServingInv'
  <2>1. CASE sup # s
    <3>1. sup \in Sessions \/ sup = 0
      BY <1>0 DEF Sessions, Supervisors
    <3>2. file'[sup] = "written" => sup \in Sessions
      BY <1>0, <1>4, <3>1 DEF ResidueInv, FileInv
    <3> QED
      BY <1>0, <1>1, <1>2, <1>4, <2>1, <3>2 DEF ResidueInv, ServingInv
  <2>2. CASE sup = s
    <3>1. SUFFICES ASSUME file'[s] = "written",
                          \/ caller = "readiness" /\ readiness'[s] = "ok"
                          \/ caller = "idle" /\ last # "cancelled"
                   PROVE  /\ state'[s] = "Ready"
                          /\ worker'[s] \in {"serving", "killing", "clearing", "cleaning"}
                          /\ caller = "idle" => last = "started"
      BY <1>1, <2>2 DEF ResidueInv, ServingInv
    <3>2. file[s] = "written" /\ worker'[s] \notin {"announcing", "done"}
      BY <1>0, <1>3, <1>4, <3>1
    <3>3. CASE ProbePasses(s)
      BY <1>0, <2>2, <3>1, <3>2, <3>3 DEF ProbePasses, GoOn, IInv, TypeOK, ResidueInv, ServingInv
    <3>4. CASE ~ProbePasses(s)
      <4>1. readiness'[s] = "ok" => readiness[s] = "ok"
        BY <1>0, <3>4 DEF IInv, TypeOK, Worker, ProbeStop, ProbeExit, ProbeTimeout,
           ServeStop, ServeClosed, TerminateTimeout, ChildEnded, ClearPid, CleanUp, Announce
      <4>2. /\ state[s] = "Ready" /\ s \notin queued
            /\ worker[s] \in {"serving", "killing", "clearing", "cleaning"}
            /\ caller = "idle" => last = "started"
        BY <2>2, <3>1, <3>2, <4>1 DEF ResidueInv, ServingInv
      <4>3. ServeClosed(s) \/ ChildEnded(s) \/ ClearPid(s) \/ CleanUp(s)
        BY <3>4, <4>2 DEF Worker, ProbeStop, ProbeExit, ProbeTimeout, ServeStop,
           TerminateTimeout, Announce
      <4> QED
        BY <3>2, <4>2, <4>3 DEF ServeClosed, ChildEnded, ClearPid, CleanUp, Kill, GoOn, shared,
           IInv, TypeOK
    <3> QED
      BY <3>3, <3>4
  <2> QED
    BY <2>1, <2>2
<1> QED
  BY <1>5, <1>6, <1>7 DEF ResidueInv

LEMMA ResidueStep ==
  ASSUME CancelStops = TRUE, IInv, ResidueInv, [Next]_vars
  PROVE  ResidueInv'
<1>1. CASE UNCHANGED vars
  BY <1>1 DEF vars, calls, shared, workers, ResidueInv, FileInv, CleanedInv, ServingInv
<1>2. ASSUME NEW s \in Sessions, ChildExits(s) PROVE ResidueInv'
  BY <1>2 DEF ChildExits, calls, shared, workers, ResidueInv, FileInv, CleanedInv, ServingInv
<1>3. ASSUME NEW s \in Sessions, Worker(s) PROVE ResidueInv'
  BY <1>3, WorkerResidue
<1>4. CASE StartGoesOn \/ StopGoesOn
  BY <1>4, CallerMovesResidue, StartResidue, StopResidue DEF StartGoesOn, StopGoesOn
<1>5. CASE Occurs
  BY <1>2, <1>5, BeginResidue, CallerMovesResidue, StopResidue DEF Occurs
<1> QED
  BY <1>1, <1>3, <1>4, <1>5 DEF Next

-----------------------------------------------------------------------------
\* Theorems.

LEMMA InvariantHolds == ASSUME Fresh = TRUE PROVE Spec => []IInv
<1>1. Init => IInv
  BY InitInv
<1>2. IInv /\ [Next]_vars => IInv'
  BY NextStep
<1> QED
  BY <1>1, <1>2, PTL DEF Spec

\* Type correctness, with the sessions behind what is published.
THEOREM TypeCorrect == ASSUME Fresh = TRUE PROVE Spec => []TypeOK
<1>1. IInv => TypeOK
  BY DEF IInv
<1> QED
  BY InvariantHolds, <1>1, PTL

\* The word of a supervisor that it is not running can be relied on.
THEOREM EngineGone == ASSUME Fresh = TRUE PROVE Spec => []NotRunningMeansGone
<1>1. IInv => NotRunningMeansGone
  BY DEF IInv
<1> QED
  BY InvariantHolds, <1>1, PTL

\* stop() leaves no child process, also when it times out, which does not hold of
\* a caller that restarts the one supervisor it has.
THEOREM StopIsFinal == ASSUME Fresh = TRUE PROVE Spec => []StopLeavesNoChild
<1>1. IInv => StopLeavesNoChild
  BY DEF IInv
<1> QED
  BY InvariantHolds, <1>1, PTL

\* No call that has returned, and no engine that is reported to have ended, has
\* forgotten a config with its secrets: a removal of each was tried; for a caller
\* that stops after a cancelled start.
THEOREM NothingLeft ==
  ASSUME Fresh = TRUE, CancelStops = TRUE PROVE Spec => []NoResidue
<1>1. IInv /\ ResidueInv => NoResidue
  <2> SUFFICES ASSUME IInv, ResidueInv, caller \in {"idle", "gone"},
                      last \notin {"none", "cancelled"}
               PROVE  /\ last # "started" =>
                           \A o \in Supervisors : file[o] # "written"
                      /\ state[sup] \in {"Stopped", "Failed"} => file[sup] # "written"
    BY DEF NoResidue
  <2>1. state[sup] \in {"Stopped", "Failed"} \/ last # "started" => file[sup] # "written"
    BY DEF ResidueInv, FileInv, ServingInv
  <2>2. \A o \in Supervisors : file[o] = "written" => o = sup
    BY DEF ResidueInv, FileInv
  <2> QED
    BY <2>1, <2>2
<1>2. IInv /\ ResidueInv /\ [Next]_vars => ResidueInv'
  BY ResidueStep
<1> QED
  BY InvariantHolds, ResidueInit, <1>1, <1>2, PTL DEF Spec
=============================================================================
