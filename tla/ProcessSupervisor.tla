-------------------------- MODULE ProcessSupervisor --------------------------
(***************************************************************************)
(* The life of the engine process: ProxyService (engine.rs) on top of      *)
(* ProcessSupervisor and its worker task (core.rs), called as execute_start*)
(* (cli.rs) calls them: starts may be cancelled at any await, stop() may   *)
(* time out, children exit when they like.                                 *)
(*                                                                         *)
(* The caller and each worker run in parallel and meet only at the watch   *)
(* channel of the state, the atomic active_pid, the command channel and    *)
(* the runtime config file.  Sessions are numbered by their start; the pid *)
(* of a child is the number of its session.  Logs, ports, and the artifact *)
(* checks that precede a start are left out.                               *)
(***************************************************************************)
EXTENDS Naturals

CONSTANTS
  MaxSessions,   \* bound: number of starts
  Fresh,         \* TRUE: a new supervisor for each start, as in ProxyService;
                 \* FALSE: a caller of ProcessSupervisor restarts the one it has
  CancelStops    \* TRUE: a cancelled start is followed by stop(), as in the CLI

ASSUME SupervisorAssumption ==
  MaxSessions \in Nat \ {0} /\ Fresh \in BOOLEAN /\ CancelStops \in BOOLEAN

Sessions == 1..MaxSessions
Supervisors == 0..MaxSessions      \* 0 is the one ProxyService::new() makes
Of(s) == IF Fresh THEN s ELSE 0    \* the supervisor of a session

States == {"Stopped", "Starting", "Ready", "Stopping", "Failed"}
CallerSteps == {"idle", "preflight", "starting", "readiness",
                "stop", "response", "kill", "finish", "gone"}
WorkerSteps == {"none", "probing", "serving", "terminating", "killing",
                "clearing", "cleaning", "announcing", "done"}
\* A config on disk is told apart by what became of it: its write failed, or
\* succeeded, or its latest removal failed.
Files == {"none", "part", "written", "undeleted"}

VARIABLES
  caller,        \* where the caller of the service stands
  last,          \* history: how its last call ended
  session,       \* number of the latest start
  sup,           \* the supervisor in place
  path,          \* runtime_config_path of the service: its session, or 0
  asked,         \* the session whose answer stop() waits for
  state,         \* [Supervisors -> States]
  active_pid,    \* [Supervisors -> 0 or a session]
  cmd_tx,        \* [Supervisors -> 0 or the session it sends to]
  file,          \* [Supervisors -> Files]: its runtime config
  queued,        \* sessions with a Stop command in their channel
  worker,        \* [Sessions -> WorkerSteps]
  verdict,       \* [Sessions -> the state its worker is going to announce]
  readiness,     \* [Sessions -> the result sent to start()]
  child          \* [Sessions -> the child process]

calls == <<caller, last, session, sup, path, asked>>
shared == <<state, active_pid, cmd_tx, file, queued>>
workers == <<worker, verdict, readiness>>
vars == <<calls, shared, workers, child>>

Init ==
  /\ caller = "idle" /\ last = "none"
  /\ session = 0 /\ sup = 0 /\ path = 0 /\ asked = 0
  /\ state = [o \in Supervisors |-> "Stopped"]
  /\ active_pid = [o \in Supervisors |-> 0]
  /\ cmd_tx = [o \in Supervisors |-> 0]
  /\ file = [o \in Supervisors |-> "none"]
  /\ queued = {}
  /\ worker = [s \in Sessions |-> "none"]
  /\ verdict = [s \in Sessions |-> "none"]
  /\ readiness = [s \in Sessions |-> "none"]
  /\ child = [s \in Sessions |-> "none"]

IsRunning(o) == state[o] \in {"Starting", "Ready"}

\* The supervisor whose config a runtime_config_path names.
ConfigOf(p) == IF p = 0 THEN {} ELSE {Of(p)}

\* path.exists() and remove_file(): the file stays when either fails, and every
\* caller discards the error and goes on.
Remove(os) ==
  \E stay \in SUBSET os :
    file' = [o \in Supervisors |->
               IF o \in os /\ file[o] # "none"
               THEN IF o \in stay THEN "undeleted" ELSE "none"
               ELSE file[o]]

\* kill_process_by_pid: SIGKILL to a child that still runs.
Killed(pid) == [s \in Sessions |-> IF s = pid /\ child[s] = "running"
                                   THEN "killed" ELSE child[s]]

Return(outcome) == caller' = "idle" /\ last' = outcome

-----------------------------------------------------------------------------
\* start_with_options.

MayStart == caller = "idle" /\ ~IsRunning(sup) /\ (CancelStops => last # "cancelled")

\* A busy port, the wrong artifact, no file for the config.
StartRefused ==
  /\ MayStart
  /\ Return("failed")
  /\ UNCHANGED <<session, sup, path, asked, shared, workers, child>>

\* The file is there before its content is; nothing removes it, or knows of it.
WriteFails ==
  /\ MayStart /\ session < MaxSessions
  /\ session' = session + 1
  /\ file' = [file EXCEPT ![Of(session')] = "part"]
  /\ Return("failed")
  /\ UNCHANGED <<sup, path, asked, state, active_pid, cmd_tx, queued, workers, child>>

\* Up to the runtime config on disk.
Prepare ==
  /\ MayStart /\ session < MaxSessions
  /\ session' = session + 1
  /\ path' = session'
  /\ file' = [file EXCEPT ![Of(session')] = "written"]
  /\ caller' = "preflight"
  /\ UNCHANGED <<last, sup, asked, state, active_pid, cmd_tx, queued, workers, child>>

\* Mutant: a failed preflight check leaves the config behind.
PreflightFails_Residue ==
  /\ caller = "preflight"
  /\ path' = 0
  /\ Return("failed")
  /\ UNCHANGED <<session, sup, asked, shared, workers, child>>

\* Also where start_with_os_args refuses a supervisor that is running again.
PreflightFails ==
  /\ caller = "preflight"
  /\ Remove(ConfigOf(session))
  /\ path' = 0
  /\ Return("failed")
  /\ UNCHANGED <<session, sup, asked, state, active_pid, cmd_tx, queued, workers, child>>

\* Drop of ProcessSupervisor: the child is killed, the config removed and the
\* sender of the command channel goes.
Dropped(o) ==
  /\ child' = Killed(active_pid[o])
  /\ active_pid' = [active_pid EXCEPT ![o] = 0]
  /\ cmd_tx' = [cmd_tx EXCEPT ![o] = 0]

\* The supervisor is replaced, which drops the old one, and set Starting.
PreflightPasses ==
  /\ caller = "preflight" /\ ~IsRunning(Of(session))
  /\ IF Fresh THEN Dropped(sup) /\ Remove({sup})
              ELSE UNCHANGED <<child, active_pid, cmd_tx, file>>
  /\ sup' = Of(session)
  /\ state' = [state EXCEPT ![sup'] = "Starting"]
  /\ caller' = "starting"
  /\ UNCHANGED <<last, session, path, asked, queued, workers>>

FailStart ==
  /\ state' = [state EXCEPT ![sup] = "Failed"]
  /\ Remove(ConfigOf(session))
  /\ path' = 0
  /\ Return("failed")

SpawnFails ==
  /\ caller = "starting"
  /\ FailStart
  /\ UNCHANGED <<session, sup, asked, active_pid, cmd_tx, queued, workers, child>>

\* The child and its worker; start() awaits the worker's readiness result.
Spawn ==
  /\ caller = "starting"
  /\ child' = [child EXCEPT ![session] = "running"]
  /\ active_pid' = [active_pid EXCEPT ![sup] = session]
  /\ cmd_tx' = [cmd_tx EXCEPT ![sup] = session]
  /\ worker' = [worker EXCEPT ![session] = "probing"]
  /\ caller' = "readiness"
  /\ UNCHANGED <<last, session, sup, path, asked, state, file, queued, verdict, readiness>>

Started ==
  /\ caller = "readiness" /\ readiness[session] = "ok"
  /\ Return("started")
  /\ UNCHANGED <<session, sup, path, asked, shared, workers, child>>

NotStarted ==
  /\ caller = "readiness" /\ readiness[session] = "err"
  /\ cmd_tx' = [cmd_tx EXCEPT ![sup] = 0]
  /\ active_pid' = [active_pid EXCEPT ![sup] = 0]
  /\ FailStart
  /\ UNCHANGED <<session, sup, asked, queued, workers, child>>

\* The future of start is dropped at one of its awaits.
CancelStart ==
  /\ caller \in {"preflight", "starting", "readiness"}
  /\ Return("cancelled")
  /\ UNCHANGED <<session, sup, path, asked, shared, workers, child>>

-----------------------------------------------------------------------------
\* stop.

FinishStop ==
  /\ path' = 0
  /\ Return("stopped")

\* A supervisor that is Stopped is left alone.
StopStopped ==
  /\ caller = "idle" /\ state[sup] = "Stopped"
  /\ Remove(ConfigOf(path))
  /\ FinishStop
  /\ UNCHANGED <<session, sup, asked, state, active_pid, cmd_tx, queued, workers, child>>

Stop ==
  /\ caller = "idle" /\ state[sup] # "Stopped"
  /\ caller' = "stop"
  /\ UNCHANGED <<last, session, sup, path, asked, shared, workers, child>>

\* Stopping; the Stop command goes to a worker that still has its receiver.
SendStop ==
  /\ caller = "stop"
  /\ state' = [state EXCEPT ![sup] = "Stopping"]
  /\ cmd_tx' = [cmd_tx EXCEPT ![sup] = 0]
  /\ LET s == cmd_tx[sup]
     IN  IF s # 0 /\ worker[s] # "done"
         THEN asked' = s /\ queued' = queued \cup {s} /\ caller' = "response"
         ELSE caller' = "kill" /\ UNCHANGED <<asked, queued>>
  /\ UNCHANGED <<last, session, sup, path, active_pid, file, workers, child>>

\* The worker answered, or went and dropped the command.
StopAnswered ==
  /\ caller = "response" /\ worker[asked] = "done"
  /\ caller' = "kill" /\ asked' = 0
  /\ UNCHANGED <<last, session, sup, path, shared, workers, child>>

\* Mutant: stop() waits for its answer however long it takes.
StopTimeout_Never == FALSE /\ UNCHANGED vars

StopTimeout ==
  /\ caller = "response"
  /\ caller' = "kill" /\ asked' = 0
  /\ UNCHANGED <<last, session, sup, path, shared, workers, child>>

\* Mutant: after a timeout the child is left to its worker.
KillRest_NoKill ==
  /\ caller = "kill"
  /\ active_pid' = [active_pid EXCEPT ![sup] = 0]
  /\ caller' = "finish"
  /\ UNCHANGED <<last, session, sup, path, asked, state, cmd_tx, file, queued,
                 workers, child>>

\* Whatever the worker did: the child is killed if its pid is still there.
KillRest ==
  /\ caller = "kill"
  /\ child' = Killed(active_pid[sup])
  /\ active_pid' = [active_pid EXCEPT ![sup] = 0]
  /\ caller' = "finish"
  /\ UNCHANGED <<last, session, sup, path, asked, state, cmd_tx, file, queued, workers>>

SetStopped ==
  /\ caller = "finish"
  /\ Remove(ConfigOf(path) \cup {sup})
  /\ state' = [state EXCEPT ![sup] = "Stopped"]
  /\ FinishStop
  /\ UNCHANGED <<session, sup, asked, active_pid, cmd_tx, queued, workers, child>>

\* The service is dropped: its config, then its supervisor.
DropService ==
  /\ caller = "idle"
  /\ CancelStops => last # "cancelled"
  /\ Dropped(sup)
  /\ Remove(ConfigOf(path) \cup {sup})
  /\ path' = 0
  /\ caller' = "gone" /\ last' = "dropped"
  /\ UNCHANGED <<session, sup, asked, state, queued, workers>>

-----------------------------------------------------------------------------
\* run_supervisor_worker.

GoOn(s, step) == worker' = [worker EXCEPT ![s] = step]

\* child.kill().await and what the worker will announce after it.
Kill(s, outcome) ==
  /\ child' = Killed(s)
  /\ GoOn(s, "killing")
  /\ verdict' = [verdict EXCEPT ![s] = outcome]

\* try_wait, wait: an error of theirs is that of a child that is gone.
Reap(s) == child[s] = "exited" /\ child' = [child EXCEPT ![s] = "reaped"]

ProbeStop(s) ==
  /\ worker[s] = "probing" /\ s \in queued
  /\ queued' = queued \ {s}
  /\ Kill(s, "Stopped")
  /\ UNCHANGED <<calls, state, active_pid, cmd_tx, file, readiness>>

ProbeExit(s) ==
  /\ worker[s] = "probing"
  /\ Reap(s)
  /\ GoOn(s, "clearing")
  /\ verdict' = [verdict EXCEPT ![s] = "Failed"]
  /\ UNCHANGED <<calls, shared, readiness>>

\* The probe passes and try_wait finds the child alive.
ProbePasses(s) ==
  /\ worker[s] = "probing" /\ child[s] \in {"running", "killed"}
  /\ state' = [state EXCEPT ![Of(s)] = "Ready"]
  /\ readiness' = [readiness EXCEPT ![s] = "ok"]
  /\ GoOn(s, "serving")
  /\ UNCHANGED <<calls, active_pid, cmd_tx, file, queued, verdict, child>>

\* Mutant: a child that was not ready in time is left running.
ProbeTimeout_NoKill(s) ==
  /\ worker[s] = "probing"
  /\ GoOn(s, "clearing")
  /\ verdict' = [verdict EXCEPT ![s] = "Failed"]
  /\ UNCHANGED <<calls, shared, readiness, child>>

ProbeTimeout(s) ==
  /\ worker[s] = "probing"
  /\ Kill(s, "Failed")
  /\ UNCHANGED <<calls, shared, readiness>>

ServeStop(s) ==
  /\ worker[s] = "serving" /\ s \in queued
  /\ queued' = queued \ {s}
  /\ state' = [state EXCEPT ![Of(s)] = "Stopping"]
  /\ GoOn(s, "terminating")
  /\ UNCHANGED <<calls, active_pid, cmd_tx, file, verdict, readiness, child>>

TerminateTimeout(s) ==
  /\ worker[s] = "terminating"
  /\ Kill(s, "Stopped")
  /\ UNCHANGED <<calls, shared, readiness>>

\* Every sender is gone: the one in cmd_tx and the one stop() holds.
ServeClosed(s) ==
  /\ worker[s] = "serving" /\ s \notin queued
  /\ cmd_tx[Of(s)] # s /\ asked # s
  /\ Kill(s, "Stopped")
  /\ UNCHANGED <<calls, shared, readiness>>

\* What is announced of a child that ended by itself is read from its status
\* and, after active_pid is cleared, from the state.
AfterExit(s) ==
  CASE worker[s] = "terminating" -> "Stopped"
    [] worker[s] = "killing"     -> verdict[s]
    [] OTHER                     -> "byExit"

\* Mutant: a worker that serves listens for commands only.
ChildEnded_Unwatched(s) ==
  /\ worker[s] \in {"terminating", "killing"}
  /\ Reap(s)
  /\ GoOn(s, "clearing")
  /\ verdict' = [verdict EXCEPT ![s] = AfterExit(s)]
  /\ UNCHANGED <<calls, shared, readiness>>

ChildEnded(s) ==
  /\ worker[s] \in {"serving", "terminating", "killing"}
  /\ Reap(s)
  /\ GoOn(s, "clearing")
  /\ verdict' = [verdict EXCEPT ![s] = AfterExit(s)]
  /\ UNCHANGED <<calls, shared, readiness>>

ClearPid(s) ==
  /\ worker[s] = "clearing"
  /\ active_pid' = [active_pid EXCEPT ![Of(s)] = 0]
  /\ IF verdict[s] = "byExit" /\ state[Of(s)] # "Stopping"
     THEN \E v \in {"Stopped", "Failed"} : verdict' = [verdict EXCEPT ![s] = v]
     ELSE verdict' = [verdict EXCEPT ![s] = IF @ = "byExit" THEN "Stopped" ELSE @]
  /\ GoOn(s, "cleaning")
  /\ UNCHANGED <<calls, state, cmd_tx, file, queued, readiness, child>>

CleanUp(s) ==
  /\ worker[s] = "cleaning"
  /\ Remove({Of(s)})
  /\ GoOn(s, "announcing")
  /\ UNCHANGED <<calls, state, active_pid, cmd_tx, queued, verdict, readiness, child>>

\* The state, the answer to stop() and to start(); the receiver goes with it.
Announce(s) ==
  /\ worker[s] = "announcing"
  /\ state' = [state EXCEPT ![Of(s)] = verdict[s]]
  /\ readiness' = [readiness EXCEPT ![s] = IF @ = "none" THEN "err" ELSE @]
  /\ queued' = queued \ {s}
  /\ GoOn(s, "done")
  /\ UNCHANGED <<calls, active_pid, cmd_tx, file, verdict, child>>

Worker(s) ==
  \/ ProbeStop(s) \/ ProbeExit(s) \/ ProbePasses(s) \/ ProbeTimeout(s)
  \/ ServeStop(s) \/ ServeClosed(s) \/ TerminateTimeout(s) \/ ChildEnded(s)
  \/ ClearPid(s) \/ CleanUp(s) \/ Announce(s)

-----------------------------------------------------------------------------
\* The child exits by itself or on SIGTERM; a killed one when the kernel lets it.
ChildExits(s) ==
  /\ child[s] \in {"running", "killed"}
  /\ child' = [child EXCEPT ![s] = "exited"]
  /\ UNCHANGED <<calls, shared, workers>>

StartGoesOn ==
  \/ PreflightFails \/ PreflightPasses \/ SpawnFails \/ Spawn \/ Started \/ NotStarted
StopGoesOn == SendStop \/ StopAnswered \/ StopTimeout \/ KillRest \/ SetStopped
\* What comes when its caller or the system likes.
Occurs ==
  \/ StartRefused \/ WriteFails \/ Prepare \/ CancelStart \/ StopStopped \/ Stop
  \/ DropService \/ \E s \in Sessions : ChildExits(s)

Next == Occurs \/ StartGoesOn \/ StopGoesOn \/ \E s \in Sessions : Worker(s)

Spec == Init /\ [][Next]_vars

\* The runtime polls every task that can go on and its timers fire; nothing is
\* assumed of a child, nor of when the kernel lets go of one that was killed.
FairSpec ==
  /\ Spec
  /\ WF_vars(StartGoesOn) /\ WF_vars(StopGoesOn)
  /\ \A s \in Sessions : WF_vars(Worker(s))

-----------------------------------------------------------------------------
\* Properties.

\* The type of every variable (core.rs, engine.rs); a pid or a sender that is
\* published is that of a session which has a child and a worker.
TypeOK ==
  /\ caller \in CallerSteps
  /\ last \in {"none", "failed", "started", "cancelled", "stopped", "dropped"}
  /\ session \in 0..MaxSessions /\ sup \in Supervisors
  /\ path \in 0..session /\ asked \in 0..session
  /\ state \in [Supervisors -> States]
  /\ active_pid \in [Supervisors -> 0..session]
  /\ cmd_tx \in [Supervisors -> 0..session]
  /\ file \in [Supervisors -> Files]
  /\ queued \subseteq Sessions
  /\ worker \in [Sessions -> WorkerSteps]
  /\ verdict \in [Sessions -> {"none", "Stopped", "Failed", "byExit"}]
  /\ readiness \in [Sessions -> {"none", "ok", "err"}]
  /\ child \in [Sessions -> {"none", "running", "killed", "exited", "reaped"}]
  /\ \A o \in Supervisors, s \in Sessions :
       s \in {active_pid[o], cmd_tx[o]} =>
         Of(s) = o /\ child[s] # "none" /\ worker[s] # "none"

\* A supervisor that says it is Stopped or Failed has no child running, whatever
\* start() or stop() or its worker made it say so, and neither has one that was
\* dropped: stop() and a new start rely on the word.
NotRunningMeansGone ==
  \A s \in Sessions :
    child[s] = "running" =>
      /\ state[Of(s)] \notin {"Stopped", "Failed"}
      /\ caller # "gone" /\ Of(s) = sup

\* No config with its secrets is forgotten: when stop() or a failed start has
\* returned, or the engine is reported to have ended by itself, each config that
\* was written has been removed, or a removal of it was tried and failed.  Their
\* errors are discarded (engine.rs:1006, 1038, 1055; core.rs:409, 465, 484), and
\* nothing removes the part of one whose write failed (engine.rs:840).
NoResidue ==
  caller \in {"idle", "gone"} /\ last \notin {"none", "cancelled"} =>
    /\ last # "started" => \A o \in Supervisors : file[o] # "written"
    /\ state[sup] \in {"Stopped", "Failed"} => file[sup] # "written"

\* The end of an engine that was ready is noticed: those who watch the state
\* see it leave Ready.
EndNoticed ==
  \A s \in Sessions :
    child[s] = "exited" ~> state[Of(s)] \in {"Stopped", "Failed"}

\* Every call of start() and stop() returns.  A killed child that the kernel does
\* not let go of may hold up start(), never stop().
CallsReturn ==
  caller \notin {"idle", "gone"} ~>
    caller = "idle" \/ (caller = "readiness" /\ child[session] = "killed")

\* "graceful stop leaves no child process" (docs/TESTING.md, L4).
StopLeavesNoChild ==
  caller = "idle" /\ last = "stopped" => \A s \in Sessions : child[s] # "running"

\* stop() "guarantees the removal of runtime files" (ProxyService::stop).
StopLeavesNoConfig ==
  caller = "idle" /\ last = "stopped" => \A o \in Supervisors : file[o] = "none"
=============================================================================
