--------------------------- MODULE RightExperiment --------------------------
(***************************************************************************)
(* The native round trip of right_experiment/: runs of the experiment in   *)
(* one directory, each with a right of its own (a random name), its        *)
(* approval, the manifest it appends to, the calls into the authorization  *)
(* database and the watchdog that ends the process.                        *)
(*                                                                         *)
(* execute_inner is a list of phases; each checks the deadline, reads or   *)
(* calls, and records what it got, and goes on only if that is what the    *)
(* phase expects.  The manifest is the set of its whole lines: "durable"   *)
(* those that were synced, "loose" those a failed append may have left.    *)
(* The database, its other writers, stdin and the native calls are         *)
(* external: they answer at any time or never.                             *)
(***************************************************************************)
EXTENDS Naturals

CONSTANTS
  Runs,  \* processes started in the directory, one after another or together
  None   \* no run

ASSUME RunAssumption == None \notin Runs

Reads == {"Baseline", "BeforeCreate", "Created", "BeforeRemove", "Removed"}
Mutations == {"Create", "Remove"}
Phases == Reads \cup Mutations \cup {"Authorize"}
Preparations == {"prepare", "approval", "manifest", "sync", "approvalLine"}
Places == {"off", "ended", "Result"} \cup Preparations \cup Phases
Parts == {"intent", "check", "inspect", "call", "calling", "record", "exit"}

\* What a phase must get to go on, and the phase that follows.
Expected == [p \in Phases |->
  IF p \in {"Baseline", "BeforeCreate", "Removed"} THEN "Absent"
  ELSE IF p \in {"Created", "BeforeRemove"} THEN "Exact" ELSE "ok"]
After(p) ==
  CASE p = "Baseline" -> "Authorize"      [] p = "Authorize" -> "BeforeCreate"
    [] p = "BeforeCreate" -> "Create"     [] p = "Create" -> "Created"
    [] p = "Created" -> "BeforeRemove"    [] p = "BeforeRemove" -> "Remove"
    [] p = "Remove" -> "Removed"          [] p = "Removed" -> "Result"
FirstPart(p) ==
  IF p \in Mutations THEN "intent" ELSE IF p = "Result" THEN "record" ELSE "check"

\* Entries of the database under a run's name: none, what create() wrote as it
\* was written or with fields the database added, and what others wrote.
Ours == {"ours", "oursAltered"}
Others == {"foreignExact", "foreign"}
Observations == {"Absent", "Exact", "Incompatible"}
Observed(entry) ==
  IF entry = "none" THEN "Absent"
  ELSE IF entry \in {"ours", "foreignExact"} THEN "Exact" ELSE "Incompatible"
\* shape::inspect gives up on a definition that is too deep, wide or long,
\* which an exact one never is.
ShapeMayExceed(entry) == entry \in {"oursAltered", "foreign"}

Environments == [target : BOOLEAN, terminal : BOOLEAN, ci : BOOLEAN, private : BOOLEAN]
\* What the operator types: the challenge it names, and which checks it passes.
Approvals == [names : Runs, formed : BOOLEAN, consents : BOOLEAN,
              build : BOOLEAN, digest : BOOLEAN]
Valid(a, r) == a.formed /\ a.consents /\ a.build /\ a.digest /\ a.names = r

Lines == ({"Approval"} \X Runs)
         \cup ((Phases \cup {"Result"}) \X
               (Observations \cup {"ok", "error", "intent", "shape", "refused", "quarantine"}))

VARIABLES
  env,        \* the session of the operator: what every process finds around it
  warned,     \* [Runs -> BOOLEAN]: --preflight failed in place of the run
  place,      \* [Runs -> Places]: how far a run is
  part,       \* [Runs -> Parts]: and where in its phase
  got,        \* [Runs -> ...]: what the phase read or was answered
  verdict,    \* [Runs -> {"ok", "refused", "quarantine"}]: result of execute()
  exit,       \* [Runs -> {"none", "exit0", "exit2", "exit3", "killed"}]: how the process ended
  due,        \* [Runs -> SUBSET ...]: which clocks are past the deadline
  called,     \* [Runs -> SUBSET Mutations]: native mutations begun
  inflight,   \* [Runs -> Mutations or "none"]: a request the database holds
  right,      \* [Runs -> entry]: the database
  lock,       \* the run that holds the lock of the directory
  owner,      \* the run that created the manifest, None while there is none
  kept,       \* the directory with the manifest's name was synced
  durable,    \* lines of the manifest that were synced
  loose       \* lines of the manifest that were not

run == <<place, part, got, verdict, exit>>
database == <<called, inflight, right>>
manifest == <<owner, kept, durable, loose>>
vars == <<env, warned, run, due, database, lock, manifest>>

Running(r) == place[r] \notin {"off", "ended"}

Init ==
  /\ env \in Environments
  /\ warned = [r \in Runs |-> FALSE]
  /\ place = [r \in Runs |-> "off"]
  /\ part = [r \in Runs |-> "check"]
  /\ got = [r \in Runs |-> "ok"]
  /\ verdict = [r \in Runs |-> "ok"]
  /\ exit = [r \in Runs |-> "none"]
  /\ due = [r \in Runs |-> {}]
  /\ called = [r \in Runs |-> {}]
  /\ inflight = [r \in Runs |-> "none"]
  /\ right = [r \in Runs |-> "none"]
  /\ lock = None /\ owner = None /\ kept = FALSE
  /\ durable = {} /\ loose = {}

-----------------------------------------------------------------------------
(* --preflight                                                             *)

PreflightPasses(e) == e.target /\ e.terminal /\ ~e.ci /\ e.private /\ owner = None

Preflight(r) ==
  /\ place[r] = "off"
  /\ warned' = [warned EXCEPT ![r] = ~PreflightPasses(env)]
  /\ UNCHANGED <<env, run, due, database, lock, manifest>>

-----------------------------------------------------------------------------
(* --run                                                                   *)

GoTo(r, p) ==
  /\ place' = [place EXCEPT ![r] = p]
  /\ part' = [part EXCEPT ![r] = FirstPart(p)]
  /\ UNCHANGED <<got, verdict, exit>>

\* The process ends: its memory and its lock go with it, nothing is cleaned up.
End(r, code) ==
  /\ place' = [place EXCEPT ![r] = "ended"]
  /\ exit' = [exit EXCEPT ![r] = code]
  /\ part' = [part EXCEPT ![r] = "check"]
  /\ got' = [got EXCEPT ![r] = "ok"]
  /\ verdict' = [verdict EXCEPT ![r] = "ok"]
  /\ due' = [due EXCEPT ![r] = {}]
  /\ lock' = IF lock = r THEN None ELSE lock

\* (mutated: --run does not look for CI)
Admitted_InCi(e) == e.target /\ e.terminal

Admitted(e) == e.target /\ e.terminal /\ ~e.ci

Start(r) ==
  /\ place[r] = "off"
  /\ \/ Admitted(env) /\ GoTo(r, "prepare") /\ UNCHANGED <<due, lock>>
     \/ ~Admitted(env) /\ End(r, "exit2")
  /\ UNCHANGED <<env, warned, database, manifest>>

\* A step before execute() fails; the manifest may exist by then.
Refuse(r) ==
  /\ place[r] \in Preparations
  /\ End(r, "exit2")
  /\ UNCHANGED <<env, warned, database, manifest>>

PrivateDirectory(r) ==
  /\ place[r] = "prepare"
  /\ env.private /\ lock = None
  /\ lock' = r
  /\ GoTo(r, "approval")
  /\ UNCHANGED <<env, warned, due, database, manifest>>

Approve(r) ==
  /\ place[r] = "approval"
  /\ \E a \in Approvals :
       \/ Valid(a, r) /\ GoTo(r, "manifest") /\ UNCHANGED <<due, lock>>
       \/ ~Valid(a, r) /\ End(r, "exit2")
  /\ UNCHANGED <<env, warned, database, manifest>>

\* (mutated: a manifest that exists is opened again)
CreateManifest_Reopens(r) ==
  /\ place[r] = "manifest"
  /\ owner' = r /\ UNCHANGED <<kept, durable, loose>>
  /\ GoTo(r, "sync")
  /\ UNCHANGED <<env, warned, due, database, lock>>

\* O_EXCL: a manifest that exists is never opened.
CreateManifest(r) ==
  /\ place[r] = "manifest"
  /\ owner = None
  /\ owner' = r /\ kept' = FALSE /\ durable' = {} /\ loose' = {}
  /\ GoTo(r, "sync")
  /\ UNCHANGED <<env, warned, due, database, lock>>

SyncManifest(r) ==
  /\ place[r] = "sync"
  /\ kept' = TRUE
  /\ GoTo(r, "approvalLine")
  /\ UNCHANGED <<env, warned, due, database, lock, owner, durable, loose>>

\* append(): the line is written and synced, or the call fails and the line
\* is in the file or not.
Appended(line) == durable' = durable \cup {line} /\ UNCHANGED <<owner, kept, loose>>
AppendFails(line) ==
  /\ loose' \in {loose, loose \cup {line}}
  /\ UNCHANGED <<owner, kept, durable>>

ApprovalLine(r) ==
  /\ place[r] = "approvalLine"
  /\ \/ Appended(<<"Approval", r>>) /\ GoTo(r, "Baseline") /\ UNCHANGED <<due, lock>>
     \/ AppendFails(<<"Approval", r>>) /\ End(r, "exit2")
  /\ UNCHANGED <<env, warned, database>>

-----------------------------------------------------------------------------
(* execute()                                                               *)

\* execute_inner returns an error; the result is recorded next.
Stop(r, v) ==
  /\ place' = [place EXCEPT ![r] = "Result"]
  /\ part' = [part EXCEPT ![r] = "record"]
  /\ verdict' = [verdict EXCEPT ![r] = v]
  /\ UNCHANGED <<got, exit>>

Proceed(r, q) ==
  part' = [part EXCEPT ![r] = q] /\ UNCHANGED <<place, got, verdict, exit>>

Got(r, value) ==
  /\ got' = [got EXCEPT ![r] = value]
  /\ part' = [part EXCEPT ![r] = "record"]
  /\ UNCHANGED <<place, verdict, exit>>

\* (mutated: a late run is always refused, whatever it began)
Checkpoint_AlwaysRefuses(r) ==
  /\ place[r] \in Phases /\ part[r] = "check"
  /\ \/ /\ "checkpoint" \notin due[r]
        /\ Proceed(r, IF place[r] \in Reads THEN "inspect" ELSE "call")
     \/ "checkpoint" \in due[r] /\ Stop(r, "refused")
  /\ UNCHANGED <<env, warned, due, database, lock, manifest>>

Checkpoint(r) ==
  /\ place[r] \in Phases /\ part[r] = "check"
  /\ \/ /\ "checkpoint" \notin due[r]
        /\ Proceed(r, IF place[r] \in Reads THEN "inspect" ELSE "call")
     \/ /\ "checkpoint" \in due[r]
        /\ Stop(r, IF place[r] \in {"Baseline", "Authorize"} THEN "refused" ELSE "quarantine")
  /\ UNCHANGED <<env, warned, due, database, lock, manifest>>

\* A definition that is there has its shape recorded before it is classified.
Inspect(r) ==
  /\ place[r] \in Reads /\ part[r] = "inspect"
  /\ \/ right[r] = "none" /\ Got(r, "Absent") /\ UNCHANGED manifest
     \/ /\ right[r] # "none"
        /\ \/ Appended(<<place[r], "shape">>) /\ Got(r, Observed(right[r]))
           \/ AppendFails(<<place[r], "shape">>) /\ Stop(r, "quarantine")
     \/ ShapeMayExceed(right[r]) /\ Stop(r, "quarantine") /\ UNCHANGED manifest
     \/ Stop(r, "quarantine") /\ UNCHANGED manifest
  /\ UNCHANGED <<env, warned, due, database, lock>>

Authorize(r) ==
  /\ place[r] = "Authorize" /\ part[r] = "call"
  /\ \E answer \in {"ok", "error"} : Got(r, answer)
  /\ UNCHANGED <<env, warned, due, database, lock, manifest>>

Intent(r) ==
  /\ place[r] \in Mutations /\ part[r] = "intent"
  /\ \/ Appended(<<place[r], "intent">>) /\ Proceed(r, "check")
     \/ AppendFails(<<place[r], "intent">>) /\ Stop(r, "quarantine")
  /\ UNCHANGED <<env, warned, due, database, lock>>

Call(r) ==
  /\ place[r] \in Mutations /\ part[r] = "call"
  /\ called' = [called EXCEPT ![r] = @ \cup {place[r]}]
  /\ inflight' = [inflight EXCEPT ![r] = place[r]]
  /\ Proceed(r, "calling")
  /\ UNCHANGED <<env, warned, due, right, lock, manifest>>

\* The database carries a request out, perhaps after its caller is gone.
Effect(r) ==
  /\ inflight[r] # "none"
  /\ \E entry \in IF inflight[r] = "Create" THEN Ours ELSE {"none"} :
       right' = [right EXCEPT ![r] = entry]
  /\ inflight' = [inflight EXCEPT ![r] = "none"]
  /\ UNCHANGED <<env, warned, run, due, called, lock, manifest>>

\* Success is answered after the effect, an error with the effect, without
\* it, or before it.
Return(r) ==
  /\ place[r] \in Mutations /\ part[r] = "calling"
  /\ \/ inflight[r] = "none" /\ Got(r, "ok")
     \/ Got(r, "error")
  /\ UNCHANGED <<env, warned, due, database, lock, manifest>>

Record(r) ==
  /\ place[r] \in Phases /\ part[r] = "record"
  /\ LET line == <<place[r], got[r]>> IN
       \/ /\ Appended(line)
          /\ \/ got[r] = Expected[place[r]] /\ GoTo(r, After(place[r]))
             \/ /\ got[r] # Expected[place[r]]
                /\ Stop(r, IF place[r] = "Authorize" THEN "refused" ELSE "quarantine")
       \/ AppendFails(line) /\ Stop(r, "quarantine")
  /\ UNCHANGED <<env, warned, due, database, lock>>

\* The result itself is a line; if it cannot be written, the run is unknown.
Result(r) ==
  /\ place[r] = "Result" /\ part[r] = "record"
  /\ LET line == <<"Result", verdict[r]>> IN
       \/ Appended(line) /\ UNCHANGED verdict
       \/ AppendFails(line) /\ verdict' = [verdict EXCEPT ![r] = "quarantine"]
  /\ part' = [part EXCEPT ![r] = "exit"]
  /\ UNCHANGED <<env, warned, place, got, exit, due, database, lock>>

ExitCode(v) == IF v = "ok" THEN "exit0" ELSE IF v = "refused" THEN "exit2" ELSE "exit3"

Exit(r) ==
  /\ place[r] = "Result" /\ part[r] = "exit"
  /\ End(r, ExitCode(verdict[r]))
  /\ UNCHANGED <<env, warned, database, manifest>>

-----------------------------------------------------------------------------
(* Time, the watchdog, other writers and crashes                           *)

\* The watchdog and checkpoint() measure from instants of their own.
Tick(r, clock) ==
  /\ Running(r)
  /\ due' = [due EXCEPT ![r] = @ \cup {clock}]
  /\ UNCHANGED <<env, warned, run, database, lock, manifest>>

\* (mutated: looks at the deadline only between native calls)
Watchdog_BetweenCalls(r) ==
  /\ Running(r) /\ "watchdog" \in due[r] /\ part[r] # "calling"
  /\ End(r, "exit3")
  /\ UNCHANGED <<env, warned, database, manifest>>

\* The watchdog exits the process whatever it is doing.
Watchdog(r) ==
  /\ Running(r) /\ "watchdog" \in due[r]
  /\ End(r, "exit3")
  /\ UNCHANGED <<env, warned, database, manifest>>

\* The name is random and new: nobody writes it before the run, and what is
\* written before the baseline is read is as if written just then.
OtherWriter(r) ==
  /\ place[r] \in Phases
  /\ \E entry \in Others \cup {"none"} : right' = [right EXCEPT ![r] = entry]
  /\ UNCHANGED <<env, warned, run, due, called, inflight, lock, manifest>>

Killed(r) ==
  /\ Running(r)
  /\ End(r, "killed")
  /\ UNCHANGED <<env, warned, database, manifest>>

\* The machine stops: requests die, loose lines survive or not, and so does a
\* manifest whose name was not synced.  An answer of --preflight is void.
PowerLoss ==
  /\ place' = [r \in Runs |-> IF Running(r) THEN "ended" ELSE place[r]]
  /\ exit' = [r \in Runs |-> IF Running(r) THEN "killed" ELSE exit[r]]
  /\ inflight' = [r \in Runs |-> "none"]
  /\ warned' = [r \in Runs |-> FALSE]
  /\ lock' = None
  /\ loose' = {}
  /\ \/ \E left \in SUBSET loose : durable' = durable \cup left /\ UNCHANGED <<owner, kept>>
     \/ ~kept /\ owner' = None /\ durable' = {} /\ UNCHANGED kept
  /\ due' = [r \in Runs |-> {}]
  /\ part' = [r \in Runs |-> "check"]
  /\ got' = [r \in Runs |-> "ok"]
  /\ verdict' = [r \in Runs |-> "ok"]
  /\ UNCHANGED <<env, called, right>>

Prepares(r) ==
  \/ Preflight(r) \/ Start(r) \/ Refuse(r) \/ PrivateDirectory(r) \/ Approve(r)
  \/ CreateManifest(r) \/ SyncManifest(r) \/ ApprovalLine(r)
Executes(r) ==
  \/ Checkpoint(r) \/ Inspect(r) \/ Authorize(r) \/ Intent(r) \/ Call(r) \/ Return(r)
  \/ Record(r) \/ Result(r) \/ Exit(r)
Surroundings(r) ==
  \/ Tick(r, "watchdog") \/ Tick(r, "checkpoint") \/ Watchdog(r)
  \/ Effect(r) \/ OtherWriter(r) \/ Killed(r)

Next == PowerLoss \/ \E r \in Runs : Prepares(r) \/ Executes(r) \/ Surroundings(r)

Spec == Init /\ [][Next]_vars

\* Time passes and the watchdog's thread runs; nothing is assumed of the
\* operator, of the native calls or of the steps of the run.
FairSpec == Spec /\ \A r \in Runs : WF_vars(Tick(r, "watchdog")) /\ WF_vars(Watchdog(r))

-----------------------------------------------------------------------------
(* Properties                                                              *)

TypeOK ==
  /\ env \in Environments
  /\ warned \in [Runs -> BOOLEAN]
  /\ place \in [Runs -> Places]
  /\ part \in [Runs -> Parts]
  /\ got \in [Runs -> Observations \cup {"ok", "error"}]
  /\ verdict \in [Runs -> {"ok", "refused", "quarantine"}]
  /\ exit \in [Runs -> {"none", "exit0", "exit2", "exit3", "killed"}]
  /\ due \in [Runs -> SUBSET {"watchdog", "checkpoint"}]
  /\ called \in [Runs -> SUBSET Mutations]
  /\ inflight \in [Runs -> Mutations \cup {"none"}]
  /\ right \in [Runs -> {"none"} \cup Ours \cup Others]
  /\ lock \in Runs \cup {None} /\ owner \in Runs \cup {None} /\ kept \in BOOLEAN
  /\ durable \subseteq Lines /\ loose \subseteq Lines

\* What has to be in the manifest before the entry is created and removed.
BeforeCreation(r) ==
  {<<"Approval", r>>, <<"Baseline", "Absent">>, <<"Authorize", "ok">>,
   <<"BeforeCreate", "Absent">>, <<"Create", "intent">>}
BeforeRemoval ==
  {<<"Create", "ok">>, <<"Created", "Exact">>, <<"BeforeRemove", "Exact">>,
   <<"Remove", "intent">>}

\* The exit code can be relied on whenever the process ended, was stopped by its
\* watchdog or failed anywhere: 2 means that no mutation of the database was
\* begun; 0 means that the whole round trip is in the manifest, that nothing is
\* in flight and that the entry the run wrote is gone.  Everything else is 3.
ExitTruthful == \A r \in Runs :
  /\ exit[r] = "exit2" => called[r] = {}
  /\ exit[r] = "exit0" =>
       /\ BeforeCreation(r) \cup BeforeRemoval
            \cup {<<"Remove", "ok">>, <<"Removed", "Absent">>, <<"Result", "ok">>} \subseteq durable
       /\ inflight[r] = "none" /\ right[r] \notin Ours

\* The evidence comes first and is one run's: when a run has begun to create its
\* entry, the manifest in the directory is its own and already holds, synced,
\* its approval, the absent baseline and the intent; when it has begun to
\* remove it, also the known success of the creation and two exact readings.
\* No kill, power loss or second run in the directory changes that.
EvidenceFirst == \A r \in Runs :
  /\ called[r] # {} => owner = r /\ kept /\ BeforeCreation(r) \subseteq durable
  /\ "Remove" \in called[r] => BeforeRemoval \subseteq durable

\* --preflight and --run check the same things: where --preflight failed, a
\* --run in the same surroundings never gets to a mutation.
PreflightHolds == \A r \in Runs : warned[r] => called[r] = {}

\* A run ends, though the operator, the authorization prompt or the database
\* may never answer: the watchdog ends it.
Ends == \A r \in Runs : Running(r) ~> ~Running(r)
=============================================================================
