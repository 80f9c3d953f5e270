---------------------------- MODULE HelperInstall ----------------------------
(***************************************************************************)
(* The executor of macos_helper_install.rs, which installs the privileged  *)
(* helper and its launchd job and removes them again, against a machine    *)
(* where any call may fail, the process may be killed and the machine may  *)
(* be restarted between two calls, and the file the helper is copied from  *)
(* may be replaced by another.                                             *)
(*                                                                         *)
(* A file is its data and whether its owner and mode have been set; data   *)
(* is "none" when there is no file, "partial" while it is being written.   *)
(* launchd and the source's other writers are external: a job is loaded    *)
(* once, a job that is not loaded cannot be unloaded, and a restart loads  *)
(* the jobs whose definition is whole.                                     *)
(***************************************************************************)
EXTENDS Naturals, Sequences

CONSTANT Contents   \* what the helper's executable can be; a digest tells them apart

ASSUME ContentsAssumption == Contents \cap {"none", "partial"} = {}

VARIABLES
    helper,    \* the file at DEFAULT_HELPER_PROGRAM_PATH
    plist,     \* the file at DEFAULT_LAUNCHD_PLIST_PATH
    loaded,    \* launchd has the job
    source,    \* what is at the source path now
    pc,        \* the call the executor is in
    plan,      \* the operations of the current or the last plan
    expected,  \* the digest in its copy operation
    root,      \* whether the process runs as root
    fd,        \* what the verified source, kept open, holds
    done,      \* how many operations are applied and not undone
    result,    \* how the last execute() ended
    clean,     \* history: the last plan began on a machine with nothing installed
    over,      \* history: a helper was written although its job was defined or loaded
    slips      \* history: what an error the code ignores, or misreads, left behind

machine == <<helper, plist, loaded>>
history == <<clean, over, slips>>
vars == <<helper, plist, loaded, source, pc, plan, expected, root, fd, done,
          result, clean, over, slips>>

Absent == [data |-> "none", set |-> FALSE]
Nothing == helper = Absent /\ plist = Absent /\ ~loaded

InstallOrder == <<"copy", "plist", "load">>

\* Mutant: the files are removed in the other order.
UninstallOrder_HelperFirst == <<"unload", "remove_helper", "remove_plist">>

\* The job first, so that nothing is removed from under it.
UninstallOrder == <<"unload", "remove_plist", "remove_helper">>

(* HelperInstallPlan::validate. An operation whose path, label, owner, mode *)
(* or property list is not the fixed one is "foreign" to both orders.       *)
Valid(ops) == ops \in {InstallOrder, UninstallOrder}

Init ==
    /\ helper = Absent /\ plist = Absent /\ loaded = FALSE
    /\ source \in Contents \cup {"none"}
    /\ pc = "idle" /\ plan = <<>> /\ root = FALSE /\ done = 0
    /\ expected \in Contents /\ fd = "none" /\ result = "none"
    /\ clean = TRUE /\ over = FALSE /\ slips = {}

Return(r) ==
    /\ pc' = "idle" /\ result' = r /\ done' = 0 /\ fd' = "none"

(***************************************************************************)
(* execute(): the plan is validated before anything else; the source is    *)
(* opened and hashed through one descriptor, which is kept; only then is   *)
(* the process's authorization looked at.                                  *)
(***************************************************************************)
Execute(ops, digest, asRoot) ==
    /\ pc = "idle"
    /\ plan' = (IF Valid(ops) THEN ops ELSE <<>>)
    /\ expected' = digest /\ root' = asRoot
    /\ IF Valid(ops)
       THEN pc' = "preflight" /\ UNCHANGED <<result, done, fd>>
       ELSE Return("refused")
    /\ clean' = Nothing
    /\ over' = (over /\ ~Nothing)
    /\ slips' = IF Nothing THEN {} ELSE slips
    /\ UNCHANGED <<machine, source>>

SourceVerified == source = expected

Preflight ==
    /\ pc = "preflight"
    /\ \/ /\ plan = InstallOrder /\ SourceVerified
          /\ fd' = source /\ pc' = "authorize"
          /\ UNCHANGED <<done, result>>
       \/ plan = InstallOrder /\ Return("refused")
       \/ plan = UninstallOrder /\ pc' = "authorize" /\ UNCHANGED <<fd, done, result>>
    /\ UNCHANGED <<machine, source, plan, expected, root, history>>

EnsureAuthorized ==
    /\ pc = "authorize"
    /\ IF root THEN pc' = "apply" /\ UNCHANGED <<fd, done, result>>
       ELSE Return("refused")
    /\ UNCHANGED <<machine, source, plan, expected, root, history>>

(* The next operation in order, in a call of its own.                      *)
At(op) == pc = "apply" /\ done < 3 /\ plan[done + 1] = op

(* An operation succeeded: the plan goes on, or is completed.              *)
Applied ==
    IF done = 2 THEN Return("completed")
    ELSE pc' = "apply" /\ done' = done + 1 /\ UNCHANGED <<fd, result>>

\* Mutant: a failed install is reported without its rollback.
Failed_NoRollback ==
    IF plan = InstallOrder THEN Return("failed") ELSE Return("stopped")

(* An operation of an install failed: what was applied is rolled back; of  *)
(* an uninstall: execution stops and reports what remains.                 *)
Failed ==
    IF plan = InstallOrder
    THEN IF done = 0 THEN Return("failed")
         ELSE pc' = "undo" /\ UNCHANGED <<fd, done, result>>
    ELSE Return("stopped")

(* open_destination_file_no_follow creates the file or empties the one     *)
(* that is there, whose owner and mode stay.                               *)
Emptied(file) == [file EXCEPT !.data = "partial"]

OpenHelper ==
    /\ At("copy")
    /\ helper' = Emptied(helper) /\ pc' = "copying"
    /\ over' = (over \/ plist # Absent \/ loaded)
    /\ UNCHANGED <<plist, loaded, source, plan, expected, root, fd, done, result,
                   clean, slips>>

\* Mutant: the copy opens the source path again.
CopyHelper_FromPath ==
    /\ pc = "copying"
    /\ helper' = [data |-> source, set |-> TRUE]
    /\ Applied
    /\ UNCHANGED <<plist, loaded, source, plan, expected, root, history>>

CopyHelper ==
    /\ pc = "copying"
    /\ helper' = [data |-> fd, set |-> TRUE]
    /\ Applied
    /\ UNCHANGED <<plist, loaded, source, plan, expected, root, history>>

(* Copying, syncing or setting the owner fails and the file is removed,    *)
(* unless that fails too. The seek between the last two returns at once    *)
(* and removes nothing. Either way the operation does not count as applied.*)
CopyHelperFails ==
    /\ pc = "copying"
    /\ \/ helper' = Absent /\ slips' = slips
       \/ /\ \E data \in {"partial", fd} : helper' = [helper EXCEPT !.data = data]
          /\ slips' = slips \cup {"helper"}
    /\ Failed
    /\ UNCHANGED <<plist, loaded, source, plan, expected, root, clean, over>>

OpenPlist ==
    /\ At("plist")
    /\ plist' = Emptied(plist) /\ pc' = "writing"
    /\ UNCHANGED <<helper, loaded, source, plan, expected, root, fd, done, result,
                   history>>

WriteLaunchdPlist ==
    /\ pc = "writing"
    /\ plist' = [data |-> "whole", set |-> TRUE]
    /\ Applied
    /\ UNCHANGED <<helper, loaded, source, plan, expected, root, history>>

WriteLaunchdPlistFails ==
    /\ pc = "writing"
    /\ \/ plist' = Absent /\ slips' = slips
       \/ /\ \E data \in {"partial", "whole"} : plist' = [plist EXCEPT !.data = data]
          /\ slips' = slips \cup {"plist"}
    /\ Failed
    /\ UNCHANGED <<helper, loaded, source, plan, expected, root, clean, over>>

(* A destination cannot be opened: a symbolic link, no directory. A file   *)
(* cannot be removed. Nothing has changed.                                 *)
CallRefused ==
    /\ At("copy") \/ At("plist") \/ At("remove_plist") \/ At("remove_helper")
    /\ Failed
    /\ UNCHANGED <<machine, source, plan, expected, root, history>>

LoadLaunchDaemon ==
    /\ At("load") /\ ~loaded
    /\ loaded' = TRUE
    /\ Applied
    /\ UNCHANGED <<helper, plist, source, plan, expected, root, history>>

(* launchctl's status is not success: the job was loaded before, could not *)
(* be loaded, or is loaded and launchctl ended in another way.             *)
LoadLaunchDaemonFails ==
    /\ At("load")
    /\ loaded' \in {loaded, TRUE}
    /\ slips' = IF loaded' = loaded THEN slips ELSE slips \cup {"job"}
    /\ Failed
    /\ UNCHANGED <<helper, plist, source, plan, expected, root, clean, over>>

UnloadLaunchDaemon ==
    /\ At("unload") /\ loaded
    /\ loaded' = FALSE
    /\ Applied
    /\ UNCHANGED <<helper, plist, source, plan, expected, root, history>>

UnloadLaunchDaemonFails ==
    /\ At("unload")
    /\ loaded' \in {loaded, FALSE}
    /\ Failed
    /\ UNCHANGED <<helper, plist, source, plan, expected, root, history>>

(* A file that is not there counts as removed.                             *)
RemovePlist ==
    /\ At("remove_plist")
    /\ plist' = Absent
    /\ Applied
    /\ UNCHANGED <<helper, loaded, source, plan, expected, root, history>>

RemoveHelper ==
    /\ At("remove_helper")
    /\ helper' = Absent
    /\ Applied
    /\ UNCHANGED <<plist, loaded, source, plan, expected, root, history>>

(***************************************************************************)
(* rollback_install, in reverse order. Loading is the last operation, so   *)
(* it is never among those to undo. The first failure ends the rollback    *)
(* and becomes the error that is returned.                                 *)
(***************************************************************************)
Undone(op) == pc = "undo" /\ plan[done] = op

Rollback ==
    /\ \/ Undone("copy") /\ helper' = Absent /\ plist' = plist
       \/ Undone("plist") /\ plist' = Absent /\ helper' = helper
    /\ IF done = 1 THEN Return("failed")
       ELSE done' = done - 1 /\ UNCHANGED <<pc, fd, result>>
    /\ UNCHANGED <<loaded, source, plan, expected, root, history>>

RollbackFails ==
    /\ pc = "undo"
    /\ Return("rollback_failed")
    /\ UNCHANGED <<machine, source, plan, expected, root, history>>

(***************************************************************************)
(* What is not the executor.                                               *)
(***************************************************************************)
SourceReplaced ==
    /\ source' \in (Contents \cup {"none"}) \ {source}
    /\ UNCHANGED <<machine, pc, plan, expected, root, fd, done, result, history>>

Killed ==
    /\ pc # "idle"
    /\ Return("killed")
    /\ UNCHANGED <<machine, source, plan, expected, root, history>>

(* launchd loads a whole definition that is the system's own, perhaps one  *)
(* whose mode was not set yet, and no other.                               *)
Restart ==
    /\ \/ plist.data = "whole" /\ loaded' = TRUE
       \/ ~(plist.data = "whole" /\ plist.set) /\ loaded' = FALSE
    /\ IF pc = "idle" THEN UNCHANGED <<pc, result, done, fd>> ELSE Return("killed")
    /\ UNCHANGED <<helper, plist, source, plan, expected, root, history>>

(* Plans a caller builds: the two valid ones, and one each that is empty,  *)
(* incomplete, in another order, mixed, or not of this helper.             *)
Plans == {InstallOrder, UninstallOrder, <<>>, <<"copy", "plist">>,
          <<"plist", "load", "copy">>, <<"unload", "remove_helper", "remove_plist">>,
          <<"copy", "plist", "unload">>, <<"copy", "foreign", "load">>}

Next ==
    \/ \E ops \in Plans, digest \in Contents, asRoot \in BOOLEAN :
           Execute(ops, digest, asRoot)
    \/ Preflight \/ EnsureAuthorized
    \/ OpenHelper \/ CopyHelper \/ CopyHelperFails
    \/ OpenPlist \/ WriteLaunchdPlist \/ WriteLaunchdPlistFails
    \/ CallRefused
    \/ LoadLaunchDaemon \/ LoadLaunchDaemonFails
    \/ UnloadLaunchDaemon \/ UnloadLaunchDaemonFails
    \/ RemovePlist \/ RemoveHelper
    \/ Rollback \/ RollbackFails
    \/ SourceReplaced \/ Killed \/ Restart

Spec == Init /\ [][Next]_vars
-----------------------------------------------------------------------------
MachineTypes ==
    /\ helper \in [data : Contents \cup {"none", "partial"}, set : BOOLEAN]
    /\ plist \in [data : {"none", "partial", "whole"}, set : BOOLEAN]
    /\ loaded \in BOOLEAN

PlanTypes ==
    /\ source \in Contents \cup {"none"} /\ fd \in Contents \cup {"none"}
    /\ plan \in {<<>>, InstallOrder, UninstallOrder}
    /\ expected \in Contents /\ root \in BOOLEAN

ControlTypes ==
    /\ pc \in {"idle", "preflight", "authorize", "apply", "copying", "writing", "undo"}
    /\ pc # "idle" => plan # <<>>
    /\ done \in 0 .. 2 /\ (pc = "undo" => done \in 1 .. 2)
    /\ result \in {"none", "refused", "completed", "failed", "stopped",
                    "rollback_failed", "killed"}

HistoryTypes ==
    clean \in BOOLEAN /\ over \in BOOLEAN /\ slips \subseteq {"helper", "plist", "job"}

(* Types, and what the code relies on to index its plan: a plan runs only  *)
(* when there is one, and a rollback has an operation to undo.             *)
TypeOK == MachineTypes /\ PlanTypes /\ ControlTypes /\ HistoryTypes

(* What execute() reports as completed is there, or gone, as a whole: the  *)
(* helper is the one whose digest the plan names, whatever became of the   *)
(* source path between the check and the copy (execute_install, 653-716;   *)
(* execute_uninstall, 718-763).                                            *)
CompletedMeansDone ==
    pc = "idle" /\ result = "completed" =>
        IF plan = InstallOrder
        THEN /\ helper = [data |-> expected, set |-> TRUE]
             /\ plist = [data |-> "whole", set |-> TRUE]
             /\ loaded
        ELSE Nothing

(* An install on an empty machine that fails and reports its rollback as   *)
(* complete leaves only what an ignored error left: a file whose removal   *)
(* failed or was skipped, a job launchctl loaded and reported as failed    *)
(* (rollback_install, 765-826; remove_partial_file, 1521-1523).            *)
FailureAccounted ==
    pc = "idle" /\ result = "failed" /\ clean =>
        /\ helper # Absent => "helper" \in slips
        /\ plist # Absent => "plist" \in slips
        /\ loaded => slips \cap {"plist", "job"} # {}

(* A loaded job has its definition and a whole helper to run, however far  *)
(* plans got, were killed or met a restart: the order of both plans and of *)
(* the rollback is what ensures it. Two things void it: writing over a     *)
(* helper whose job is defined or loaded, and an ignored error about the   *)
(* definition or the job.                                                  *)
JobBacked ==
    loaded /\ ~over /\ slips \cap {"plist", "job"} = {} =>
        plist.data = "whole" /\ helper.data \in Contents
=============================================================================
