---------------------------- MODULE RuntimeRight ----------------------------
(***************************************************************************)
(* The helper's runtime right in the authorization database: how an entry  *)
(* is read (macos_runtime_right.rs, helper_runtime_right.rs) and how it is *)
(* installed, removed and compensated for when a readback fails            *)
(* (helper_runtime_right_execution.rs).                                    *)
(*                                                                         *)
(* The adapter behind the executor and the database are external, as the   *)
(* executor's trait states them: an inspection is a snapshot, an error may *)
(* come after the effect, other writers are not excluded, and what the     *)
(* database stores for a written definition may carry fields of its own.   *)
(* The process may die between any two calls.                              *)
(***************************************************************************)

VARIABLES
    policy,   \* the entry under the right's name
    writer,   \* who wrote the entry: the current or last "call", or an "other"
    pc,       \* the adapter call that comes next, or "idle"
    call,     \* "install" or "uninstall": the current or last call
    result,   \* what the last call reported
    others    \* history: when another writer last was at the entry: "never" in
              \* the current or last call, "before" or "after" its last inspection

executorVars == <<policy, writer, pc, call, result, others>>

\* The one rule this project writes; the same with more fields; another rule;
\* anything else a property list can be.
Entries == {"absent", "rule", "rule_and_fields", "other_rule", "odd"}

\* Mutant: a definition with more fields than the rule passes for the project's own.
Classified_Lenient == [entry \in Entries |->
                CASE entry = "absent"     -> "absent"
                  [] entry = "other_rule" -> "conflicting"
                  [] entry = "odd"        -> "unrecognized"
                  [] OTHER                -> "exact_owned"]

(* classify_response and classify_definition: only a dictionary with the    *)
(* one key "rule" is looked into, whatever else it says is not recognized.  *)
Classified == [entry \in Entries |->
                CASE entry = "absent"     -> "absent"
                  [] entry = "rule"       -> "exact_owned"
                  [] entry = "other_rule" -> "conflicting"
                  [] OTHER                -> "unrecognized"]

PlanInstall == [absent       |-> "create",
                exact_owned  |-> "already_owned",
                conflicting  |-> "conflict",
                unrecognized |-> "conflict"]

\* Mutant: an entry in a form that is not recognized is removed all the same.
PlanUninstall_Any == [absent       |-> "already_absent",
                      exact_owned  |-> "remove",
                      conflicting  |-> "preserve",
                      unrecognized |-> "remove"]

PlanUninstall == [absent       |-> "already_absent",
                  exact_owned  |-> "remove",
                  conflicting  |-> "preserve",
                  unrecognized |-> "preserve"]

Outcomes == {"installed", "already_owned", "uninstalled", "already_absent"}

Failures == {"inspection_failed", "conflicting_definition", "create_failed",
             "create_verification_failed", "remove_failed",
             "remove_verification_failed"}

Cleanups == {"not_attempted", "create_effects_unknown", "already_absent", "removed",
             "preserved_conflict", "inspection_failed", "removal_failed",
             "verification_failed", "still_present"}

\* A success has nothing to clean up.
NoResult == [outcome |-> "none", cleanup |-> "none"]

ExecutorInit ==
    /\ policy \in Entries /\ writer = "other"
    /\ pc = "idle" /\ call = "install" /\ result = NoResult
    /\ others = "never"

Begin ==
    /\ pc = "idle"
    /\ call' \in {"install", "uninstall"}
    /\ pc' = "inspect" /\ result' = NoResult
    /\ writer' = "other" /\ others' = "never"
    /\ UNCHANGED policy

GoOn(next) == pc' = next /\ UNCHANGED result

Done(outcome) ==
    pc' = "idle" /\ result' = [outcome |-> outcome, cleanup |-> "none"]

Failed(primary, cleanup) ==
    pc' = "idle" /\ result' = [outcome |-> primary, cleanup |-> cleanup]

-----------------------------------------------------------------------------
(* The adapter's calls.                                                     *)

\* An inspection that answers with what the entry is now.
Inspected(observation) ==
    /\ observation = Classified[policy]
    /\ others' = IF others = "after" THEN "before" ELSE others
    /\ UNCHANGED <<policy, writer, call>>

InspectionFailed == UNCHANGED <<policy, writer, call, others>>

\* create_owned writes the rule, which the database may store with fields of its own.
CreateHasEffect ==
    /\ policy' \in {"rule", "rule_and_fields"} /\ writer' = "call"
    /\ UNCHANGED <<call, others>>

RemoveHasEffect ==
    /\ policy' = "absent" /\ writer' = "other"
    /\ UNCHANGED <<call, others>>

NoEffect == UNCHANGED <<policy, writer, call, others>>

-----------------------------------------------------------------------------
(* install_helper_runtime_right                                             *)

InspectForInstall ==
    /\ pc = "inspect" /\ call = "install"
    /\ \/ InspectionFailed /\ Failed("inspection_failed", "not_attempted")
       \/ \E observation \in DOMAIN PlanInstall :
            /\ Inspected(observation)
            /\ CASE PlanInstall[observation] = "create"        -> GoOn("create")
                 [] PlanInstall[observation] = "already_owned" -> Done("already_owned")
                 [] OTHER -> Failed("conflicting_definition", "not_attempted")

\* Mutant: a failed create reports that there is nothing to clean up, as the other
\* failures of a call do.
Create_NotAttempted ==
    /\ pc = "create"
    /\ \/ CreateHasEffect /\ GoOn("verify_create")
       \/ (CreateHasEffect \/ NoEffect) /\ Failed("create_failed", "not_attempted")

Create ==
    /\ pc = "create"
    /\ \/ CreateHasEffect /\ GoOn("verify_create")
       \/ (CreateHasEffect \/ NoEffect)
            /\ Failed("create_failed", "create_effects_unknown")

VerifyCreate ==
    /\ pc = "verify_create"
    /\ \/ InspectionFailed /\ GoOn("inspect_created")
       \/ \E observation \in DOMAIN PlanInstall :
            /\ Inspected(observation)
            /\ IF PlanInstall[observation] = "already_owned"
               THEN Done("installed")
               ELSE GoOn("inspect_created")

-----------------------------------------------------------------------------
(* compensate_created_right                                                 *)

CreatedFailed(cleanup) == Failed("create_verification_failed", cleanup)

InspectCreated ==
    /\ pc = "inspect_created"
    /\ \/ InspectionFailed /\ CreatedFailed("inspection_failed")
       \/ \E observation \in DOMAIN PlanUninstall :
            /\ Inspected(observation)
            /\ CASE PlanUninstall[observation] = "already_absent" ->
                        CreatedFailed("already_absent")
                 [] PlanUninstall[observation] = "preserve" ->
                        CreatedFailed("preserved_conflict")
                 [] OTHER -> GoOn("remove_created")

RemoveCreated ==
    /\ pc = "remove_created"
    /\ \/ RemoveHasEffect /\ GoOn("verify_removal")
       \/ (RemoveHasEffect \/ NoEffect) /\ CreatedFailed("removal_failed")

VerifyRemoval ==
    /\ pc = "verify_removal"
    /\ \/ InspectionFailed /\ CreatedFailed("verification_failed")
       \/ \E observation \in DOMAIN PlanUninstall :
            /\ Inspected(observation)
            /\ CreatedFailed(IF PlanUninstall[observation] = "already_absent"
                             THEN "removed" ELSE "still_present")

-----------------------------------------------------------------------------
(* uninstall_helper_runtime_right                                           *)

InspectForUninstall ==
    /\ pc = "inspect" /\ call = "uninstall"
    /\ \/ InspectionFailed /\ Failed("inspection_failed", "not_attempted")
       \/ \E observation \in DOMAIN PlanUninstall :
            /\ Inspected(observation)
            /\ CASE PlanUninstall[observation] = "already_absent" -> Done("already_absent")
                 [] PlanUninstall[observation] = "preserve" ->
                        Failed("conflicting_definition", "not_attempted")
                 [] OTHER -> GoOn("remove")

Remove ==
    /\ pc = "remove"
    /\ \/ RemoveHasEffect /\ GoOn("verify_remove")
       \/ (RemoveHasEffect \/ NoEffect) /\ Failed("remove_failed", "not_attempted")

VerifyRemove ==
    /\ pc = "verify_remove"
    /\ \/ InspectionFailed /\ Failed("remove_verification_failed", "not_attempted")
       \/ \E observation \in DOMAIN PlanUninstall :
            /\ Inspected(observation)
            /\ IF PlanUninstall[observation] = "already_absent"
               THEN Done("uninstalled")
               ELSE Failed("remove_verification_failed", "not_attempted")

-----------------------------------------------------------------------------
(* The environment.                                                         *)

AnotherWriter ==
    /\ policy' \in Entries /\ writer' = "other" /\ others' = "after"
    /\ UNCHANGED <<pc, call, result>>

ExecutorKilled ==
    /\ pc # "idle" /\ pc' = "idle" /\ result' = NoResult
    /\ UNCHANGED <<policy, writer, call, others>>

ExecutorNext ==
    \/ Begin
    \/ InspectForInstall \/ Create \/ VerifyCreate
    \/ InspectCreated \/ RemoveCreated \/ VerifyRemoval
    \/ InspectForUninstall \/ Remove \/ VerifyRemove
    \/ AnotherWriter \/ ExecutorKilled

ExecutorSpec == ExecutorInit /\ [][ExecutorNext]_executorVars

-----------------------------------------------------------------------------
Installing == {"create", "verify_create", "inspect_created", "remove_created",
               "verify_removal"}
Uninstalling == {"remove", "verify_remove"}

Results == [outcome : Outcomes \cup Failures \cup {"none"},
            cleanup : Cleanups \cup {"none"}]

(* Every variable has its type; an install is at the calls of an install,   *)
(* and an entry that is absent was not written by the call.                 *)
ExecutorTypeOK ==
    /\ policy \in Entries /\ writer \in {"call", "other"}
    /\ pc \in {"idle", "inspect"} \cup Installing \cup Uninstalling
    /\ call \in {"install", "uninstall"} /\ result \in Results
    /\ others \in {"never", "before", "after"}
    /\ pc \in Installing => call = "install"
    /\ pc \in Uninstalling => call = "uninstall"
    /\ writer = "call" => policy # "absent"

(* What install and uninstall report is what is there, for as long as nobody *)
(* else writes: an installed right is the exact one, an uninstalled one is   *)
(* gone, and a cleanup says what became of the entry.                        *)
ReportHolds ==
    others # "after" =>
        /\ result.outcome \in {"installed", "already_owned"} => policy = "rule"
        /\ result.outcome \in {"uninstalled", "already_absent"} => policy = "absent"
        /\ result.cleanup \in {"removed", "already_absent"} => policy = "absent"
        /\ result.cleanup = "still_present" => policy # "absent"
        /\ result.cleanup = "preserved_conflict" =>
               Classified[policy] \in {"conflicting", "unrecognized"}

(* An entry that a failed install wrote and that is still there is one its  *)
(* cleanup does not call settled: nobody who reads the error and finds no   *)
(* open question leaves a right behind.                                     *)
LeftoverReported ==
    writer = "call" => result.cleanup \notin {"not_attempted", "already_absent", "removed"}

(* Install overwrites or removes an entry that it did not write only when  *)
(* another writer came in since the call began, and nothing but the exact   *)
(* definition is removed unless another writer came in since the last look: *)
(* a conflicting or unrecognized policy is preserved, this executor's own   *)
(* one in the form the database gave it included.                           *)
OthersSpared ==
    [][policy' # policy /\ policy # "absent" =>
         /\ call = "install" /\ writer = "other" => others' # "never"
         /\ policy' = "absent" /\ policy # "rule" => others' = "after"]_executorVars
=============================================================================
