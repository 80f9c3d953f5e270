------------------------- MODULE EndpointRevocation -------------------------
(***************************************************************************)
(* Revocation of an old endpoint grant (endpoint_revocation.rs) with its   *)
(* containment and the bounded diagnostics buffer behind                   *)
(* execute_revocation_with_diagnostics (revocation_diagnostics.rs).        *)
(*                                                                         *)
(* The core drives an adapter, which is not in the repository: every call  *)
(* may fail, before or after its effect, report success without one, or    *)
(* panic.  The machine changes on its own between any two calls.  Of the   *)
(* adapter only its documented obligations are assumed: an observation is  *)
(* the truth or Unknown, and a mutation checks binding and deny (a         *)
(* teardown: the owner) at its own boundary.  Diagnostics are abstracted   *)
(* to their number since the buffer was last cleared.                      *)
(***************************************************************************)
EXTENDS Naturals, Sequences

CONSTANTS
  Capacity,     \* capacity of the diagnostics buffer
  MaxDropped,   \* u64::MAX of dropped_records
  MaxFailures,  \* bound: failed operations between two clears
  MaxChanges    \* bound: changes of the machine on its own during one operation

ASSUME BufferAssumption ==
  /\ Capacity \in Nat \ {0} /\ MaxDropped \in Nat /\ MaxFailures \in Nat
  /\ MaxChanges \in Nat

\* What the old grant consists of, and what else its connection owns.
Tuple == {"transport", "exception", "established"}
Owned == Tuple \cup {"engine"}

\* The machine: the presence of each resource, the deny policy, whether the
\* network context is still the scope's, whether the connection is still ours.
Worlds == [Owned -> BOOLEAN] \X [deny : BOOLEAN, context : BOOLEAN, owner : BOOLEAN]

Inspections == {"InitialInspection", "PreStopInspection", "TransportInspection",
                "ExceptionInspection", "FinalInspection"}

\* The order of the steps of run().
Program == <<"InitialInspection", "RecordIntent", "PreStopInspection",
             "StopTransport", "TransportInspection", "RemoveException",
             "ExceptionInspection", "ClearEstablished", "FinalInspection",
             "RecordObservation", "Observed">>
Stages == {Program[i] : i \in 1..Len(Program)} \ {"Observed"}
Following(stage) ==
  Program[1 + CHOOSE i \in 1..Len(Program) : Program[i] = stage]

Causes == {"AdapterFailed", "ContextChanged", "DenyUnproven", "UnknownState",
           "RevocationUnproven"}
\* RecoveryUnknown(cause) is named by its cause.
ContainmentCauses == {"Teardown", "Inspection", "WrongOwner", "DenyUnproven",
                      "UnknownState", "ResidualState"}
Verdicts == {"none", "Observed", "AssessDeny", "AssessState", "TeardownObserved"}
              \cup ContainmentCauses

VARIABLES
  present,            \* [Owned -> BOOLEAN]: what is on the machine
  facts,              \* deny policy, context and owner
  changes,            \* of the machine on its own, in this operation
  journal,            \* the durable intent: "none", "partial" or "complete"
  touched,            \* history: this operation has changed the machine
  snapshot,           \* history: the machine at the last inspection
  pc,                 \* the stage, or where containment and recording stand
  journal_may_exist, mutation_attempted,
  cause,              \* of the primary failure
  verdict,            \* what the caller is told
  records, dropped,   \* RevocationDiagnosticBuffer
  failed, reported    \* history: failures, and recording errors, since clear()

machine == <<present, facts, changes>>
flags == <<journal_may_exist, mutation_attempted>>
buffer == <<records, dropped, failed, reported>>
vars == <<machine, journal, touched, snapshot, pc, flags, cause, verdict, buffer>>

Granted == [r \in Owned |-> TRUE]
Sound == [deny |-> TRUE, context |-> TRUE, owner |-> TRUE]

Init ==
  /\ present = Granted /\ facts = Sound /\ changes = 0
  /\ journal = "none" /\ touched = FALSE /\ snapshot = <<present, facts>>
  /\ pc = "idle"
  /\ journal_may_exist = FALSE /\ mutation_attempted = FALSE
  /\ cause = "none" /\ verdict = "none"
  /\ records = <<>> /\ dropped = 0 /\ failed = 0 /\ reported = 0

\* EndpointRevocation::new and execute, which consumes the operation, for a
\* grant that is in force.
Execute ==
  /\ pc = "idle"
  /\ failed < MaxFailures
  /\ present' = Granted /\ facts' = Sound /\ changes' = 0
  /\ journal' = "none" /\ touched' = FALSE /\ snapshot' = <<Granted, Sound>>
  /\ pc' = "InitialInspection"
  /\ journal_may_exist' = FALSE /\ mutation_attempted' = FALSE
  /\ cause' = "none" /\ verdict' = "none"
  /\ UNCHANGED buffer

\* The machine changes on its own: a resource comes or goes, the deny policy is
\* switched, the network or the owning connection is another one.
Environment ==
  /\ pc # "idle"
  /\ changes < MaxChanges /\ changes' = changes + 1
  /\ \/ \E r \in Owned : present' = [present EXCEPT ![r] = ~@] /\ UNCHANGED facts
     \/ \E f \in DOMAIN facts : facts' = [facts EXCEPT ![f] = ~@] /\ UNCHANGED present
  /\ UNCHANGED <<journal, touched, snapshot, pc, flags, cause, verdict, buffer>>

-----------------------------------------------------------------------------
\* Mutant: a failure is only reported.
AfterFailure_Reported == "Record"

\* Failure of a stage: execute() contains it after the first mutation, and asks
\* for an assessment before.
AfterFailure == IF mutation_attempted' THEN "Teardown" ELSE "Record"

PreMutation(why) == IF why = "DenyUnproven" THEN "AssessDeny" ELSE "AssessState"

Fail(why) ==
  /\ cause' = why
  /\ pc' = AfterFailure
  /\ verdict' = IF mutation_attempted' THEN "none" ELSE PreMutation(why)

Proceed ==
  /\ pc' = Following(pc)
  /\ UNCHANGED <<cause, verdict>>

-----------------------------------------------------------------------------
\* Inspections.

\* Mutant: each inspection looks only at the resource of its own step.
RequiredAbsent_Last(stage) ==
  CASE stage = "TransportInspection" -> {"transport"}
    [] stage = "ExceptionInspection" -> {"exception"}
    [] stage = "FinalInspection"     -> {"established"}
    [] OTHER                         -> {}

\* What an inspection must see absent: everything revoked so far.
RequiredAbsent(stage) ==
  CASE stage = "TransportInspection" -> {"transport"}
    [] stage = "ExceptionInspection" -> {"transport", "exception"}
    [] stage = "FinalInspection"     -> Tuple
    [] OTHER                         -> {}

\* Mutant: unknown resources are reported before a missing deny policy.
Cause_UnknownFirst(stage, unknown, denyKnown) ==
  CASE ~facts.context -> "ContextChanged"
    [] facts.context /\ unknown # {} -> "UnknownState"
    [] facts.context /\ unknown = {} /\ ~(facts.deny /\ denyKnown) -> "DenyUnproven"
    [] OTHER -> IF \E r \in RequiredAbsent(stage) : present[r]
                THEN "RevocationUnproven" ELSE "none"

\* The first reason, in the code's order, for which an observation is refused;
\* "unknown" are the resources the adapter could not tell.
Cause(stage, unknown, denyKnown) ==
  CASE ~facts.context -> "ContextChanged"
    [] facts.context /\ ~(facts.deny /\ denyKnown) -> "DenyUnproven"
    [] facts.context /\ facts.deny /\ denyKnown /\ unknown # {} -> "UnknownState"
    [] OTHER -> IF \E r \in RequiredAbsent(stage) : present[r]
                THEN "RevocationUnproven" ELSE "none"

Inspect ==
  /\ pc \in Inspections
  /\ UNCHANGED flags
  /\ \/ Fail("AdapterFailed") /\ UNCHANGED snapshot
     \/ \E unknown \in SUBSET Tuple, denyKnown \in BOOLEAN :
          LET why == Cause(pc, unknown, denyKnown)
          IN  /\ IF why = "none" THEN Proceed ELSE Fail(why)
              /\ snapshot' = <<present, facts>>
  /\ UNCHANGED <<machine, journal, touched, buffer>>

-----------------------------------------------------------------------------
\* Adapter calls with effects.

\* Mutant: a failure to record the intent is not an obstacle.
RecordIntent_BestEffort ==
  /\ pc = "RecordIntent"
  /\ journal_may_exist' = TRUE /\ UNCHANGED mutation_attempted
  /\ journal' \in {"none", "partial", "complete"} /\ Proceed
  /\ UNCHANGED <<machine, touched, snapshot, buffer>>

\* The intent is durable when the call succeeds; a failure may leave part of it.
RecordIntent ==
  /\ pc = "RecordIntent"
  /\ journal_may_exist' = TRUE /\ UNCHANGED mutation_attempted
  /\ \/ journal' = "complete" /\ Proceed
     \/ journal' \in {"none", "partial", "complete"} /\ Fail("AdapterFailed")
  /\ UNCHANGED <<machine, touched, snapshot, buffer>>

\* A mutation removes its resource, or not, whatever it returns; outside its
\* scope or without deny it refuses.
Remove(resource) ==
  /\ \/ /\ facts.context /\ facts.deny
        /\ present' = [present EXCEPT ![resource] = FALSE]
        /\ touched' = TRUE
        /\ Proceed \/ Fail("AdapterFailed")
     \/ /\ UNCHANGED <<present, touched>>
        /\ (facts.context /\ facts.deny /\ Proceed) \/ Fail("AdapterFailed")
  /\ UNCHANGED <<facts, changes, journal, journal_may_exist, snapshot, buffer>>

StopTransport ==
  /\ pc = "StopTransport"
  /\ mutation_attempted' = TRUE
  /\ Remove("transport")

RemoveException ==
  /\ pc = "RemoveException"
  /\ UNCHANGED mutation_attempted
  /\ Remove("exception")

ClearEstablished ==
  /\ pc = "ClearEstablished"
  /\ UNCHANGED mutation_attempted
  /\ Remove("established")

\* record_observed_revocation; its success ends the operation as Observed.
RecordObservation ==
  /\ pc = "RecordObservation"
  /\ UNCHANGED flags
  /\ \/ pc' = "idle" /\ verdict' = "Observed" /\ UNCHANGED cause
     \/ Fail("AdapterFailed")
  /\ UNCHANGED <<machine, journal, touched, snapshot, buffer>>

-----------------------------------------------------------------------------
\* Containment.

Conclude(outcome) == pc' = "Record" /\ verdict' = outcome

\* teardown_connection removes what it can of a connection that is still ours.
Teardown ==
  /\ pc = "Teardown"
  /\ \E gone \in SUBSET Owned :
       /\ facts.owner \/ gone = {}
       /\ present' = [r \in Owned |-> present[r] /\ r \notin gone]
       /\ touched' = (touched \/ gone # {})
  /\ \/ pc' = "TeardownInspection" /\ UNCHANGED verdict
     \/ Conclude("Teardown")
  /\ UNCHANGED <<facts, changes, journal, snapshot, flags, cause, buffer>>

\* contain(): the verdict on an observation after the teardown, in the code's order.
Contained(unknown, denyKnown) ==
  CASE ~facts.owner -> "WrongOwner"
    [] facts.owner /\ ~(facts.deny /\ denyKnown) -> "DenyUnproven"
    [] facts.owner /\ facts.deny /\ denyKnown /\ unknown # {} ->
         "UnknownState"
    [] OTHER -> IF \E r \in Owned : present[r]
                THEN "ResidualState" ELSE "TeardownObserved"

TeardownInspection ==
  /\ pc = "TeardownInspection"
  /\ \/ Conclude("Inspection") /\ UNCHANGED snapshot
     \/ \E unknown \in SUBSET Owned, denyKnown \in BOOLEAN :
          Conclude(Contained(unknown, denyKnown)) /\ snapshot' = <<present, facts>>
  /\ UNCHANGED <<machine, journal, touched, flags, cause, buffer>>

-----------------------------------------------------------------------------
\* Diagnostics.

\* Mutant: the oldest record is evicted before the counter is checked.
Record_EvictFirst ==
  /\ pc = "Record"
  /\ failed' = failed + 1
  /\ LET full == Len(records) = Capacity
         kept == IF full THEN Tail(records) ELSE records
     IN  IF full /\ dropped = MaxDropped
         THEN reported' = reported + 1 /\ records' = kept /\ UNCHANGED dropped
         ELSE /\ records' = Append(kept, failed')
              /\ dropped' = dropped + (IF full THEN 1 ELSE 0)
              /\ UNCHANGED reported
  /\ pc' = "idle"
  /\ UNCHANGED <<machine, journal, touched, snapshot, flags, cause, verdict>>

\* RevocationDiagnosticBuffer::record: the counter is checked before eviction.
Record ==
  /\ pc = "Record"
  /\ failed' = failed + 1
  /\ LET full == Len(records) = Capacity
     IN  IF full /\ dropped = MaxDropped
         THEN reported' = reported + 1 /\ UNCHANGED <<records, dropped>>
         ELSE /\ records' = Append(IF full THEN Tail(records) ELSE records, failed')
              /\ dropped' = dropped + (IF full THEN 1 ELSE 0)
              /\ UNCHANGED reported
  /\ pc' = "idle"
  /\ UNCHANGED <<machine, journal, touched, snapshot, flags, cause, verdict>>

\* RevocationDiagnosticBuffer::clear.
Clear ==
  /\ pc = "idle" /\ failed > 0
  /\ records' = <<>> /\ dropped' = 0 /\ failed' = 0 /\ reported' = 0
  /\ UNCHANGED <<machine, journal, touched, snapshot, pc, flags, cause, verdict>>

\* A callback panics: nothing is contained, recorded or reused.
Panic ==
  /\ pc \notin {"idle", "Record"}
  /\ pc' = "idle"
  /\ UNCHANGED <<machine, journal, touched, snapshot, flags, cause, verdict, buffer>>

Run == Inspect \/ RecordIntent \/ StopTransport \/ RemoveException
       \/ ClearEstablished \/ RecordObservation

Next ==
  \/ Execute \/ Run
  \/ Teardown \/ TeardownInspection
  \/ Record \/ Clear
  \/ Environment \/ Panic

Spec == Init /\ [][Next]_vars

-----------------------------------------------------------------------------
\* Properties.

\* The variables have their shapes and the buffer keeps to its capacity.
TypeOK ==
  /\ changes \in 0..MaxChanges
  /\ <<present, facts>> \in Worlds /\ snapshot \in Worlds
  /\ journal \in {"none", "partial", "complete"}
  /\ touched \in BOOLEAN
  /\ journal_may_exist \in BOOLEAN /\ mutation_attempted \in BOOLEAN
  /\ pc \in Stages \cup {"idle", "Teardown", "TeardownInspection", "Record"}
  /\ cause \in Causes \cup {"none"} /\ verdict \in Verdicts
  /\ records \in Seq(Nat) /\ Len(records) <= Capacity
  /\ dropped \in 0..MaxDropped /\ failed \in Nat /\ reported \in Nat

Gone(resources, seen) == \A r \in resources : ~seen[1][r]

\* A revocation reported as observed was true of one moment: the whole old tuple
\* gone, under an active deny policy, in the scope's context.  A teardown
\* reported as observed was true of everything the connection owned.
VerdictTruthful ==
  /\ verdict = "Observed" =>
       Gone(Tuple, snapshot) /\ snapshot[2].deny /\ snapshot[2].context
  /\ verdict = "TeardownObserved" =>
       Gone(Owned, snapshot) /\ snapshot[2].deny /\ snapshot[2].owner

\* Nothing on the machine is changed before the intent is durable, also when an
\* adapter fails half way or panics.
IntentBeforeMutation == touched => journal = "complete"

\* A failure never under-reports: "no mutation" means the machine was left alone
\* and "no journal" means there is none.
FlagsTruthful ==
  /\ touched => mutation_attempted
  /\ journal # "none" => journal_may_exist

\* A failure that is returned after the machine was touched has been answered by
\* a teardown; one returned before asks for an assessment instead.
ContainedOnceTouched ==
  pc = "Record" =>
    IF touched THEN verdict \in ContainmentCauses \cup {"TeardownObserved"}
               ELSE verdict # "none"

\* A deny policy that was seen missing in the scope's context is never hidden
\* behind the unspecific verdict.
DenyNotMasked ==
  verdict = "AssessState" /\ cause # "AdapterFailed" =>
    snapshot[2].deny \/ ~snapshot[2].context

\* Every failure since the last clear is retained, counted as dropped, or was
\* reported as not recorded; what is retained are the latest, in order.
Accounted ==
  /\ failed = Len(records) + dropped + reported
  /\ \A i \in 1..Len(records) : records[i] = dropped + i
=============================================================================
