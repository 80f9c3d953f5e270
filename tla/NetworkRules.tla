----------------------------- MODULE NetworkRules ---------------------------
(***************************************************************************)
(* The rules a network transaction is admitted, journalled and undone by:  *)
(* network_state.rs, and the records of recovery_journal.rs.  A state is   *)
(* checked when it is admitted, each time it is written and when a         *)
(* recovery reads it; what is checked here is that the three agree along   *)
(* an execution (network_executor.rs) of any admitted plan.                *)
(*                                                                         *)
(* An identifier, a network and a domain stand for themselves or for one   *)
(* of the ways to be malformed.  DNS servers and domains are counted.  A    *)
(* number that may be missing is a sequence of at most one.                *)
(***************************************************************************)
EXTENDS Naturals, FiniteSets, Sequences, Functions

CONSTANTS MAX_NETWORK_COLLECTION_ITEMS, MAX_DNS_SERVERS, MAX_DOMAIN_ITEMS

Absent == "absent"
NoInverse == [type |-> Absent]
Statuses == {"Planned", "Applying", "Applied", "Failed", "RolledBack"}
Phases == {"Planned", "Applied", "Failed", "RollingBack", "RolledBack"}

-----------------------------------------------------------------------------
(* Values                                                                  *)

\* Empty, over 128 bytes, or with a blank or a control character; a domain's
\* text is held to the same.
Malformed == {"", "oversized", "a b"}
validate_id(v) == v \notin Malformed
validate_optional_id(v) == v = Absent \/ validate_id(v)

\* An address is four or six; the network is the address with a prefix.
NetworkValid(network) == network.prefix <= (IF network.family = "ipv4" THEN 32 ELSE 128)

CollectionValid(items) == Len(items) <= MAX_NETWORK_COLLECTION_ITEMS

DnsValid(dns) ==
  /\ dns.servers <= MAX_DNS_SERVERS /\ dns.search <= MAX_DOMAIN_ITEMS
  /\ dns.match <= MAX_DOMAIN_ITEMS /\ \A d \in dns.domains : validate_id(d)

OwnerValid(owner) == validate_id(owner.component) /\ validate_id(owner.correlation_id)
Unique(keys) == \A i, j \in DOMAIN keys : keys[i] = keys[j] => i = j

InterfaceValid(interface) ==
  /\ validate_id(interface.name) /\ interface.mtu # <<0>>
  /\ CollectionValid(interface.addresses)
  /\ \A n \in Range(interface.addresses) : NetworkValid(n)

SnapshotValid(snapshot) ==
  /\ validate_id(snapshot.snapshot_id) /\ OwnerValid(snapshot.owner)
  /\ CollectionValid(snapshot.interfaces) /\ CollectionValid(snapshot.routes)
  /\ Unique([i \in DOMAIN snapshot.interfaces |-> snapshot.interfaces[i].name])
  /\ Unique(snapshot.routes)
  /\ \A i \in Range(snapshot.interfaces) : InterfaceValid(i)
  /\ \A r \in Range(snapshot.routes) : NetworkValid(r.destination) /\ validate_optional_id(r.interface)
  /\ DnsValid(snapshot.dns) /\ validate_optional_id(snapshot.policy_id)

-----------------------------------------------------------------------------
(* Operations.  Each kind is a record with its type and its payload.       *)

Routes == {"AddRoute", "RemoveRoute"}
EndpointRoutes == {"PreserveEndpointRoute", "RemoveEndpointRoute"}
InterfaceAddresses == {"SetInterfaceAddress", "RemoveInterfaceAddress"}
InterfaceMtus == {"SetMtu", "ResetMtu"}
Firewalls == {"ApplyFirewallPolicy", "RestoreFirewallSnapshot"}

KindValid(kind) ==
  /\ kind.type \in Routes => NetworkValid(kind.destination)
  /\ kind.type \in Routes \union {"PreserveEndpointRoute"} => validate_optional_id(kind.interface)
  /\ kind.type \in InterfaceAddresses \union InterfaceMtus => validate_id(kind.interface)
  /\ kind.type \in InterfaceAddresses => NetworkValid(kind.address)
  /\ kind.type = "SetMtu" => kind.mtu # 0
  /\ kind.type = "SetDns" => DnsValid(kind.dns)
  /\ kind.type = "ApplyFirewallPolicy" => validate_id(kind.policy_id)
  /\ kind.type = "RestoreFirewallSnapshot" => validate_optional_id(kind.policy_id)

idempotency_scope(kind) ==
  CASE kind.type \in EndpointRoutes -> <<"EndpointRoute", kind.endpoint>>
    [] kind.type \in Routes -> <<"Route", kind.destination>>
    [] kind.type \in InterfaceAddresses -> <<"InterfaceAddress", kind.interface>>
    [] kind.type \in InterfaceMtus -> <<"InterfaceMtu", kind.interface>>
    [] kind.type = "SetDns" -> <<"Dns">>
    [] kind.type \in Firewalls -> <<"Firewall">>

retry_effect_against(kind, previous) ==
  IF kind = previous THEN "IdempotentRepeat"
  ELSE IF idempotency_scope(kind) = idempotency_scope(previous)
  THEN "ConflictingMutation" ELSE "IndependentMutation"

\* The statuses of an operation whose effect may be in force.
PossiblyApplied == {"Applying", "Applied", "Failed"}

\* (mutated: what may be applied need not have an inverse)
RollbackValid_Optional(rollback, status) ==
  /\ rollback.required <=> rollback.inverse # NoInverse
  /\ rollback.inverse # NoInverse => KindValid(rollback.inverse)

RollbackValid(rollback, status) ==
  /\ rollback.required <=> rollback.inverse # NoInverse
  /\ status \in PossiblyApplied => rollback.required
  /\ rollback.inverse # NoInverse => KindValid(rollback.inverse)

OperationValid(operation) ==
  /\ validate_id(operation.key) /\ KindValid(operation.kind)
  /\ operation.rollback.required \/ operation.status # "Planned" => operation.apply_order # <<>>
  /\ RollbackValid(operation.rollback, operation.status)

-----------------------------------------------------------------------------
(* States of a transaction                                                 *)

PhaseValid(state) ==
  LET all(status) == \A o \in Range(state.operations) : o.status = status
      some(statuses) == \E o \in Range(state.operations) : o.status \in statuses
  IN CASE state.phase = "Planned" -> all("Planned") /\ state.last_error = Absent
       [] state.phase = "Applied" ->
            state.operations # <<>> /\ all("Applied") /\ state.last_error = Absent
       [] state.phase = "Failed" ->
            /\ state.last_error # Absent /\ validate_id(state.last_error)
            /\ some({"Failed", "RolledBack"})
       [] state.phase = "RollingBack" -> \E o \in Range(state.operations) : o.rollback.required
       [] state.phase = "RolledBack" -> all("RolledBack")

validate(state) ==
  LET Order(i) == state.operations[i].apply_order IN
  /\ validate_id(state.transaction_id) /\ validate_id(state.snapshot_id) /\ OwnerValid(state.owner)
  /\ CollectionValid(state.operations)
  /\ \A o \in Range(state.operations) : OperationValid(o)
  /\ Unique([i \in DOMAIN state.operations |-> state.operations[i].key])
  /\ \A i, j \in DOMAIN state.operations : Order(i) # <<>> /\ Order(i) = Order(j) => i = j
  /\ PhaseValid(state)

Engages(o) == o.kind.type = "ApplyFirewallPolicy" /\ o.kind.kill_switch_enabled
RoutesOrDns(o) == o.kind.type \in {"AddRoute", "SetDns"}

\* A plan that engages the kill switch has one firewall operation, and none of
\* its routes and DNS changes comes before it.
validate_for_execution(plan) ==
  LET operations == Range(plan.operations) IN
  /\ validate(plan) /\ plan.phase = "Planned"
  /\ \A o \in operations : o.apply_order # <<>>
  /\ \A f \in operations : Engages(f) =>
       /\ {o \in operations : o.kind.type \in Firewalls} = {f}
       /\ \A o \in operations : RoutesOrDns(o) => o.apply_order[1] >= f.apply_order[1]

RollbackStep(o) ==
  [apply_order |-> o.apply_order[1], operation_key |-> o.key, inverse |-> o.rollback.inverse]

\* In reverse apply order; the code's errors for an invalid state and for a
\* missing order or inverse.
rollback_steps_reverse_order(state) ==
  LET undone == {o \in Range(state.operations) :
                   o.status \in PossiblyApplied /\ o.rollback.required}
      Place(o) == Cardinality({p \in undone : p.apply_order[1] >= o.apply_order[1]})
  IN IF ~validate(state)
        \/ \E o \in undone : o.apply_order = <<>> \/ o.rollback.inverse = NoInverse
     THEN [ok |-> FALSE]
     ELSE [ok |-> TRUE,
           steps |-> [i \in 1..Cardinality(undone) |->
                        RollbackStep(CHOOSE o \in undone : Place(o) = i)]]

-----------------------------------------------------------------------------
(* Records.  A journal and an applied record differ in the phase they take.*)

\* A file name is narrower than an identifier: letters, digits, "-" and "_".
validate_journal_file_component(v) == v \notin Malformed \union {"a.b"}

RecordValid(record, phases) ==
  LET state == record.applied_state  snapshot == record.snapshot IN
  /\ record.schema_version = 1
  /\ validate_journal_file_component(record.id)
  /\ SnapshotValid(snapshot) /\ validate(state)
  /\ record.id = state.transaction_id /\ snapshot.snapshot_id = state.snapshot_id
  /\ snapshot.platform = state.platform /\ snapshot.owner = state.owner
  /\ state.phase \in phases /\ rollback_steps_reverse_order(state).ok

NewRecord(snapshot, state) ==
  [schema_version |-> 1, id |-> state.transaction_id, snapshot |-> snapshot,
   applied_state |-> state]
Journalled(snapshot, state) == RecordValid(NewRecord(snapshot, state), Phases \ {"Planned"})
Recorded(snapshot, state) == RecordValid(NewRecord(snapshot, state), {"Applied"})

-----------------------------------------------------------------------------
(* The execution of a plan                                                 *)

Rank(plan, i) == Cardinality({j \in DOMAIN plan.operations :
                   plan.operations[j].apply_order[1] <= plan.operations[i].apply_order[1]})
Kind(plan, k) == plan.operations[CHOOSE i \in DOMAIN plan.operations : Rank(plan, i) = k].kind

\* The executor at its k-th operation, which has the status; the earlier ones
\* are applied.
At(plan, k, status) ==
  [plan EXCEPT
     !.phase = IF status = "Failed" THEN "Failed" ELSE "RollingBack",
     !.last_error = IF status = "Failed" THEN "operation_failed" ELSE Absent,
     !.operations = [i \in DOMAIN plan.operations |->
       [plan.operations[i] EXCEPT !.status =
          IF Rank(plan, i) < k THEN "Applied" ELSE IF Rank(plan, i) = k THEN status ELSE @]]]

\* What the first operation of a scope was is what a later one is held to.
Conflicts(plan, k) == \E m \in 1..(k - 1) :
  retry_effect_against(Kind(plan, k), Kind(plan, m)) = "ConflictingMutation"

\* Operation k is reached, its intent is on disk, and its effect is attempted.
Attempts(snapshot, plan, k) ==
  /\ \A m \in 1..(k - 1) : /\ Journalled(snapshot, At(plan, m, "Applying"))
                           /\ ~Conflicts(plan, m)
                           /\ Journalled(snapshot, At(plan, m, "Applied"))
  /\ Journalled(snapshot, At(plan, k, "Applying"))

Finished(plan) == [At(plan, Len(plan.operations), "Applied") EXCEPT !.phase = "Applied"]

-----------------------------------------------------------------------------
(* What is checked of a state, and of a plan with its snapshot             *)

Descending(steps) == \A i, j \in DOMAIN steps : i < j => steps[i].apply_order > steps[j].apply_order

\* The operations a valid state must have undone are undone, each by its own
\* inverse, once and in reverse order.
Undoes(state, keys) ==
  LET rollback == rollback_steps_reverse_order(state) IN
  /\ rollback.ok /\ Descending(rollback.steps)
  /\ {s.operation_key : s \in Range(rollback.steps)} = keys
  /\ Len(rollback.steps) = Cardinality(keys)
  /\ \A s \in Range(rollback.steps) : \E o \in Range(state.operations) :
       s.operation_key = o.key /\ s.inverse = o.rollback.inverse /\ s.inverse # NoInverse

StateUndone(state) == validate(state) =>
  Undoes(state, {o.key : o \in {p \in Range(state.operations) : p.status \in PossiblyApplied}})

\* No effect is attempted before a journal that undoes it was accepted; once it
\* was attempted no later write of the execution is refused, whatever comes of
\* it; and no route or DNS change is attempted before the kill switch stands.
PlanRecoverable(snapshot, plan) == validate_for_execution(plan) =>
  \A k \in DOMAIN plan.operations : Attempts(snapshot, plan, k) =>
    /\ SnapshotValid(snapshot)
    /\ \A status \in PossiblyApplied :
         LET state == At(plan, k, status) IN
         /\ Journalled(snapshot, state)
         /\ Undoes(state, {plan.operations[i].key :
                             i \in {j \in DOMAIN plan.operations : Rank(plan, j) <= k}})
         /\ \A f, o \in Range(state.operations) :
              Engages(f) /\ RoutesOrDns(o) /\ o.status # "Planned" => f.status = "Applied"
    /\ k = Len(plan.operations) /\ ~Conflicts(plan, k) => Recorded(snapshot, Finished(plan))
=============================================================================
