-------------------------- MODULE EndpointBootstrap --------------------------
(***************************************************************************)
(* The choice of the endpoint before there is protection                   *)
(* (endpoint_bootstrap.rs): one request, one answer, one handoff.          *)
(*                                                                         *)
(* The owner of the state machine, a resolver and the network act in any   *)
(* order: the owner may use an observation it made some time ago, answers  *)
(* come late, more than once and from requests given up, the network and   *)
(* the conditions of admission change between two calls.  A call that only *)
(* returns an error leaves everything as it was and is no step.            *)
(***************************************************************************)
EXTENDS Naturals, Sequences, FiniteSets, Functions

CONSTANTS
  V4, V6, Supported,   \* addresses, numbered in the order of preference
  Responses,           \* what a resolver may answer: sequences of records
  MaxRecords, MaxCandidates, MaxLifetime,
  MaxTime,             \* bound of the clock
  MaxBinding,          \* bound: binding generations
  None                 \* no record

Addresses == V4 \cup V6
Times == 0..MaxTime
Records == [address : Addresses, valid_until : Times]
Bindings == 1..MaxBinding
Answers == [binding : Bindings, records : Responses, at : Times]
Handoffs == [endpoint : Records, binding : Bindings, at : Times]

ASSUME BootstrapAssumption ==
  /\ Addresses \subseteq Nat /\ \A a \in V4, b \in V6 : a < b
  /\ Responses \subseteq Seq(Records)
  /\ {MaxRecords, MaxCandidates, MaxLifetime, MaxTime, MaxBinding} \subseteq Nat
  /\ MaxBinding > 0 /\ None \notin Records \cup Answers \cup Handoffs

VARIABLES
  state,             \* of the machine; "none" before the first
  binding, started_at, last_observed_at, deadline, families, selected,
  now,               \* the owner's clock
  context,           \* the binding in force: its generations, never reused
  admits,            \* Unprotected, no recovery, explicit, disclosed, not always-on
  held,              \* an observation the owner made earlier
  answer,            \* history: the answer accepted and when
  handed             \* history: what take_endpoint returned and when

request == <<state, binding, started_at, last_observed_at, deadline, families, selected>>
world == <<now, context, admits, held>>
bootstrapVars == <<request, world, answer, handed>>

Observation == [binding |-> context, admits |-> admits, now |-> now]
Observed == {Observation, held}

BootstrapInit ==
  /\ state = "none" /\ binding = 0
  /\ started_at = 0 /\ last_observed_at = 0 /\ deadline = 0
  /\ families = {} /\ selected = None
  /\ now = 0 /\ context = 1 /\ admits \in BOOLEAN
  /\ held = [binding |-> 1, admits |-> admits, now |-> 0]
  /\ answer = None /\ handed = None

-----------------------------------------------------------------------------
\* The world.

Tick ==
  /\ now < MaxTime /\ now' = now + 1
  /\ UNCHANGED <<request, context, admits, held, answer, handed>>

NetworkChanges ==
  /\ context < MaxBinding /\ context' = context + 1
  /\ UNCHANGED <<request, now, admits, held, answer, handed>>

AdmissionChanges ==
  /\ admits' = ~admits
  /\ UNCHANGED <<request, now, context, held, answer, handed>>

Observe ==
  /\ held' = Observation
  /\ UNCHANGED <<request, now, context, admits, answer, handed>>

-----------------------------------------------------------------------------
\* The machine.

ValidLifetime(from, to) == to > from /\ to - from <= MaxLifetime

\* A new request has a new generation; a machine in use may be given up for it.
Begin ==
  /\ admits /\ context < MaxBinding
  /\ context' = context + 1
  /\ state' = "Resolving" /\ binding' = context'
  /\ started_at' = now /\ last_observed_at' = now
  /\ deadline' \in {t \in Times : ValidLifetime(now, t)}
  /\ families' \in {V4, V6, Addresses}
  /\ selected' = None /\ answer' = None /\ handed' = None
  /\ UNCHANGED <<now, admits, held>>

Block == state' = "Blocked" /\ selected' = None /\ answer' = None

\* Mutant: the deadline is left to the timer.
Passes_Untimed(o) == o.binding = binding /\ o.admits /\ o.now >= last_observed_at

\* The checks of revalidate up to the clock.
Passes(o) ==
  o.binding = binding /\ o.admits /\ o.now >= last_observed_at /\ o.now < deadline

Note(o) == last_observed_at' = IF Passes(o) THEN o.now ELSE last_observed_at

Expired(o) == selected # None /\ selected.valid_until <= o.now

Revalidate(o) ==
  /\ state \in {"Resolving", "Prepared"}
  /\ Note(o)
  /\ IF Passes(o) /\ ~Expired(o) THEN UNCHANGED <<state, selected, answer>> ELSE Block
  /\ UNCHANGED <<binding, started_at, deadline, families, world, handed>>

\* Mutant: any of the records of an address may count.
Kept_Any(records) == Range(records)

\* Of the records of an address the one that ends first counts.
Kept(records) ==
  {r \in Range(records) :
     \A q \in Range(records) : q.address = r.address => r.valid_until <= q.valid_until}

Eligible(records, t) ==
  {r \in Kept(records) :
     r.address \in Supported \cap families /\ r.valid_until > t}

\* Within the bounds, and no record that ended before the request began.
Acceptable(records) ==
  /\ Len(records) <= MaxRecords
  /\ \A r \in Range(records) : r.valid_until > started_at
  /\ Cardinality({r.address : r \in Range(records)}) <= MaxCandidates

\* An answer to an older request is refused and the machine left as it is.
AcceptResponse(o, b, records) ==
  /\ state = "Resolving"
  /\ Note(o)
  /\ IF Passes(o) /\ b # binding THEN UNCHANGED <<state, selected, answer>>
     ELSE IF Passes(o) /\ Acceptable(records) /\ Eligible(records, o.now) # {}
     THEN /\ \E r \in Eligible(records, o.now) :
               /\ \A q \in Eligible(records, o.now) : r.address <= q.address
               /\ selected' = r
          /\ state' = "Prepared"
          /\ answer' = [binding |-> b, records |-> records, at |-> o.now]
     ELSE Block
  /\ UNCHANGED <<binding, started_at, deadline, families, world, handed>>

ResolutionFailed(o, b) ==
  /\ state = "Resolving"
  /\ Note(o)
  /\ IF Passes(o) /\ b # binding THEN UNCHANGED <<state, selected, answer>> ELSE Block
  /\ UNCHANGED <<binding, started_at, deadline, families, world, handed>>

TakeEndpoint(o) ==
  /\ state = "Prepared"
  /\ Note(o)
  /\ IF Passes(o) /\ ~Expired(o)
     THEN /\ handed' = [endpoint |-> selected, binding |-> binding, at |-> o.now]
          /\ state' = "Consumed" /\ selected' = None /\ UNCHANGED answer
     ELSE Block /\ UNCHANGED handed
  /\ UNCHANGED <<binding, started_at, deadline, families, world>>

Machine ==
  \/ Begin
  \/ \E o \in Observed :
       \/ Revalidate(o)
       \/ \E b \in 1..binding :
            \/ \E records \in Responses : AcceptResponse(o, b, records)
            \/ ResolutionFailed(o, b)
       \/ TakeEndpoint(o)

BootstrapNext == Machine \/ Tick \/ NetworkChanges \/ AdmissionChanges \/ Observe

BootstrapSpec == BootstrapInit /\ [][BootstrapNext]_bootstrapVars

\* The owner drives the timeout, as revalidate() asks of it, and time passes.
FairSpec == BootstrapSpec /\ WF_bootstrapVars(Tick) /\ WF_bootstrapVars(Revalidate(Observation))

-----------------------------------------------------------------------------
\* Properties.

\* Shapes; a selection is there exactly while the machine is Prepared.
BootstrapTypeOK ==
  /\ state \in {"none", "Resolving", "Prepared", "Consumed", "Blocked"}
  /\ binding \in 0..context
  /\ {started_at, last_observed_at, deadline} \subseteq Times
  /\ families \subseteq Addresses
  /\ selected \in Records \cup {None} /\ (selected # None) = (state = "Prepared")
  /\ now \in Times /\ context \in Bindings /\ admits \in BOOLEAN
  /\ held \in [binding : 0..context, admits : BOOLEAN, now : 0..now]
  /\ answer \in Answers \cup {None} /\ handed \in Handoffs \cup {None}
  /\ (handed # None) = (state = "Consumed")

\* What is handed out comes from the answer to this very request, is of a family
\* and kind that can be used, no address before it in the order was fresh when the
\* answer came, and no record of its own address had ended at the handoff.
HandoffSound ==
  handed # None =>
    LET e == handed.endpoint
        offered == Range(answer.records)
    IN  /\ answer.binding = handed.binding /\ handed.binding = binding
        /\ e \in offered /\ e.address \in Supported \cap families
        /\ \A r \in offered : r.address = e.address => handed.at < r.valid_until
        /\ \A a \in Supported \cap families :
             a < e.address /\ (\E r \in offered : r.address = a) =>
               \E r \in offered : r.address = a /\ r.valid_until <= answer.at

\* From the start to the handoff no more than the lifetime passes, and what the
\* handoff rests on was observed after everything before it.
InTime ==
  handed # None =>
    /\ started_at <= answer.at /\ answer.at <= handed.at /\ handed.at <= now
    /\ handed.at < deadline /\ deadline - started_at <= MaxLifetime

\* One outcome: nothing is chosen twice, handed out twice or taken back, but by a
\* new request.
Final ==
  [][binding' = binding =>
       /\ selected # None => selected' \in {selected, None}
       /\ state \in {"Consumed", "Blocked"} => state' = state
       /\ handed # None => handed' = handed
       /\ state = "Prepared" /\ state' = "Prepared" => handed' = None]_bootstrapVars

\* A request does not stay open: the owner that keeps checking sees it settled.
Settles == state \in {"Resolving", "Prepared"} ~> state \in {"Consumed", "Blocked"}
=============================================================================
