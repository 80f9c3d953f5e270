--------------------------- MODULE EndpointProofs ---------------------------
(***************************************************************************)
(* The endpoint before and after its use.                                  *)
(*                                                                         *)
(* EndpointBootstrap: what take_endpoint returns is right for every set of *)
(* addresses, every answer, every limit and every clock.  The inductive    *)
(* part carries what is known of the choice from the answer, where it is   *)
(* made, to the handoff, where it is used.                                 *)
(*                                                                         *)
(* EndpointRevocation: its verdicts are true for every buffer capacity,    *)
(* counter width and number of changes of the machine on its own.  Where   *)
(* the operation stands decides what it has written, touched and flagged.  *)
(***************************************************************************)
EXTENDS EndpointBootstrap, EndpointRevocation, WellFoundedInduction, TLAPS

-----------------------------------------------------------------------------
(* The choice of an endpoint                                               *)

\* The request that is open or was answered ran within its lifetime.
ClockInv ==
  state \in {"Resolving", "Prepared", "Consumed"} =>
    /\ binding # 0 /\ started_at <= last_observed_at /\ last_observed_at <= now
    /\ last_observed_at < deadline /\ deadline - started_at <= MaxLifetime

\* An endpoint is the right choice from the answer.
Right(e) ==
  LET offered == Range(answer.records)
  IN  /\ e \in offered /\ e.address \in Supported \cap families
      /\ \A r \in offered : r.address = e.address => e.valid_until <= r.valid_until
      /\ \A a \in Supported \cap families :
           a < e.address /\ (\E r \in offered : r.address = a) =>
             \E r \in offered : r.address = a /\ r.valid_until <= answer.at

ChoiceInv ==
  state \in {"Prepared", "Consumed"} =>
    /\ answer # None /\ answer.binding = binding
    /\ started_at <= answer.at /\ answer.at <= last_observed_at

PreparedInv == state = "Prepared" => Right(selected)

ConsumedInv ==
  handed # None =>
    /\ Right(handed.endpoint) /\ handed.binding = binding
    /\ handed.at = last_observed_at /\ handed.at < handed.endpoint.valid_until

BootstrapInv == BootstrapTypeOK /\ ClockInv /\ ChoiceInv /\ PreparedInv /\ ConsumedInv

-----------------------------------------------------------------------------
\* What an answer is made of.
LEMMA Offered ==
  ASSUME NEW listed \in Responses
  PROVE  Range(listed) \subseteq Records
<1>1. listed \in Seq(Records)
  BY BootstrapAssumption
<1> QED
  BY <1>1 DEF Range

LEMMA Numbers ==
  /\ MaxTime \in Nat /\ MaxBinding \in Nat \ {0} /\ MaxLifetime \in Nat
  /\ Times \subseteq Nat /\ Bindings \subseteq Nat /\ Addresses \subseteq Nat
  /\ None \notin Records /\ None \notin Answers /\ None \notin Handoffs
BY BootstrapAssumption DEF Times, Bindings

\* A set of numbers has a least one.
LEMMA Least ==
  ASSUME NEW S, S \subseteq Nat, S # {}
  PROVE  \E m \in S : \A n \in S : m <= n
<1> DEFINE R == OpToRel(<, Nat)
<1>1. \A m, n \in Nat : <<m, n>> \in R <=> m < n
  BY DEF OpToRel
<1>2. IsWellFoundedOn(R, Nat)
  BY NatLessThanWellFounded
<1> HIDE DEF R
<1>3. PICK m \in S : \A n \in S : ~(<<n, m>> \in R)
  BY <1>2, WFMin
<1>4. ASSUME NEW n \in S PROVE m <= n
  <2>1. n \in Nat /\ m \in Nat
    OBVIOUS
  <2>2. ~(n < m)
    BY <1>1, <1>3, <2>1
  <2> QED
    BY <2>1, <2>2
<1> QED
  BY <1>4

\* An address preferred to the choice was not fresh: of its records the one that
\* ends first is the one that counts.
LEMMA Preferred ==
  ASSUME NEW listed \in Responses, NEW t \in Times, NEW r \in Eligible(listed, t),
         \A q \in Eligible(listed, t) : r.address <= q.address,
         NEW a \in Supported \cap families, families \subseteq Addresses,
         a < r.address, NEW p \in Range(listed), p.address = a
  PROVE  \E q \in Range(listed) : q.address = a /\ q.valid_until <= t
<1>. t \in Nat /\ \A q \in Range(listed) : q.valid_until \in Nat
  BY Offered, Numbers DEF Records
<1>1. SUFFICES ASSUME \A q \in Range(listed) : q.address = a => q.valid_until > t
               PROVE  FALSE
  OBVIOUS
<1> DEFINE ends == {q.valid_until : q \in {x \in Range(listed) : x.address = a}}
<1>2. ends \subseteq Times /\ ends # {}
  BY Offered DEF Records
<1>3. PICK m \in ends : \A n \in ends : m <= n
  BY <1>2, Least, Numbers
<1>4. PICK q \in Range(listed) : q.address = a /\ q.valid_until = m
  OBVIOUS
<1>5. q \in Records /\ q \in Kept(listed)
  BY <1>3, <1>4, Offered DEF Kept
<1>6. q \in Eligible(listed, t)
  BY <1>1, <1>4, <1>5 DEF Eligible
<1>7. r.address \in Nat /\ a \in Nat
  BY Offered, Numbers DEF Eligible, Kept, Records
<1> QED
  BY <1>4, <1>6, <1>7

\* What is read of the world.
LEMMA ObservedType ==
  ASSUME BootstrapTypeOK, NEW o \in Observed
  PROVE  o.binding \in Nat /\ o.now \in 0..now /\ o.now \in Times /\ now \in Nat
BY Numbers DEF BootstrapTypeOK, Observed, Observation, Times, Bindings

-----------------------------------------------------------------------------
\* The steps.

LEMMA BootstrapInitInv == ASSUME BootstrapInit PROVE BootstrapInv
<1>1. BootstrapTypeOK
  BY Numbers DEF BootstrapInit, BootstrapTypeOK, Times, Bindings
<1>2. ClockInv /\ ChoiceInv /\ PreparedInv /\ ConsumedInv
  BY DEF BootstrapInit, ClockInv, ChoiceInv, PreparedInv, ConsumedInv
<1> QED
  BY <1>1, <1>2 DEF BootstrapInv

\* The world moves on: the clock does not go back.
LEMMA WorldStep ==
  ASSUME BootstrapInv, UNCHANGED <<request, answer, handed>>,
         Tick \/ NetworkChanges \/ AdmissionChanges \/ Observe
  PROVE  BootstrapInv'
<1>1. now' \in Times /\ now' >= now /\ context' \in Bindings /\ context' >= context
  BY Numbers DEF BootstrapInv, BootstrapTypeOK, Tick, NetworkChanges, AdmissionChanges, Observe,
                 Times, Bindings
<1>2. held' \in [binding : 0..context', admits : BOOLEAN, now : 0..now']
  BY <1>1, Numbers DEF BootstrapInv, BootstrapTypeOK, Tick, NetworkChanges,
     AdmissionChanges, Observe,
                       Observation, Times, Bindings
<1>3. admits' \in BOOLEAN
  BY DEF BootstrapInv, BootstrapTypeOK, Tick, NetworkChanges, AdmissionChanges, Observe
<1>4. binding \in 0..context'
  BY <1>1, Numbers DEF BootstrapInv, BootstrapTypeOK
<1>5. BootstrapTypeOK'
  BY <1>1, <1>2, <1>3, <1>4 DEF BootstrapInv, BootstrapTypeOK, request
<1>6. ClockInv'
  <2>1. now \in Nat /\ now' \in Nat /\ last_observed_at \in Nat
    BY <1>1, Numbers DEF BootstrapInv, BootstrapTypeOK
  <2> QED
    BY <1>1, <2>1 DEF BootstrapInv, ClockInv, request
<1>7. ChoiceInv' /\ PreparedInv' /\ ConsumedInv'
  BY DEF BootstrapInv, ChoiceInv, PreparedInv, ConsumedInv, Right, request
<1> QED
  BY <1>5, <1>6, <1>7 DEF BootstrapInv

LEMMA BeginStep == ASSUME BootstrapInv, Begin PROVE BootstrapInv'
<1>1. /\ context' \in Bindings /\ context' > context /\ binding' = context'
      /\ families' \subseteq Addresses
  BY Numbers DEF BootstrapInv, BootstrapTypeOK, Begin, Bindings, Addresses
<1>2. BootstrapTypeOK'
  <2>1. held' \in [binding : 0..context', admits : BOOLEAN, now : 0..now']
    BY <1>1, Numbers DEF BootstrapInv, BootstrapTypeOK, Begin
  <2> QED
    BY <1>1, <2>1, Numbers DEF BootstrapInv, BootstrapTypeOK, Begin
<1>3. ClockInv'
  <2>1. now \in Nat /\ deadline' \in Nat /\ ValidLifetime(now, deadline') /\ binding' # 0
    BY <1>1, Numbers DEF BootstrapInv, BootstrapTypeOK, Begin, Bindings
  <2> QED
    BY <2>1 DEF Begin, ClockInv, ValidLifetime
<1>4. ChoiceInv' /\ PreparedInv' /\ ConsumedInv'
  BY DEF Begin, ChoiceInv, PreparedInv, ConsumedInv
<1> QED
  BY <1>2, <1>3, <1>4 DEF BootstrapInv

\* What the checks on an observation keep.
LEMMA Noted ==
  ASSUME BootstrapInv, NEW o \in Observed, Note(o),
         UNCHANGED <<started_at, deadline, world>>,
         state \in {"Resolving", "Prepared"}
  PROVE  /\ last_observed_at' \in Times /\ last_observed_at <= last_observed_at'
         /\ started_at <= last_observed_at' /\ last_observed_at' <= now
         /\ last_observed_at' < deadline /\ deadline - started_at <= MaxLifetime
         /\ Passes(o) => last_observed_at' = o.now
         /\ binding # 0 /\ o.now \in Nat
<1>1. /\ started_at \in Nat /\ last_observed_at \in Times /\ last_observed_at \in Nat
      /\ deadline \in Nat /\ now \in Nat /\ o.now \in Times /\ o.now \in Nat /\ o.now <= now
  <2>1. /\ started_at \in Times /\ last_observed_at \in Times /\ deadline \in Times
        /\ now \in Times
    BY DEF BootstrapInv, BootstrapTypeOK
  <2>2. o.now \in 0..now /\ o.now \in Times /\ now \in Nat
    BY ObservedType DEF BootstrapInv
  <2> QED
    BY <2>1, <2>2, Numbers
<1>2. /\ binding # 0 /\ started_at <= last_observed_at /\ last_observed_at <= now
      /\ last_observed_at < deadline /\ deadline - started_at <= MaxLifetime
  BY DEF BootstrapInv, ClockInv
<1>3. CASE Passes(o)
  BY <1>1, <1>2, <1>3 DEF Note, Passes
<1>4. CASE ~Passes(o)
  BY <1>1, <1>2, <1>4 DEF Note
<1> QED
  BY <1>3, <1>4

\* Blocked, there is nothing left to be right about.
LEMMA BlockStep ==
  ASSUME BootstrapInv, NEW o \in Observed, Note(o), Block,
         state \in {"Resolving", "Prepared"},
         UNCHANGED <<binding, started_at, deadline, families, world, handed>>
  PROVE  BootstrapInv'
<1>1. BootstrapTypeOK'
  BY Noted DEF BootstrapInv, BootstrapTypeOK, Block, world
<1>2. handed = None
  BY DEF BootstrapInv, BootstrapTypeOK
<1>3. ClockInv' /\ ChoiceInv' /\ PreparedInv' /\ ConsumedInv'
  BY <1>2 DEF Block, ClockInv, ChoiceInv, PreparedInv, ConsumedInv
<1> QED
  BY <1>1, <1>3 DEF BootstrapInv

\* A check that passes, and an answer that is refused.
LEMMA KeepStep ==
  ASSUME BootstrapInv, NEW o \in Observed, Note(o),
         state \in {"Resolving", "Prepared"},
         UNCHANGED <<state, selected, answer, binding, started_at, deadline, families,
                     world, handed>>
  PROVE  BootstrapInv'
<1>1. BootstrapTypeOK'
  BY Noted DEF BootstrapInv, BootstrapTypeOK, world
<1>2. ClockInv'
  BY Noted DEF BootstrapInv, ClockInv, world
<1>3. ChoiceInv'
  <2>1. answer # None => answer.at \in Nat
    BY Numbers DEF BootstrapInv, BootstrapTypeOK, Answers
  <2>2. last_observed_at \in Nat /\ last_observed_at' \in Nat
    BY Noted, Numbers DEF BootstrapInv, BootstrapTypeOK
  <2> QED
    BY <2>1, <2>2, Noted DEF BootstrapInv, ChoiceInv
<1>4. handed = None
  BY DEF BootstrapInv, BootstrapTypeOK
<1>5. PreparedInv' /\ ConsumedInv'
  BY <1>4 DEF BootstrapInv, PreparedInv, ConsumedInv, Right
<1> QED
  BY <1>1, <1>2, <1>3, <1>5 DEF BootstrapInv

LEMMA ChooseStep ==
  ASSUME BootstrapInv, NEW o \in Observed, NEW listed \in Responses, Note(o),
         state = "Resolving", Passes(o),
         NEW r \in Eligible(listed, o.now),
         \A q \in Eligible(listed, o.now) : r.address <= q.address,
         selected' = r, state' = "Prepared",
         answer' = [binding |-> binding, records |-> listed, at |-> o.now],
         UNCHANGED <<binding, started_at, deadline, families, world, handed>>
  PROVE  BootstrapInv'
<1>1. r \in Records /\ r \in Range(listed)
  BY Offered DEF Eligible, Kept
<1>2. binding \in Bindings /\ o.now \in Times /\ families \subseteq Addresses
  <2>1. binding \in 0..context /\ binding # 0
    BY Noted DEF BootstrapInv, BootstrapTypeOK
  <2> QED
    BY <2>1, ObservedType, Numbers DEF BootstrapInv, BootstrapTypeOK, Bindings
<1>3. answer' \in Answers /\ answer' # None
  BY <1>2, Numbers DEF Answers
<1>4. BootstrapTypeOK'
  BY <1>1, <1>3, Noted, Numbers DEF BootstrapInv, BootstrapTypeOK, world
<1>5. ClockInv'
  BY Noted DEF ClockInv, world
<1>6. ChoiceInv'
  BY <1>3, Noted, Numbers DEF ChoiceInv
<1>7. PreparedInv'
  <2>1. r.address \in Supported \cap families
    BY DEF Eligible
  <2>2. \A q \in Range(listed) : q.address = r.address => r.valid_until <= q.valid_until
    BY DEF Eligible, Kept
  <2>3. \A a \in Supported \cap families :
          a < r.address /\ (\E q \in Range(listed) : q.address = a) =>
            \E q \in Range(listed) : q.address = a /\ q.valid_until <= o.now
    BY <1>2, Preferred
  <2> QED
    BY <1>1, <2>1, <2>2, <2>3 DEF PreparedInv, Right
<1>8. ConsumedInv'
  BY DEF BootstrapInv, BootstrapTypeOK, ConsumedInv
<1> QED
  BY <1>4, <1>5, <1>6, <1>7, <1>8 DEF BootstrapInv

LEMMA HandStep ==
  ASSUME BootstrapInv, NEW o \in Observed, Note(o),
         state = "Prepared", Passes(o), ~Expired(o),
         handed' = [endpoint |-> selected, binding |-> binding, at |-> o.now],
         state' = "Consumed", selected' = None,
         UNCHANGED <<answer, binding, started_at, deadline, families, world>>
  PROVE  BootstrapInv'
<1>1. selected \in Records /\ selected.valid_until \in Nat /\ o.now \in Nat
  BY ObservedType, Numbers DEF BootstrapInv, BootstrapTypeOK, Records
<1>2. handed' \in Handoffs /\ handed' # None
  <2>1. answer \in Answers /\ answer.binding = binding
    BY DEF BootstrapInv, BootstrapTypeOK, ChoiceInv
  <2> QED
    BY <1>1, <2>1, ObservedType, Numbers DEF BootstrapInv, Answers, Handoffs
<1>3. BootstrapTypeOK'
  BY <1>2, Noted DEF BootstrapInv, BootstrapTypeOK, world
<1>4. ClockInv'
  BY Noted DEF ClockInv, world
<1>5. ChoiceInv'
  <2>1. answer # None => answer.at \in Nat
    BY Numbers DEF BootstrapInv, BootstrapTypeOK, Answers
  <2>2. last_observed_at \in Nat /\ last_observed_at' \in Nat
    BY Noted, Numbers DEF BootstrapInv, BootstrapTypeOK
  <2> QED
    BY <2>1, <2>2, Noted DEF BootstrapInv, ChoiceInv
<1>6. ConsumedInv'
  <2>1. o.now < selected.valid_until
    BY <1>1 DEF Expired, BootstrapInv, BootstrapTypeOK
  <2>2. Right(selected) /\ UNCHANGED <<answer, families>>
    BY DEF BootstrapInv, PreparedInv
  <2>3. Right(handed.endpoint)'
    BY <2>2 DEF Right
  <2> QED
    BY <2>1, <2>3, Noted DEF ConsumedInv
<1>7. PreparedInv'
  BY DEF PreparedInv
<1> QED
  BY <1>3, <1>4, <1>5, <1>6, <1>7 DEF BootstrapInv

LEMMA BootstrapNextStep == ASSUME BootstrapInv, [BootstrapNext]_bootstrapVars PROVE BootstrapInv'
<1>1. CASE UNCHANGED bootstrapVars
  BY <1>1 DEF bootstrapVars, request, world, BootstrapInv, BootstrapTypeOK, ClockInv,
    ChoiceInv, PreparedInv,
              ConsumedInv, Right
<1>2. CASE Tick \/ NetworkChanges \/ AdmissionChanges \/ Observe
  BY <1>2, WorldStep DEF Tick, NetworkChanges, AdmissionChanges, Observe
<1>3. CASE Begin
  BY <1>3, BeginStep
<1>4. ASSUME NEW o \in Observed, Revalidate(o) PROVE BootstrapInv'
  BY <1>4, KeepStep, BlockStep DEF Revalidate
<1>5. ASSUME NEW o \in Observed, NEW b \in 1..binding, ResolutionFailed(o, b) PROVE BootstrapInv'
  BY <1>5, KeepStep, BlockStep DEF ResolutionFailed
<1>6. ASSUME NEW o \in Observed, NEW b \in 1..binding, NEW listed \in Responses,
             AcceptResponse(o, b, listed)
      PROVE  BootstrapInv'
  BY <1>6, KeepStep, BlockStep, ChooseStep DEF AcceptResponse
<1>7. ASSUME NEW o \in Observed, TakeEndpoint(o) PROVE BootstrapInv'
  BY <1>7, HandStep, BlockStep DEF TakeEndpoint
<1> QED
  BY <1>1, <1>2, <1>3, <1>4, <1>5, <1>6, <1>7 DEF BootstrapNext, Machine

-----------------------------------------------------------------------------
\* Theorems.

LEMMA BootstrapInvariant == BootstrapSpec => []BootstrapInv
<1>1. BootstrapInit => BootstrapInv
  BY BootstrapInitInv
<1>2. BootstrapInv /\ [BootstrapNext]_bootstrapVars => BootstrapInv'
  BY BootstrapNextStep
<1> QED
  BY <1>1, <1>2, PTL DEF BootstrapSpec

\* Type correctness of the machine and of what it is told.
THEOREM BootstrapTypeCorrect == BootstrapSpec => []BootstrapTypeOK
<1>1. BootstrapInv => BootstrapTypeOK
  BY DEF BootstrapInv
<1> QED
  BY BootstrapInvariant, <1>1, PTL

\* The endpoint that take_endpoint returns is the right one: from the answer to its
\* own request, of a kind that can be used, fresh, and the first in the order.
THEOREM HandoffIsSound == BootstrapSpec => []HandoffSound
<1>1. BootstrapInv => HandoffSound
  <2> SUFFICES ASSUME BootstrapInv, handed # None PROVE HandoffSound
    BY DEF HandoffSound
  <2>1. Right(handed.endpoint) /\ state = "Consumed"
    BY DEF BootstrapInv, BootstrapTypeOK, ConsumedInv
  <2>2. answer.records \in Responses
    BY <2>1 DEF BootstrapInv, BootstrapTypeOK, ChoiceInv, Answers
  <2>3. /\ handed.at \in Nat /\ handed.endpoint.valid_until \in Nat
        /\ \A r \in Range(answer.records) : r.valid_until \in Nat
    BY <2>2, Offered, Numbers DEF BootstrapInv, BootstrapTypeOK, Records, Handoffs
  <2>4. \A r \in Range(answer.records) :
          r.address = handed.endpoint.address => handed.at < r.valid_until
    BY <2>1, <2>3 DEF BootstrapInv, ConsumedInv, Right
  <2> QED
    BY <2>1, <2>4 DEF BootstrapInv, ChoiceInv, ConsumedInv, HandoffSound, Right
<1> QED
  BY BootstrapInvariant, <1>1, PTL

\* The handoff is in time and rests on what was observed last.
THEOREM HandoffInTime == BootstrapSpec => []InTime
<1>1. BootstrapInv => InTime
  <2> SUFFICES ASSUME BootstrapInv, handed # None PROVE InTime
    BY DEF InTime
  <2>1. state = "Consumed" /\ handed.at = last_observed_at
    BY DEF BootstrapInv, BootstrapTypeOK, ConsumedInv
  <2> QED
    BY <2>1 DEF BootstrapInv, ClockInv, ChoiceInv, InTime
<1> QED
  BY BootstrapInvariant, <1>1, PTL

\* One outcome for each request.
THEOREM OutcomeFinal == BootstrapSpec => Final
<1>1. BootstrapInv /\ [BootstrapNext]_bootstrapVars =>
        [binding' = binding =>
           /\ selected # None => selected' \in {selected, None}
           /\ state \in {"Consumed", "Blocked"} => state' = state
           /\ handed # None => handed' = handed
           /\ state = "Prepared" /\ state' = "Prepared" => handed' = None]_bootstrapVars
  <2> SUFFICES ASSUME BootstrapInv, BootstrapNext, binding' = binding
               PROVE  /\ selected # None => selected' \in {selected, None}
                      /\ state \in {"Consumed", "Blocked"} => state' = state
                      /\ handed # None => handed' = handed
                      /\ state = "Prepared" /\ state' = "Prepared" => handed' = None
    OBVIOUS
  <2>1. ~Begin
    BY Numbers DEF Begin, BootstrapInv, BootstrapTypeOK
  <2>2. CASE Tick \/ NetworkChanges \/ AdmissionChanges \/ Observe
    BY <2>2 DEF Tick, NetworkChanges, AdmissionChanges, Observe, request, BootstrapInv,
       BootstrapTypeOK
  <2>3. ASSUME NEW o \in Observed, NEW b, NEW listed,
               \/ Revalidate(o) \/ ResolutionFailed(o, b)
               \/ AcceptResponse(o, b, listed) \/ TakeEndpoint(o)
        PROVE  /\ selected # None => selected' \in {selected, None}
               /\ state \in {"Consumed", "Blocked"} => state' = state
               /\ handed # None => handed' = handed
               /\ state = "Prepared" /\ state' = "Prepared" => handed' = None
    BY <2>3 DEF Revalidate, ResolutionFailed, AcceptResponse, TakeEndpoint, Block,
                BootstrapInv, BootstrapTypeOK
  <2> QED
    BY <2>1, <2>2, <2>3 DEF BootstrapNext, Machine
<1> QED
  BY BootstrapInvariant, <1>1, PTL DEF BootstrapSpec, Final

-----------------------------------------------------------------------------
(* The revocation of its grant                                             *)

BeforeIntent == {"InitialInspection", "RecordIntent"}
BeforeStop == {"PreStopInspection", "StopTransport"}
AfterStop == {"TransportInspection", "RemoveException", "ExceptionInspection",
              "ClearEstablished", "FinalInspection", "RecordObservation",
              "Teardown", "TeardownInspection"}
Running == BeforeIntent \cup BeforeStop \cup AfterStop

\* Where the operation stands decides what it has written, touched and flagged.
ProgressInv ==
  /\ pc \in BeforeIntent =>
       journal = "none" /\ ~touched /\ ~journal_may_exist /\ ~mutation_attempted
  /\ pc \in BeforeStop =>
       journal = "complete" /\ ~touched /\ journal_may_exist /\ ~mutation_attempted
  /\ pc \in AfterStop =>
       journal = "complete" /\ journal_may_exist /\ mutation_attempted
  /\ touched => mutation_attempted /\ journal = "complete"
  /\ journal # "none" => journal_may_exist
  /\ pc \in Running => verdict = "none"

\* The snapshot the final inspection accepted.
EvidenceInv ==
  pc = "RecordObservation" =>
    Gone(Tuple, snapshot) /\ snapshot[2].deny /\ snapshot[2].context

\* Nothing is dropped before the buffer is full, nor refused before the counter
\* is exhausted.
BufferInv ==
  /\ dropped > 0 => Len(records) = Capacity
  /\ reported > 0 => Len(records) = Capacity /\ dropped = MaxDropped

IInv ==
  /\ TypeOK /\ ProgressInv /\ EvidenceInv /\ BufferInv /\ Accounted
  /\ VerdictTruthful /\ ContainedOnceTouched /\ DenyNotMasked

-----------------------------------------------------------------------------
\* The order of the program.
LEMMA FollowingStage ==
  /\ Following("InitialInspection") = "RecordIntent"
  /\ Following("RecordIntent") = "PreStopInspection"
  /\ Following("PreStopInspection") = "StopTransport"
  /\ Following("StopTransport") = "TransportInspection"
  /\ Following("TransportInspection") = "RemoveException"
  /\ Following("RemoveException") = "ExceptionInspection"
  /\ Following("ExceptionInspection") = "ClearEstablished"
  /\ Following("ClearEstablished") = "FinalInspection"
  /\ Following("FinalInspection") = "RecordObservation"
BY DEF Following, Program

LEMMA StagesListed ==
  Stages = {"InitialInspection", "RecordIntent", "PreStopInspection",
            "StopTransport", "TransportInspection", "RemoveException",
            "ExceptionInspection", "ClearEstablished", "FinalInspection",
            "RecordObservation"}
BY DEF Stages, Program

-----------------------------------------------------------------------------
\* The invariant holds initially and is preserved by every action.

LEMMA FreshWorld == <<Granted, Sound>> \in Worlds
BY DEF Worlds, Granted, Sound

LEMMA InitInv == Init => IInv
<1> SUFFICES ASSUME Init PROVE IInv
  OBVIOUS
<1>1. <<present, facts>> \in Worlds /\ snapshot \in Worlds
  BY FreshWorld DEF Init
<1>2. records \in Seq(Nat) /\ Len(records) = 0
  BY DEF Init
<1>3. TypeOK
  <2>1. changes \in 0..MaxChanges /\ dropped \in 0..MaxDropped
        /\ failed \in Nat /\ reported \in Nat /\ Len(records) <= Capacity
    BY <1>2, BufferAssumption DEF Init
  <2>2. touched \in BOOLEAN /\ journal_may_exist \in BOOLEAN
        /\ mutation_attempted \in BOOLEAN
    BY DEF Init
  <2>3. /\ journal \in {"none", "partial", "complete"}
        /\ pc \in Stages \cup {"idle", "Teardown", "TeardownInspection", "Record"}
        /\ cause \in Causes \cup {"none"} /\ verdict \in Verdicts
    BY DEF Init, Verdicts
  <2> QED
    BY <1>1, <1>2, <2>1, <2>2, <2>3 DEF TypeOK
<1> QED
  BY <1>2, <1>3 DEF Init, IInv, ProgressInv, BeforeIntent, BeforeStop, AfterStop, Running,
              EvidenceInv, Accounted, BufferInv, VerdictTruthful, ContainedOnceTouched,
              DenyNotMasked

LEMMA ExecuteStep == ASSUME IInv, Execute PROVE IInv'
<1>1. TypeOK'
  <2>1. (<<present, facts>> \in Worlds /\ snapshot \in Worlds)'
    BY FreshWorld DEF Execute
  <2>2. changes' \in 0..MaxChanges
    BY BufferAssumption DEF Execute
  <2>3. (touched \in BOOLEAN /\ journal_may_exist \in BOOLEAN
          /\ mutation_attempted \in BOOLEAN)'
    BY DEF Execute
  <2>4. (/\ journal \in {"none", "partial", "complete"}
         /\ pc \in Stages \cup {"idle", "Teardown", "TeardownInspection", "Record"}
         /\ cause \in Causes \cup {"none"} /\ verdict \in Verdicts)'
    BY StagesListed DEF Execute, Verdicts
  <2>5. UNCHANGED buffer
    BY DEF Execute
  <2> QED
    BY <2>1, <2>2, <2>3, <2>4, <2>5 DEF IInv, TypeOK, buffer
<1>2. ProgressInv' /\ EvidenceInv'
  BY DEF ProgressInv, EvidenceInv, Execute, BeforeIntent, BeforeStop, AfterStop
<1>3. Accounted' /\ BufferInv' /\ VerdictTruthful' /\ ContainedOnceTouched' /\ DenyNotMasked'
  BY DEF IInv, Accounted, BufferInv, VerdictTruthful, ContainedOnceTouched, DenyNotMasked,
         Execute, buffer
<1> QED
  BY <1>1, <1>2, <1>3 DEF IInv

LEMMA EnvironmentStep == ASSUME IInv, Environment PROVE IInv'
<1>1. TypeOK'
  <2>1. present' \in [Owned -> BOOLEAN]
    BY DEF IInv, TypeOK, Worlds, Environment
  <2>2. facts' \in [deny : BOOLEAN, context : BOOLEAN, owner : BOOLEAN]
    BY DEF IInv, TypeOK, Worlds, Environment
  <2>3. changes' \in 0..MaxChanges
    BY BufferAssumption DEF IInv, TypeOK, Environment
  <2> QED
    BY <2>1, <2>2, <2>3 DEF IInv, TypeOK, Environment, Worlds, flags, buffer
<1>2. ProgressInv' /\ EvidenceInv'
  BY DEF IInv, ProgressInv, EvidenceInv, Environment, flags, Gone
<1>3. Accounted' /\ BufferInv' /\ VerdictTruthful' /\ ContainedOnceTouched' /\ DenyNotMasked'
  BY DEF IInv, Accounted, BufferInv, VerdictTruthful, ContainedOnceTouched, DenyNotMasked,
         Environment, flags, buffer, Gone
<1> QED
  BY <1>1, <1>2, <1>3 DEF IInv

\* What an accepted inspection has seen.
LEMMA AcceptedInspection ==
  ASSUME IInv, NEW unknown \in SUBSET Tuple, NEW denyKnown \in BOOLEAN,
         Cause(pc, unknown, denyKnown) = "none"
  PROVE  facts.context /\ facts.deny /\ Gone(RequiredAbsent(pc), <<present, facts>>)
<1>1. facts.context \in BOOLEAN /\ facts.deny \in BOOLEAN
  BY DEF IInv, TypeOK, Worlds
<1> QED
  BY <1>1 DEF Cause, Gone

\* The reasons of a refused inspection are listed, and a missing deny policy
\* takes precedence over everything but a changed context.
LEMMA CauseListed ==
  ASSUME IInv, NEW unknown \in SUBSET Tuple, NEW denyKnown \in BOOLEAN
  PROVE  /\ Cause(pc, unknown, denyKnown) \in Causes \cup {"none"}
         /\ facts.context /\ ~facts.deny => Cause(pc, unknown, denyKnown) = "DenyUnproven"
<1>1. facts.context \in BOOLEAN /\ facts.deny \in BOOLEAN
  BY DEF IInv, TypeOK, Worlds
<1> QED
  BY <1>1 DEF Cause, Causes

LEMMA InspectStep == ASSUME IInv, Inspect PROVE IInv'
<1>1. /\ pc \in Inspections /\ pc \in Running
      /\ UNCHANGED <<present, facts, changes, journal, touched, journal_may_exist,
                      mutation_attempted, records, dropped, failed, reported>>
  BY DEF Inspect, Inspections, flags, machine, buffer, Running, BeforeIntent,
         BeforeStop, AfterStop
<1>2. snapshot' \in {snapshot, <<present, facts>>}
  BY DEF Inspect
<1>3. verdict = "none" /\ verdict' \in {"none", "AssessDeny", "AssessState"}
  BY <1>1 DEF IInv, ProgressInv, Inspect, Fail, Proceed, PreMutation
<1>4. \/ pc' = Following(pc) /\ verdict' = "none"
      \/ mutation_attempted /\ pc' = "Teardown" /\ verdict' = "none"
      \/ ~mutation_attempted /\ pc' = "Record" /\ verdict' # "none"
  BY <1>1, <1>3 DEF Inspect, Fail, Proceed, AfterFailure, PreMutation, IInv, TypeOK, flags
<1>5. cause' \in Causes \cup {"none"}
  <2>1. CASE Fail("AdapterFailed")
    BY <2>1 DEF Fail, Causes
  <2>2. ASSUME NEW unknown \in SUBSET Tuple, NEW denyKnown \in BOOLEAN,
               IF Cause(pc, unknown, denyKnown) = "none" THEN Proceed
               ELSE Fail(Cause(pc, unknown, denyKnown))
        PROVE  cause' \in Causes \cup {"none"}
    BY <2>2, CauseListed DEF Fail, Proceed, IInv, TypeOK
  <2> QED
    BY <2>1, <2>2 DEF Inspect
<1>6. TypeOK'
  <2>1. pc' \in Stages \cup {"idle", "Teardown", "TeardownInspection", "Record"}
    BY <1>1, <1>4, FollowingStage, StagesListed DEF Inspections
  <2> QED
    BY <1>1, <1>2, <1>3, <1>5, <2>1 DEF IInv, TypeOK, Verdicts, flags
<1>7. ProgressInv'
  BY <1>1, <1>3, <1>4, FollowingStage
     DEF IInv, ProgressInv, Inspections, BeforeIntent, BeforeStop, AfterStop, Running
<1>8. EvidenceInv'
  <2> SUFFICES ASSUME pc' = "RecordObservation"
               PROVE  (Gone(Tuple, snapshot) /\ snapshot[2].deny /\ snapshot[2].context)'
    BY DEF EvidenceInv
  <2>1. pc = "FinalInspection"
    BY <1>1, <1>4, FollowingStage DEF Inspections
  <2>2. PICK unknown \in SUBSET Tuple, denyKnown \in BOOLEAN :
          Cause(pc, unknown, denyKnown) = "none" /\ snapshot' = <<present, facts>>
    BY DEF Inspect, Fail, AfterFailure
  <2>3. RequiredAbsent(pc) = Tuple
    BY <2>1 DEF RequiredAbsent
  <2> QED
    BY <2>2, <2>3, AcceptedInspection DEF Gone
<1>9. Accounted' /\ BufferInv' /\ VerdictTruthful'
  BY <1>1, <1>3 DEF IInv, Accounted, BufferInv, VerdictTruthful
<1>10. ContainedOnceTouched'
  BY <1>1, <1>4, FollowingStage
     DEF IInv, ProgressInv, TypeOK, ContainedOnceTouched, Inspections
<1>11. DenyNotMasked'
  <2> SUFFICES ASSUME verdict' = "AssessState", cause' # "AdapterFailed"
               PROVE  snapshot'[2].deny \/ ~snapshot'[2].context
    BY DEF DenyNotMasked
  <2>1. PICK unknown \in SUBSET Tuple, denyKnown \in BOOLEAN :
          /\ cause' = Cause(pc, unknown, denyKnown) /\ cause' # "DenyUnproven"
          /\ snapshot' = <<present, facts>>
    BY <1>3 DEF Inspect, Fail, Proceed, PreMutation
  <2> QED
    BY <2>1, CauseListed
<1> QED
  BY <1>6, <1>7, <1>8, <1>9, <1>10, <1>11 DEF IInv

\* A step of the program other than an inspection: it keeps the buffer and the
\* snapshot, and fails or proceeds.
LEMMA CallStep ==
  ASSUME IInv, RecordIntent \/ StopTransport \/ RemoveException \/ ClearEstablished
  PROVE  IInv'
<1>1. /\ UNCHANGED <<facts, changes, snapshot, records, dropped, failed, reported>>
      /\ pc \in {"RecordIntent", "StopTransport", "RemoveException", "ClearEstablished"}
      /\ verdict = "none"
  BY DEF RecordIntent, StopTransport, RemoveException, ClearEstablished, Remove,
         machine, buffer, IInv, ProgressInv, Running, BeforeIntent, BeforeStop, AfterStop
<1>2. \/ pc' = Following(pc) /\ verdict' = "none" /\ cause' = cause
      \/ mutation_attempted' /\ pc' = "Teardown" /\ verdict' = "none"
         /\ cause' = "AdapterFailed"
      \/ ~mutation_attempted' /\ pc' = "Record" /\ verdict' = "AssessState"
         /\ cause' = "AdapterFailed"
  BY <1>1 DEF RecordIntent, StopTransport, RemoveException, ClearEstablished, Remove,
              Fail, Proceed, AfterFailure, PreMutation
<1>3. present' \in [Owned -> BOOLEAN]
  BY DEF IInv, TypeOK, Worlds, RecordIntent, StopTransport, RemoveException,
         ClearEstablished, Remove, machine
<1>4. /\ pc = "RecordIntent" =>
           /\ journal_may_exist' /\ ~mutation_attempted' /\ ~touched'
           /\ journal' \in {"none", "partial", "complete"}
           /\ pc' = Following(pc) => journal' = "complete"
      /\ pc # "RecordIntent" =>
           /\ journal' = "complete" /\ journal_may_exist' /\ mutation_attempted'
           /\ touched' \in BOOLEAN
  <2>1. CASE RecordIntent
    <3>1. pc = "RecordIntent" /\ ~touched /\ ~mutation_attempted
      BY <2>1 DEF RecordIntent, IInv, ProgressInv, BeforeIntent
    <3>2. pc' = Following(pc) => ~Fail("AdapterFailed")
      BY <3>1, FollowingStage DEF Fail, AfterFailure
    <3> QED
      BY <2>1, <3>1, <3>2 DEF RecordIntent
  <2>2. CASE StopTransport \/ RemoveException \/ ClearEstablished
    <3>1. /\ pc \in BeforeStop \cup AfterStop /\ pc # "RecordIntent"
          /\ journal = "complete" /\ journal_may_exist
      BY <2>2 DEF StopTransport, RemoveException, ClearEstablished, IInv, ProgressInv,
                  BeforeStop, AfterStop
    <3>2. journal' = journal /\ journal_may_exist' = journal_may_exist
      BY <2>2 DEF StopTransport, RemoveException, ClearEstablished, Remove
    <3>3. mutation_attempted'
      BY <2>2 DEF StopTransport, RemoveException, ClearEstablished, IInv, ProgressInv,
                  AfterStop
    <3>4. touched' \in BOOLEAN
      BY <2>2 DEF StopTransport, RemoveException, ClearEstablished, Remove, IInv, TypeOK
    <3> QED
      BY <3>1, <3>2, <3>3, <3>4
  <2> QED
    BY <2>1, <2>2
<1>5. pc' \in {"PreStopInspection", "TransportInspection", "ExceptionInspection",
               "FinalInspection", "Teardown", "Record"}
  BY <1>1, <1>2, FollowingStage
<1>6. /\ touched' \in BOOLEAN
      /\ journal_may_exist' \in BOOLEAN /\ mutation_attempted' \in BOOLEAN
  <2>1. touched' \in BOOLEAN
    BY DEF RecordIntent, StopTransport, RemoveException, ClearEstablished, Remove, IInv, TypeOK
  <2>2. journal_may_exist' \in BOOLEAN
    BY DEF RecordIntent, StopTransport, RemoveException, ClearEstablished, Remove, IInv, TypeOK
  <2>3. mutation_attempted' \in BOOLEAN
    BY DEF RecordIntent, StopTransport, RemoveException, ClearEstablished, Remove, IInv, TypeOK
  <2> QED
    BY <2>1, <2>2, <2>3
<1>7. TypeOK'
  <2>1. <<present, facts>>' \in Worlds /\ snapshot' \in Worlds
    BY <1>1, <1>3 DEF IInv, TypeOK, Worlds
  <2>2. pc' \in Stages \cup {"idle", "Teardown", "TeardownInspection", "Record"}
    BY <1>5, StagesListed
  <2>3. cause' \in Causes \cup {"none"} /\ verdict' \in Verdicts
    BY <1>2 DEF IInv, TypeOK, Causes, Verdicts
  <2>4. journal' \in {"none", "partial", "complete"}
    BY <1>4
  <2> QED
    BY <1>1, <1>6, <2>1, <2>2, <2>3, <2>4 DEF IInv, TypeOK
<1>8. ProgressInv'
  BY <1>1, <1>2, <1>4, FollowingStage
     DEF ProgressInv, BeforeIntent, BeforeStop, AfterStop, Running
<1>9. EvidenceInv' /\ Accounted' /\ BufferInv' /\ VerdictTruthful' /\ DenyNotMasked'
  BY <1>1, <1>2, <1>5 DEF IInv, EvidenceInv, Accounted, BufferInv, VerdictTruthful, DenyNotMasked
<1>10. ContainedOnceTouched'
  BY <1>1, <1>2, <1>4, <1>5, FollowingStage DEF ContainedOnceTouched
<1> QED
  BY <1>7, <1>8, <1>9, <1>10 DEF IInv

LEMMA RecordObservationStep == ASSUME IInv, RecordObservation PROVE IInv'
<1>1. /\ UNCHANGED <<present, facts, changes, journal, touched, snapshot,
                      journal_may_exist, mutation_attempted,
                      records, dropped, failed, reported>>
      /\ pc = "RecordObservation" /\ mutation_attempted
      /\ \/ pc' = "idle" /\ verdict' = "Observed" /\ cause' = cause
         \/ pc' = "Teardown" /\ verdict' = "none" /\ cause' = "AdapterFailed"
  BY DEF RecordObservation, machine, flags, buffer, Fail, AfterFailure, IInv,
         ProgressInv, AfterStop
<1>2. TypeOK'
  BY <1>1 DEF IInv, TypeOK, Causes, Verdicts
<1>3. ProgressInv'
  BY <1>1 DEF IInv, ProgressInv, BeforeIntent, BeforeStop, AfterStop, Running
<1>4. EvidenceInv' /\ Accounted' /\ BufferInv' /\ DenyNotMasked' /\ ContainedOnceTouched'
  BY <1>1 DEF IInv, EvidenceInv, Accounted, BufferInv, DenyNotMasked, ContainedOnceTouched
<1>5. VerdictTruthful'
  BY <1>1 DEF IInv, EvidenceInv, VerdictTruthful, Gone
<1> QED
  BY <1>2, <1>3, <1>4, <1>5 DEF IInv

LEMMA TeardownStep == ASSUME IInv, Teardown PROVE IInv'
<1>1. /\ UNCHANGED <<facts, changes, journal, snapshot, journal_may_exist,
                      mutation_attempted, cause, records, dropped, failed, reported>>
      /\ pc = "Teardown" /\ verdict = "none"
      /\ \/ pc' = "TeardownInspection" /\ verdict' = "none"
         \/ pc' = "Record" /\ verdict' = "Teardown"
      /\ journal = "complete" /\ mutation_attempted /\ journal_may_exist
  BY DEF Teardown, Conclude, flags, buffer, IInv, ProgressInv, AfterStop, Running
<1>2. present' \in [Owned -> BOOLEAN] /\ touched' \in BOOLEAN
  BY DEF Teardown, IInv, TypeOK, Worlds
<1>3. TypeOK'
  <2>1. <<present, facts>>' \in Worlds
    BY <1>1, <1>2 DEF IInv, TypeOK, Worlds
  <2>2. verdict' \in Verdicts
    BY <1>1 DEF Verdicts, ContainmentCauses
  <2> QED
    BY <1>1, <1>2, <2>1, <2>2 DEF IInv, TypeOK
<1>4. ProgressInv'
  BY <1>1 DEF ProgressInv, BeforeIntent, BeforeStop, AfterStop, Running
<1>5. EvidenceInv' /\ Accounted' /\ BufferInv' /\ DenyNotMasked' /\ VerdictTruthful'
  BY <1>1 DEF IInv, EvidenceInv, Accounted, BufferInv, DenyNotMasked, VerdictTruthful
<1>6. ContainedOnceTouched'
  BY <1>1 DEF ContainedOnceTouched, ContainmentCauses
<1> QED
  BY <1>3, <1>4, <1>5, <1>6 DEF IInv

\* The verdicts after a teardown, and what the favourable one has seen.
LEMMA ContainedVerdict ==
  ASSUME IInv, NEW unknown \in SUBSET Owned, NEW denyKnown \in BOOLEAN
  PROVE  /\ Contained(unknown, denyKnown) \in ContainmentCauses \cup {"TeardownObserved"}
         /\ Contained(unknown, denyKnown) = "TeardownObserved" =>
              Gone(Owned, <<present, facts>>) /\ facts.deny /\ facts.owner
<1>1. facts.owner \in BOOLEAN /\ facts.deny \in BOOLEAN
  BY DEF IInv, TypeOK, Worlds
<1> QED
  BY <1>1 DEF Contained, ContainmentCauses, Gone

LEMMA TeardownInspectionStep == ASSUME IInv, TeardownInspection PROVE IInv'
<1>1. /\ UNCHANGED <<present, facts, changes, journal, touched, journal_may_exist,
                      mutation_attempted, cause, records, dropped, failed, reported>>
      /\ pc = "TeardownInspection" /\ pc' = "Record"
  BY DEF TeardownInspection, Conclude, machine, flags, buffer
<1>2. /\ verdict' \in ContainmentCauses \cup {"TeardownObserved"}
      /\ snapshot' \in Worlds
      /\ verdict' = "TeardownObserved" =>
           Gone(Owned, snapshot') /\ snapshot'[2].deny /\ snapshot'[2].owner
  <2>1. CASE Conclude("Inspection") /\ UNCHANGED snapshot
    BY <2>1 DEF Conclude, ContainmentCauses, IInv, TypeOK
  <2>2. ASSUME NEW unknown \in SUBSET Owned, NEW denyKnown \in BOOLEAN,
               verdict' = Contained(unknown, denyKnown), snapshot' = <<present, facts>>
        PROVE  /\ verdict' \in ContainmentCauses \cup {"TeardownObserved"}
               /\ snapshot' \in Worlds
               /\ verdict' = "TeardownObserved" =>
                    Gone(Owned, snapshot') /\ snapshot'[2].deny /\ snapshot'[2].owner
    BY <2>2, ContainedVerdict DEF IInv, TypeOK
  <2> QED
    BY <2>1, <2>2 DEF TeardownInspection, Conclude
<1>3. TypeOK'
  BY <1>1, <1>2 DEF IInv, TypeOK, Verdicts
<1>4. ProgressInv'
  BY <1>1 DEF IInv, ProgressInv, BeforeIntent, BeforeStop, AfterStop, Running
<1>5. EvidenceInv' /\ Accounted' /\ BufferInv' /\ DenyNotMasked' /\ ContainedOnceTouched'
  BY <1>1, <1>2
     DEF IInv, EvidenceInv, Accounted, BufferInv, DenyNotMasked, ContainedOnceTouched, ContainmentCauses
<1>6. VerdictTruthful'
  BY <1>2 DEF VerdictTruthful, ContainmentCauses
<1> QED
  BY <1>3, <1>4, <1>5, <1>6 DEF IInv

\* A failure is recorded in full, counted, or reported: the numbers stay in order.
LEMMA RecordStep == ASSUME IInv, Record PROVE IInv'
<1>1. /\ UNCHANGED <<present, facts, changes, journal, touched, snapshot,
                      journal_may_exist, mutation_attempted, cause, verdict>>
      /\ pc = "Record" /\ pc' = "idle" /\ failed' = failed + 1
  BY DEF Record, machine, flags
<1>2. /\ records' \in Seq(Nat) /\ Len(records') <= Capacity
      /\ dropped' \in 0..MaxDropped /\ failed' \in Nat /\ reported' \in Nat
      /\ Accounted' /\ BufferInv'
  <2>1. /\ records \in Seq(Nat) /\ Len(records) <= Capacity /\ Len(records) \in Nat
        /\ dropped \in 0..MaxDropped /\ failed \in Nat /\ reported \in Nat
        /\ Capacity \in Nat \ {0} /\ MaxDropped \in Nat
        /\ failed = Len(records) + dropped + reported
        /\ \A i \in 1..Len(records) : records[i] = dropped + i
        /\ dropped > 0 => Len(records) = Capacity
        /\ reported > 0 => Len(records) = Capacity /\ dropped = MaxDropped
    BY BufferAssumption DEF IInv, TypeOK, Accounted, BufferInv
  <2>2. CASE Len(records) = Capacity /\ dropped = MaxDropped
    BY <1>1, <2>1, <2>2 DEF Record, Accounted, BufferInv
  <2>3. CASE Len(records) = Capacity /\ dropped # MaxDropped
    <3>1. /\ records' = Append(Tail(records), failed + 1) /\ dropped' = dropped + 1
          /\ reported' = reported /\ reported = 0
      BY <1>1, <2>1, <2>3 DEF Record
    <3>2. /\ Tail(records) \in Seq(Nat) /\ Len(Tail(records)) = Capacity - 1
          /\ \A i \in 1..(Capacity - 1) : Tail(records)[i] = dropped + 1 + i
      BY <2>1, <2>3
    <3>3. /\ records' \in Seq(Nat) /\ Len(records') = Capacity
          /\ \A i \in 1..(Capacity - 1) : records'[i] = Tail(records)[i]
          /\ records'[Capacity] = failed + 1
      <4> DEFINE kept == Tail(records)
      <4>1. kept \in Seq(Nat) /\ Len(kept) = Capacity - 1
        BY <3>2
      <4>2. records' = Append(kept, failed + 1) /\ failed + 1 \in Nat
        BY <2>1, <3>1
      <4>3. Capacity \in Nat /\ Capacity - 1 \in Nat
        BY <2>1
      <4> HIDE DEF kept
      <4>4. /\ records' \in Seq(Nat) /\ Len(records') = Capacity
            /\ \A i \in 1..(Capacity - 1) : records'[i] = kept[i]
            /\ records'[Capacity] = failed + 1
        BY <4>1, <4>2, <4>3
      <4> QED
        BY <4>4 DEF kept
    <3>4. \A i \in 1..Capacity : records'[i] = dropped' + i
      <4>1. failed = Capacity + dropped
        BY <2>1, <2>3, <3>1
      <4>2. ASSUME NEW i \in 1..Capacity, i # Capacity PROVE records'[i] = dropped' + i
        <5>1. i \in 1..(Capacity - 1)
          BY <2>1, <4>2
        <5>2. records'[i] = dropped + 1 + i
          BY <3>2, <3>3, <5>1
        <5> QED
          BY <2>1, <3>1, <5>1, <5>2
      <4>3. records'[Capacity] = dropped' + Capacity
        <5>1. records'[Capacity] = failed + 1
          BY <3>3
        <5>2. dropped' = dropped + 1 /\ dropped \in Nat /\ Capacity \in Nat
          BY <2>1, <3>1
        <5> QED
          BY <4>1, <5>1, <5>2
      <4> QED
        BY <4>2, <4>3
    <3> QED
      BY <1>1, <2>1, <2>3, <3>1, <3>3, <3>4 DEF Accounted, BufferInv
  <2>4. CASE Len(records) # Capacity
    <3>1. /\ records' = Append(records, failed + 1) /\ dropped' = dropped
          /\ reported' = reported /\ dropped = 0 /\ reported = 0
      BY <1>1, <2>1, <2>4 DEF Record
    <3>2. failed = Len(records) /\ Len(records) < Capacity
      BY <2>1, <2>4, <3>1
    <3>3. /\ records' \in Seq(Nat) /\ Len(records') = Len(records) + 1
          /\ \A i \in 1..Len(records) : records'[i] = records[i]
          /\ records'[Len(records) + 1] = failed + 1
      BY <2>1, <3>1
    <3>4. \A i \in 1..Len(records') : records'[i] = dropped' + i
      BY <2>1, <3>1, <3>2, <3>3
    <3>5. Accounted'
      BY <1>1, <2>1, <3>1, <3>2, <3>3, <3>4 DEF Accounted
    <3>6. BufferInv'
      BY <3>1 DEF BufferInv
    <3> QED
      BY <1>1, <2>1, <3>1, <3>2, <3>3, <3>5, <3>6
  <2> QED
    BY <2>2, <2>3, <2>4
<1>3. TypeOK'
  BY <1>1, <1>2 DEF IInv, TypeOK
<1>4. ProgressInv'
  BY <1>1 DEF IInv, ProgressInv, BeforeIntent, BeforeStop, AfterStop, Running
<1>5. EvidenceInv' /\ DenyNotMasked' /\ ContainedOnceTouched' /\ VerdictTruthful'
  BY <1>1 DEF IInv, EvidenceInv, DenyNotMasked, ContainedOnceTouched, VerdictTruthful
<1> QED
  BY <1>2, <1>3, <1>4, <1>5 DEF IInv

\* A cleared buffer, and an operation a callback's panic cuts off.
LEMMA ClearStep == ASSUME IInv, Clear PROVE IInv'
<1>1. /\ UNCHANGED <<present, facts, changes, journal, touched, snapshot, pc,
                      journal_may_exist, mutation_attempted, cause, verdict>>
      /\ records' = <<>> /\ dropped' = 0 /\ failed' = 0 /\ reported' = 0
  BY DEF Clear, machine, flags
<1>2. records' \in Seq(Nat) /\ Len(records') = 0
  BY <1>1
<1>3. TypeOK'
  BY <1>1, <1>2, BufferAssumption DEF IInv, TypeOK
<1>4. ProgressInv' /\ EvidenceInv'
  BY <1>1 DEF IInv, ProgressInv, EvidenceInv
<1>5. Accounted' /\ BufferInv'
  BY <1>1, <1>2 DEF Accounted, BufferInv
<1>6. DenyNotMasked' /\ ContainedOnceTouched' /\ VerdictTruthful'
  BY <1>1 DEF IInv, DenyNotMasked, ContainedOnceTouched, VerdictTruthful
<1> QED
  BY <1>3, <1>4, <1>5, <1>6 DEF IInv

LEMMA PanicStep == ASSUME IInv, Panic PROVE IInv'
<1>1. /\ UNCHANGED <<present, facts, changes, journal, touched, snapshot,
                      journal_may_exist, mutation_attempted, cause, verdict,
                      records, dropped, failed, reported>>
      /\ pc' = "idle"
  BY DEF Panic, machine, flags, buffer
<1>2. TypeOK'
  BY <1>1 DEF IInv, TypeOK
<1>3. ProgressInv'
  BY <1>1 DEF IInv, ProgressInv, BeforeIntent, BeforeStop, AfterStop, Running
<1>4. EvidenceInv' /\ Accounted' /\ BufferInv' /\ DenyNotMasked'
      /\ ContainedOnceTouched' /\ VerdictTruthful'
  BY <1>1 DEF IInv, EvidenceInv, Accounted, BufferInv, DenyNotMasked,
              ContainedOnceTouched, VerdictTruthful
<1> QED
  BY <1>2, <1>3, <1>4 DEF IInv

LEMMA NextStep == ASSUME IInv, [Next]_vars PROVE IInv'
<1>1. CASE UNCHANGED vars
  <2>1. UNCHANGED <<present, facts, changes, journal, touched, snapshot, pc,
                    journal_may_exist, mutation_attempted, cause, verdict,
                    records, dropped, failed, reported>>
    BY <1>1 DEF vars, machine, flags, buffer
  <2>2. TypeOK'
    BY <2>1 DEF IInv, TypeOK
  <2>3. ProgressInv' /\ EvidenceInv' /\ Accounted' /\ BufferInv' /\ DenyNotMasked'
        /\ ContainedOnceTouched' /\ VerdictTruthful'
    BY <2>1 DEF IInv, ProgressInv, EvidenceInv, Accounted, BufferInv, DenyNotMasked,
                ContainedOnceTouched, VerdictTruthful
  <2> QED
    BY <2>2, <2>3 DEF IInv
<1>2. CASE Next
  BY <1>2, ExecuteStep, InspectStep, CallStep, RecordObservationStep, TeardownStep,
     TeardownInspectionStep, RecordStep, ClearStep, EnvironmentStep, PanicStep
     DEF Next, Run
<1> QED
  BY <1>1, <1>2

-----------------------------------------------------------------------------
\* Theorems.

LEMMA InvariantHolds == Spec => []IInv
<1>1. IInv /\ [Next]_vars => IInv'
  BY NextStep
<1> QED
  BY InitInv, <1>1, PTL DEF Spec

\* The state keeps its shape.
THEOREM TypeCorrect == Spec => []TypeOK
<1>1. IInv => TypeOK
  BY DEF IInv
<1> QED
  BY InvariantHolds, <1>1, PTL

\* A verdict of success, of the revocation or of the teardown, was true of the
\* machine at one moment.
THEOREM VerdictHolds == Spec => []VerdictTruthful
<1>1. IInv => VerdictTruthful
  BY DEF IInv
<1> QED
  BY InvariantHolds, <1>1, PTL

\* The durable intent precedes every change of the machine.
THEOREM IntentFirst == Spec => []IntentBeforeMutation
<1>1. IInv => IntentBeforeMutation
  BY DEF IInv, ProgressInv, IntentBeforeMutation
<1> QED
  BY InvariantHolds, <1>1, PTL

\* A failure that is returned once the machine was touched was contained, and
\* its flags never under-report.
THEOREM ContainmentHolds == Spec => [](ContainedOnceTouched /\ FlagsTruthful)
<1>1. IInv => ContainedOnceTouched /\ FlagsTruthful
  BY DEF IInv, ProgressInv, FlagsTruthful
<1> QED
  BY InvariantHolds, <1>1, PTL

\* That an inspection saw the deny rule gone is reported as such, whatever else it
\* could not tell.
THEOREM DenyHolds == Spec => []DenyNotMasked
<1>1. IInv => DenyNotMasked
  BY DEF IInv
<1> QED
  BY InvariantHolds, <1>1, PTL

\* No failure is lost without being counted or reported, for every capacity and
\* every width of the counter.
THEOREM NothingLost == Spec => []Accounted
<1>1. IInv => Accounted
  BY DEF IInv
<1> QED
  BY InvariantHolds, <1>1, PTL
=============================================================================
