----------------------------- MODULE RulesProofs -----------------------------
(***************************************************************************)
(* The rules that are pure functions, for every input and not only for     *)
(* those MCRules hands out: the messages of client and helper, the kill    *)
(* switch's allow list and split tunnelling, share links and profiles, the *)
(* engine catalog, and plans with their rollback.                          *)
(*                                                                         *)
(* Each part proves what an accepted input promises with the input as a    *)
(* variable of the theorem, bounded by nothing but the type of its fields. *)
(* The last part shows that every input of MCRules has that type (Asks),   *)
(* so that the invariants the run checks are instances of the theorems.    *)
(***************************************************************************)
EXTENDS MCRules, SequenceTheorems, FiniteSetTheorems, WellFoundedInduction, TLAPS

-----------------------------------------------------------------------------
(* Client and helper.  Text and Lists stand for any identifiers and lists. *)

\* A client's hello, a message it wants to send, and a state it can be in.
AnyCore(Lists) ==
  [min_supported_protocol_version : Nat, protocol_version : Nat, required_capabilities : Lists]
AnyIntent(Text, Lists) ==
  [type : {"Connect"}, correlation_id : Text, required_capabilities : Lists, bytes : Nat]
  \union [type : {"Disconnect", "Recover"}, correlation_id : Text, bytes : Nat]
  \union [type : {"Status"}, bytes : Nat]
AnyState(Text) ==
  {s \in [at : Contract!Active \union {"Disconnected", "Failed"}, id : Text] :
     s.at \in Contract!Active => Contract!IsIdentifier(s.id)}

\* The session of a client whose hello was admitted.
Greeted(session_id) ==
  [helper |-> Contract!default_helper_hello, session_id |-> session_id, last_sequence |-> 0]

\* Whoever is admitted gets that session, after its hello was understood.
LEMMA Admission ==
  ASSUME NEW core, NEW session_id,
         Contract!admit(501, 501, TRUE, core, Contract!default_helper_hello, session_id)
           # Contract!Refused
  PROVE  /\ Contract!admit(501, 501, TRUE, core, Contract!default_helper_hello, session_id)
              = Greeted(session_id)
         /\ Contract!validate_helper_handshake(core, Contract!default_helper_hello)
         /\ Contract!IsIdentifier(session_id)
  BY DEF Contract!admit, Greeted, Contract!validate_helper_runtime_session_id

\* The command an intent becomes carries what the intent carries.
LEMMA CommandOf ==
  ASSUME NEW Text, NEW Lists, NEW intent \in AnyIntent(Text, Lists)
  PROVE  LET command == Contract!into_command(intent) IN
         /\ command.type = (IF intent.type = "Connect" THEN "PrepareTunnel" ELSE intent.type)
         /\ command.bytes = intent.bytes
         /\ intent.type # "Status" => command.correlation_id = intent.correlation_id
         /\ intent.type = "Connect" =>
              command.required_capabilities = intent.required_capabilities
<1>1. CASE intent.type = "Connect"
  BY <1>1 DEF AnyIntent, Contract!into_command
<1>2. CASE intent.type = "Status"
  BY <1>2 DEF AnyIntent, Contract!into_command
<1>3. CASE intent.type \in {"Disconnect", "Recover"}
  BY <1>3 DEF AnyIntent, Contract!into_command
<1> QED
  BY <1>1, <1>2, <1>3 DEF AnyIntent

\* The state a client is in once it sends an intent.
LEMMA NextStates ==
  ASSUME NEW Text, NEW Lists, NEW state \in AnyState(Text), NEW intent \in AnyIntent(Text, Lists),
         Contract!next_state_for_intent(state, intent) # Contract!Refused
  PROVE  LET next == Contract!next_state_for_intent(state, intent) IN
         /\ intent.type = "Status" => next = state
         /\ intent.type = "Connect" => next = [at |-> "Connecting", id |-> intent.correlation_id]
         /\ intent.type = "Disconnect" =>
              next = [at |-> "Disconnecting", id |-> intent.correlation_id]
         /\ intent.type = "Recover" => next = [at |-> "Recovering", id |-> intent.correlation_id]
<1>1. intent.type \in {"Connect", "Disconnect", "Recover", "Status"}
  BY DEF AnyIntent
<1> QED
  BY <1>1 DEF Contract!next_state_for_intent

\* What is sent was valid, and belongs to the state the client goes to.
LEMMA SentIs ==
  ASSUME NEW Text, NEW Lists, NEW state \in AnyState(Text), NEW intent \in AnyIntent(Text, Lists),
         NEW helper,
         Contract!execute(state, intent, helper) # Contract!Refused
  PROVE  LET sent == Contract!execute(state, intent, helper) IN
         /\ Contract!next_state_for_intent(state, intent) # Contract!Refused
         /\ Contract!validate_helper_command(Contract!into_command(intent), helper)
         /\ sent.state = Contract!next_state_for_intent(state, intent)
         /\ sent.command = Contract!into_command(intent)
  BY DEF Contract!execute

\* The state a client is in after a command it sent, and the answer it then gets.
LEMMA Observing ==
  ASSUME NEW at, NEW observed, NEW to, NEW id,
         <<at, observed, to>> \in {<<"Connecting", "Preparing", "Connecting">>,
           <<"Disconnecting", "Idle", "Disconnected">>, <<"Recovering", "Recovering", "Recovering">>}
  PROVE  LET next == Contract!next_state_for_observed([at |-> at, id |-> id], observed, id) IN
         next # Contract!Refused /\ next.at = to
<1> DEFINE found == {o \in Contract!Observations : o[1] = at /\ o[2] = observed}
<1>1. found = {<<at, observed, to>>}
  <2>1. <<at, observed, to>> \in found
    BY DEF Contract!Observations
  <2>2. ASSUME NEW o \in found PROVE o = <<at, observed, to>>
    BY DEF Contract!Observations, Contract!Active
  <2> QED
    BY <2>1, <2>2
<1>2. (CHOOSE o \in found : TRUE)[3] = to
  <2>1. (CHOOSE o \in found : TRUE) = <<at, observed, to>>
    BY <1>1
  <2> HIDE DEF found
  <2>2. <<at, observed, to>>[3] = to
    OBVIOUS
  <2> QED
    BY <2>1, <2>2, Zenon
<1>3. Contract!next_state_for_observed([at |-> at, id |-> id], observed, id)
        = [at |-> to, id |-> IF to \in Contract!Active THEN id ELSE Contract!Absent]
  BY <1>1, <1>2 DEF Contract!next_state_for_observed
<1> QED
  BY <1>3 DEF Contract!Refused

\* A session in force, and one message of its client.
LEMMA InSession ==
  ASSUME NEW Text, NEW Lists, NEW core \in AnyCore(Lists), NEW session_id,
         NEW state \in AnyState(Text), NEW intent \in AnyIntent(Text, Lists),
         NEW session, session = Greeted(session_id),
         Contract!validate_helper_handshake(core, Contract!default_helper_hello),
         Contract!IsIdentifier(session_id)
  PROVE  /\ Contract!Served(session, core, state, intent)
         /\ Contract!execute(state, intent, session.helper) # Contract!Refused =>
              /\ Contract!Accepted(session, Contract!execute(state, intent, session.helper))
              /\ Contract!Answered(session, Contract!execute(state, intent, session.helper))
<1> DEFINE hello == Contract!default_helper_hello
           sent == Contract!execute(state, intent, session.helper)
           command == Contract!into_command(intent)
<1>1. Contract!validate_helper_handshake(core, hello) /\ Contract!IsIdentifier(session_id)
  OBVIOUS
<1>2. session.helper = hello /\ session.session_id = session_id /\ session.last_sequence = 0
  BY DEF Greeted
<1> HIDE DEF hello
<1>3. Contract!Served(session, core, state, intent)
  <2> SUFFICES ASSUME intent.type = "Connect",
                      Contract!next_state_for_intent(state, intent) # Contract!Refused,
                      intent.required_capabilities = core.required_capabilities,
                      Contract!IsIdentifier(intent.correlation_id), Contract!FitsMessage(intent)
               PROVE  Contract!execute(state, intent, hello) # Contract!Refused
    BY <1>2 DEF Contract!Served
  <2>1. Contract!validate_helper_command(command, hello)
    BY <1>1, CommandOf DEF Contract!validate_helper_command, Contract!FitsMessage,
       Contract!validate_correlation_id, Contract!validate_required_capabilities,
       Contract!validate_helper_handshake
  <2> QED
    BY <2>1 DEF Contract!execute, Contract!Refused
<1>4. ASSUME sent # Contract!Refused
      PROVE  Contract!Accepted(session, sent) /\ Contract!Answered(session, sent)
  <2>1. /\ Contract!next_state_for_intent(state, intent) # Contract!Refused
        /\ Contract!validate_helper_command(command, hello)
        /\ sent.state = Contract!next_state_for_intent(state, intent)
        /\ sent.command = command
    BY <1>2, <1>4, SentIs
  <2> HIDE DEF sent
  <2>2. /\ command.type \in {"PrepareTunnel", "Disconnect", "Recover", "Status"}
        /\ command.type = "PrepareTunnel" <=> intent.type = "Connect"
        /\ intent.type # "Connect" => command.type = intent.type
        /\ intent.type # "Status" => command.correlation_id = intent.correlation_id
    BY CommandOf DEF AnyIntent
  <2> HIDE DEF command
  <2>3. /\ command.type = "Status" => sent.state = state
        /\ command.type = "PrepareTunnel" =>
             sent.state = [at |-> "Connecting", id |-> command.correlation_id]
        /\ command.type = "Disconnect" =>
             sent.state = [at |-> "Disconnecting", id |-> command.correlation_id]
        /\ command.type = "Recover" =>
             sent.state = [at |-> "Recovering", id |-> command.correlation_id]
    BY <2>1, <2>2, NextStates
  <2>4. Contract!Accepted(session, sent)
    <3> SUFFICES ASSUME command.type \in Contract!Mutating \/ sent.state.at \in Contract!Active
                 PROVE  Contract!accept_command(session, TRUE,
                          Contract!Enveloped(session, session.last_sequence + 1, sent))
      BY <2>1 DEF Contract!Accepted
    <3>1. Contract!IsIdentifier(sent.state.id)
      <4>1. CASE command.type = "Status"
        BY <2>3, <4>1 DEF AnyState, Contract!Mutating
      <4>2. CASE command.type # "Status"
        BY <2>1, <2>2, <2>3, <4>2 DEF Contract!validate_helper_command, Contract!Mutating,
           Contract!validate_correlation_id
      <4> QED
        BY <4>1, <4>2
    <3> QED
      BY <1>1, <1>2, <2>1, <2>2, <3>1 DEF Contract!accept_command, Contract!Enveloped,
         Contract!validate_helper_runtime_envelope, Contract!validate_helper_runtime_session_id,
         Contract!validate_correlation_id
  <2>5. Contract!Answered(session, sent)
    <3> DEFINE answer == Contract!handle_command(session.helper, sent.command)
    <3>1. /\ answer.event = "Status"
          /\ answer.observed_state = IF command.type = "PrepareTunnel" THEN "Preparing"
                                     ELSE IF command.type = "Recover" THEN "Recovering" ELSE "Idle"
      BY <1>2, <2>1, <2>2 DEF Contract!handle_command
    <3> HIDE DEF answer
    <3> DEFINE next ==
          Contract!next_state_for_observed(sent.state, answer.observed_state, sent.state.id)
    <3>2. ASSUME command.type \in Contract!Mutating
          PROVE  next # Contract!Refused /\ next.at \notin {"Connected", "Failed"}
      <4>1. CASE command.type = "PrepareTunnel"
        BY <2>3, <3>1, <4>1, Observing
      <4>2. CASE command.type = "Disconnect"
        BY <2>3, <3>1, <4>2, Observing
      <4>3. CASE command.type = "Recover"
        BY <2>3, <3>1, <4>3, Observing
      <4> QED
        BY <3>2, <4>1, <4>2, <4>3 DEF Contract!Mutating
    <3> QED
      BY <2>1, <3>1, <3>2 DEF Contract!Answered, answer
  <2> QED
    BY <2>4, <2>5
<1> QED
  BY <1>3, <1>4

\* What a client that was admitted sends, the helper accepts and answers in a way
\* that fits the client's state, and it serves what the hello agreed on, for any
\* hello, state and message (platform_contract.rs, connection.rs).
THEOREM MessagesUnderstood ==
  ASSUME NEW Text, NEW Lists, NEW core \in AnyCore(Lists), NEW session_id,
         NEW state \in AnyState(Text), NEW intent \in AnyIntent(Text, Lists)
  PROVE  Contract!Understood(core, session_id, state, intent)
<1> DEFINE hello == Contract!default_helper_hello
           session == Greeted(session_id)
           sent == Contract!execute(state, intent, session.helper)
           admissible == /\ Contract!validate_helper_handshake(core, hello)
                         /\ Contract!IsIdentifier(session_id) /\ session_id # Contract!Absent
<1>1. admissible =>
        /\ Contract!Served(session, core, state, intent)
        /\ sent # Contract!Refused =>
             Contract!Accepted(session, sent) /\ Contract!Answered(session, sent)
  BY InSession
<1>2. CASE admissible
  BY <1>1, <1>2 DEF Contract!Understood, Contract!admit, Greeted,
     Contract!HelperRuntimeAdmissionPolicy, Contract!validate_helper_runtime_session_id
<1>3. CASE ~admissible
  BY <1>3 DEF Contract!Understood, Contract!admit,
     Contract!HelperRuntimeAdmissionPolicy, Contract!validate_helper_runtime_session_id
<1> QED
  BY <1>2, <1>3

\* The one-shot helper and the admission to a session accept the same hellos
\* (platform_helper.rs, helper_runtime_admission.rs).
THEOREM HandshakesAgree ==
  ASSUME NEW core, NEW session_id, session_id # Contract!Absent
  PROVE  Contract!HandshakeAgrees(core, session_id)
<1> DEFINE greeting == [type |-> "Handshake", core |-> core, bytes |-> 1]
           hello == Contract!default_helper_hello
<1>1. (Contract!run_helper_once(greeting).exit_code = "Success")
        <=> Contract!validate_helper_handshake(core, hello)
  <2>1. Contract!validate_helper_command(greeting, hello)
          <=> Contract!validate_helper_handshake(core, hello)
    BY DEF Contract!validate_helper_command, Contract!FitsMessage, Contract!Mutating,
       Contract!MAX_PLATFORM_MESSAGE_BYTES
  <2> QED
    BY <2>1 DEF Contract!run_helper_once, Contract!handle_command, Contract!CommandTypes
<1>2. CASE Contract!validate_helper_handshake(core, hello)
  <2>1. ASSUME Contract!IsIdentifier(session_id)
        PROVE  Contract!admit(501, 501, TRUE, core, hello, session_id) # Contract!Refused
    BY <1>2, <2>1 DEF Contract!admit, Contract!HelperRuntimeAdmissionPolicy, Contract!Refused,
       Contract!validate_helper_runtime_session_id, Contract!Absent
  <2> QED
    BY <1>1, <1>2, <2>1, Zenon DEF Contract!HandshakeAgrees
<1>3. CASE ~Contract!validate_helper_handshake(core, hello)
  <2>1. Contract!admit(501, 501, TRUE, core, hello, session_id) = Contract!Refused
    BY <1>3 DEF Contract!admit
  <2> QED
    BY <1>1, <1>3, <2>1, Zenon DEF Contract!HandshakeAgrees
<1> QED
  BY <1>2, <1>3

-----------------------------------------------------------------------------
(* The kill switch and split tunnelling                                    *)

\* Packets that leave a machine, by any interface to any destination.
AnyEgress(Interfaces, Destinations, Transports) ==
  [interface : Interfaces, destination : Destinations, transport : Transports, port : Nat]

\* Beside the tunnel an allow list lets out exactly what goes from the uplink to
\* the endpoint, and into the tunnel only unicast of the tunnel's family, for any
\* set of packets (kill_switch.rs).
THEOREM KillSwitchContains ==
  ASSUME NEW intent, NEW port \in Nat, NEW transport \in {"Tcp", "Udp"},
         NEW I, NEW D, NEW T, NEW egress \in SUBSET AnyEgress(I, D, T)
  PROVE  Traffic!KillSwitchContained(intent, port, transport, egress)
<1> DEFINE policy == Traffic!kill_switch_allowlist(intent, port, transport)
<1> SUFFICES ASSUME policy.error = Traffic!Absent
             PROVE  Traffic!KillSwitchContained(intent, port, transport, egress)
  BY DEF Traffic!KillSwitchContained
<1>1. /\ policy = [error |-> Traffic!Absent, endpoint |-> intent.endpoint, port |-> port,
                   transport |-> transport, uplink |-> intent.endpoint_interface,
                   tunnel |-> intent.tunnel_interface,
                   family |-> Traffic!Family(intent.tunnel_address)]
      /\ Traffic!supported_unicast(intent.endpoint) /\ port # 0
      /\ intent.endpoint_interface # intent.tunnel_interface
  BY DEF Traffic!kill_switch_allowlist, Traffic!KillSwitchAllowlist, Traffic!Absent
<1>2. /\ policy.endpoint = intent.endpoint /\ policy.port = port
      /\ policy.transport = transport /\ policy.uplink = intent.endpoint_interface
      /\ policy.tunnel = intent.tunnel_interface
      /\ policy.family = Traffic!Family(intent.tunnel_address)
  BY <1>1
<1> HIDE DEF policy
<1>3. ASSUME NEW e \in egress
      PROVE  /\ Traffic!classify_egress(policy, e) = "AllowEndpoint"
                  <=> e = [interface |-> intent.endpoint_interface, port |-> port,
                           destination |-> intent.endpoint, transport |-> transport]
             /\ Traffic!classify_egress(policy, e) = "AllowTunnel" =>
                  /\ Traffic!supported_unicast(e.destination)
                  /\ e.interface = intent.tunnel_interface
                  /\ Traffic!Family(e.destination) = Traffic!Family(intent.tunnel_address)
  BY <1>1, <1>2 DEF Traffic!classify_egress, Traffic!EgressTransport, AnyEgress
<1>4. Traffic!Allowed(policy, egress, "AllowEndpoint") =
         {e \in egress : e = [interface |-> intent.endpoint_interface, port |-> port,
                              destination |-> intent.endpoint, transport |-> transport]}
  BY <1>3 DEF Traffic!Allowed
<1>5. \A e \in Traffic!Allowed(policy, egress, "AllowTunnel") :
         /\ e.interface = intent.tunnel_interface /\ e.interface # intent.endpoint_interface
         /\ Traffic!supported_unicast(e.destination)
         /\ Traffic!Family(e.destination) = Traffic!Family(intent.tunnel_address)
  BY <1>1, <1>3 DEF Traffic!Allowed
<1> QED
  BY <1>1, <1>4, <1>5 DEF Traffic!KillSwitchContained, policy, Traffic!supported_unicast

\* A reversed name.
LEMMA Reversed ==
  ASSUME NEW L, NEW s \in Seq(L)
  PROVE  /\ Traffic!Reverse(s) \in Seq(L) /\ Len(Traffic!Reverse(s)) = Len(s)
         /\ \A i \in 1..Len(s) : Traffic!Reverse(s)[i] = s[Len(s) - i + 1]
<1>1. Len(s) \in Nat /\ \A i \in 1..Len(s) : s[i] \in L
  OBVIOUS
<1>2. Traffic!Reverse(s) \in [1..Len(s) -> L]
  BY <1>1 DEF Traffic!Reverse
<1>3. Traffic!Reverse(s) \in Seq(L)
  BY <1>1, <1>2, SeqDef
<1> QED
  BY <1>1, <1>2, <1>3 DEF Traffic!Reverse

\* What it is to end with a name, label by label.
LEMMA SuffixByIndex ==
  ASSUME NEW L, NEW s \in Seq(L), NEW t \in Seq(L)
  PROVE  Traffic!IsSuffix(s, t) <=>
           Len(s) <= Len(t) /\ \A i \in 1..Len(s) : s[i] = t[Len(t) - Len(s) + i]
<1> DEFINE a == Traffic!Reverse(s)
           b == Traffic!Reverse(t)
<1>1. /\ a \in Seq(L) /\ Len(a) = Len(s) /\ \A i \in 1..Len(s) : a[i] = s[Len(s) - i + 1]
      /\ b \in Seq(L) /\ Len(b) = Len(t) /\ \A i \in 1..Len(t) : b[i] = t[Len(t) - i + 1]
      /\ Len(s) \in Nat /\ Len(t) \in Nat
  <2>1. /\ a \in Seq(L) /\ Len(a) = Len(s)
        /\ \A i \in 1..Len(s) : a[i] = s[Len(s) - i + 1]
    BY Reversed
  <2>2. /\ b \in Seq(L) /\ Len(b) = Len(t)
        /\ \A i \in 1..Len(t) : b[i] = t[Len(t) - i + 1]
    BY Reversed
  <2> HIDE DEF a, b
  <2> QED
    BY <2>1, <2>2
<1> HIDE DEF a, b
<1>2. Traffic!IsPrefix(a, b) <=> Len(a) <= Len(b) /\ \A i \in 1..Len(a) : a[i] = b[i]
  BY <1>1 DEF Traffic!IsPrefix
<1>3. ASSUME Len(s) <= Len(t), \A i \in 1..Len(s) : a[i] = b[i], NEW i \in 1..Len(s)
      PROVE  s[i] = t[Len(t) - Len(s) + i]
  <2>1. /\ Len(s) - i + 1 \in 1..Len(s) /\ Len(s) - i + 1 \in 1..Len(t)
        /\ Len(s) - (Len(s) - i + 1) + 1 = i
        /\ Len(t) - (Len(s) - i + 1) + 1 = Len(t) - Len(s) + i
    BY <1>1, <1>3
  <2>2. a[Len(s) - i + 1] = s[i] /\ b[Len(s) - i + 1] = t[Len(t) - Len(s) + i]
    BY <1>1, <2>1
  <2> QED
    BY <1>3, <2>1, <2>2
<1>4. ASSUME Len(s) <= Len(t), \A i \in 1..Len(s) : s[i] = t[Len(t) - Len(s) + i],
             NEW i \in 1..Len(s)
      PROVE  a[i] = b[i]
  <2>1. Len(s) - i + 1 \in 1..Len(s) /\ i \in 1..Len(t)
    BY <1>1, <1>4
  <2>2. Len(t) - Len(s) + (Len(s) - i + 1) = Len(t) - i + 1
    BY <1>1
  <2> QED
    BY <1>1, <1>4, <2>1, <2>2
<1> QED
  BY <1>1, <1>2, <1>3, <1>4 DEF Traffic!IsSuffix, a, b

\* What a name ends with, the names below it end with.
LEMMA SuffixBelow ==
  ASSUME NEW L, NEW s \in Seq(L), NEW t \in Seq(L), NEW l \in L
  PROVE  /\ <<l>> \o t \in Seq(L) /\ Len(<<l>> \o t) = Len(t) + 1
         /\ Traffic!IsSuffix(s, s)
         /\ Traffic!IsSuffix(s, t) => Traffic!Under(<<l>> \o t, s)
<1> DEFINE u == <<l>> \o t
<1>1. /\ u \in Seq(L) /\ Len(u) = Len(t) + 1 /\ \A i \in 1..Len(t) : u[i + 1] = t[i]
      /\ Len(s) \in Nat /\ Len(t) \in Nat
  OBVIOUS
<1> HIDE DEF u
<1>2. ASSUME Traffic!IsSuffix(s, t) PROVE Traffic!Under(u, s)
  <2>1. Len(s) <= Len(t) /\ \A i \in 1..Len(s) : s[i] = t[Len(t) - Len(s) + i]
    BY <1>2, SuffixByIndex
  <2>2. ASSUME NEW i \in 1..Len(s) PROVE s[i] = u[Len(u) - Len(s) + i]
    <3>1. Len(t) - Len(s) + i \in 1..Len(t)
      BY <1>1, <2>1
    <3>2. u[(Len(t) - Len(s) + i) + 1] = s[i]
      BY <1>1, <2>1, <3>1
    <3>3. (Len(t) - Len(s) + i) + 1 = Len(u) - Len(s) + i
      BY <1>1
    <3> QED
      BY <3>2, <3>3
  <2>3. Len(s) <= Len(u) /\ Len(u) > Len(s)
    BY <1>1, <2>1
  <2> QED
    BY <1>1, <2>2, <2>3, SuffixByIndex DEF Traffic!Under
<1>3. Traffic!IsSuffix(s, s)
  BY <1>1, SuffixByIndex
<1> QED
  BY <1>1, <1>2, <1>3 DEF u

\* What a decision other than the proxy rests on.
LEMMA Decided ==
  ASSUME NEW settings, NEW in_list \in BOOLEAN
  PROVE  /\ ~settings.enabled \/ settings.mode = "ProxyAll" =>
              Traffic!Decision(settings, in_list) = "Proxy"
         /\ settings.enabled /\ settings.mode = "BypassSelected" =>
              Traffic!Decision(settings, in_list) = IF in_list THEN "Direct" ELSE "Proxy"
BY DEF Traffic!Decision

\* A name and the names below it.
LEMMA ListedBelow ==
  ASSUME NEW L, "ru" \in L, NEW settings, NEW name \in Seq(L), NEW l \in L,
         \A rule \in settings.direct_domains : rule.labels \in Seq(L),
         Traffic!is_domain_in_list(settings, name)
  PROVE  /\ Traffic!is_domain_in_list(settings, <<l>> \o name)
         /\ \E rule \in settings.direct_domains : Traffic!IsSuffix(
              IF rule.prefix = "geosite:" THEN <<"ru">> ELSE rule.labels, name)
<1>1. PICK rule \in settings.direct_domains :
        IF rule.prefix = "geosite:"
        THEN rule.labels = <<"category-ru">> /\ Traffic!Under(name, <<"ru">>)
        ELSE name = rule.labels \/ Traffic!Under(name, rule.labels)
  BY DEF Traffic!is_domain_in_list
<1>2. <<"ru">> \in Seq(L) /\ rule.labels \in Seq(L)
  OBVIOUS
<1>3. CASE rule.prefix = "geosite:"
  <2>1. Traffic!IsSuffix(<<"ru">>, name)
    BY <1>1, <1>3 DEF Traffic!Under
  <2>2. Traffic!Under(<<l>> \o name, <<"ru">>)
    BY <1>2, <2>1, SuffixBelow
  <2> QED
    BY <1>1, <1>3, <2>1, <2>2, Zenon DEF Traffic!is_domain_in_list
<1>4. CASE rule.prefix # "geosite:"
  <2>1. Traffic!IsSuffix(rule.labels, name)
    BY <1>1, <1>2, <1>4, SuffixBelow DEF Traffic!Under
  <2>2. Traffic!Under(<<l>> \o name, rule.labels)
    BY <1>2, <2>1, SuffixBelow
  <2> QED
    BY <1>4, <2>1, <2>2, Zenon DEF Traffic!is_domain_in_list
<1> QED
  BY <1>3, <1>4

\* A domain that is listed takes the names below it along, and what goes direct
\* in a bypass is at or below a rule of the list, for names and rules of any
\* length (matcher.rs).
THEOREM SplitContains ==
  ASSUME NEW L, "ru" \in L, NEW settings, settings.enabled \in BOOLEAN,
         \A rule \in settings.direct_domains : rule.labels \in Seq(L),
         NEW name \in Seq(L), NEW labels \in SUBSET L
  PROVE  Traffic!SplitContained(settings, name, labels)
<1>1. /\ Traffic!is_domain_in_list(settings, name) \in BOOLEAN
      /\ \A n : Traffic!is_domain_in_list(settings, n) \in BOOLEAN
  BY DEF Traffic!is_domain_in_list
<1>2. Traffic!match_domain(settings, name) # "Proxy" =>
        settings.enabled /\ settings.mode # "ProxyAll"
  BY <1>1, Decided DEF Traffic!match_domain
<1>3. ASSUME Traffic!is_domain_in_list(settings, name),
             NEW below \in Traffic!Below(name, labels)
      PROVE  Traffic!match_domain(settings, below) = Traffic!match_domain(settings, name)
  <2>1. PICK l \in labels : below = <<l>> \o name
    BY DEF Traffic!Below
  <2>2. Traffic!is_domain_in_list(settings, below)
    BY <1>3, <2>1, ListedBelow
  <2> QED
    BY <1>3, <2>2 DEF Traffic!match_domain
<1>4. ASSUME Traffic!match_domain(settings, name) = "Direct", settings.mode = "BypassSelected"
      PROVE  \E rule \in settings.direct_domains : Traffic!IsSuffix(
               IF rule.prefix = "geosite:" THEN <<"ru">> ELSE rule.labels, name)
  <2>1. Traffic!is_domain_in_list(settings, name)
    BY <1>1, <1>4, Decided DEF Traffic!match_domain
  <2>2. "ru" \in labels \/ \E l : l \in L
    OBVIOUS
  <2> QED
    BY <2>1, <2>2, ListedBelow
<1> QED
  BY <1>2, <1>3, <1>4 DEF Traffic!SplitContained

\* An address goes direct in a bypass only when the list has it (matcher.rs).
THEOREM AddressContains ==
  ASSUME NEW settings, settings.enabled \in BOOLEAN, NEW address
  PROVE  Traffic!AddressContained(settings, address)
<1>1. Traffic!is_ip_in_list(settings, address) \in BOOLEAN
  BY DEF Traffic!is_ip_in_list
<1>2. ASSUME Traffic!match_ip(settings, address) = "Direct", settings.mode = "BypassSelected"
      PROVE  Traffic!is_ip_in_list(settings, address)
  BY <1>1, <1>2, Decided DEF Traffic!match_ip
<1> QED
  BY <1>2 DEF Traffic!AddressContained, Traffic!is_ip_in_list

-----------------------------------------------------------------------------
(* Links                                                                   *)

\* Trimming and lowering once is enough.
LEMMA TextFacts ==
  ASSUME NEW v
  PROVE  /\ Links!Trim(Links!Trim(v)) = Links!Trim(v)
         /\ Links!Trim(v) = v => Links!Trim(Links!Lower(v)) = Links!Lower(v)
         /\ (Links!Lower(v) = "") <=> (v = "")
         /\ (Links!Lower(v) = Links!Absent) <=> (v = Links!Absent)
         /\ Links!Trim("") = "" /\ Links!Trim(Links!Absent) = Links!Absent
  BY DEF Links!Trim, Links!Lower, Links!Absent

\* What the parser keeps is trimmed, and never blank.
LEMMA KeptFacts ==
  ASSUME NEW v
  PROVE  /\ Links!Trim(Links!Kept(v)) = Links!Kept(v) /\ Links!Kept(v) # ""
         /\ Links!Trim(Links!KeptLower(v)) = Links!KeptLower(v) /\ Links!KeptLower(v) # ""
<1> DEFINE w == Links!Kept(v)
<1>1. Links!Trim(w) = w /\ w # ""
  <2>1. CASE Links!Blank(v)
    BY <2>1, TextFacts DEF Links!Kept, Links!Absent
  <2>2. CASE ~Links!Blank(v)
    BY <2>2, TextFacts DEF Links!Kept, Links!Blank
  <2> QED
    BY <2>1, <2>2
<1> HIDE DEF w
<1>2. Links!Trim(Links!Lower(w)) = Links!Lower(w) /\ Links!Lower(w) # ""
  BY <1>1, TextFacts
<1> QED
  BY <1>1, <1>2 DEF w, Links!KeptLower

\* A normalised UUID has no blanks around it.
LEMMA NormalizedUuid ==
  ASSUME NEW v PROVE Links!Trim(Links!normalize_uuid(v)) = Links!normalize_uuid(v)
<1>1. Links!Trim("uuid") = "uuid"
  BY DEF Links!Trim
<1> QED
  BY <1>1, TextFacts DEF Links!normalize_uuid

\* A host of a URL has no blanks around it.
LEMMA SniTrimmed ==
  ASSUME NEW link, Links!Trim(link.host) = link.host
  PROVE  /\ Links!Trim(Links!Server(link)) = Links!Server(link)
         /\ Links!Trim(Links!Sni(link)) = Links!Sni(link)
<1>1. Links!Trim(Links!Server(link)) = Links!Server(link)
  BY TextFacts DEF Links!Server
<1>2. Links!Trim(Links!Sni(link)) = Links!Sni(link)
  BY <1>1, TextFacts DEF Links!Sni
<1> QED
  BY <1>1, <1>2

\* The security a profile may name.
Securities == {"none", "tls", "reality"}

\* What an engine is told of a profile's security.
LEMMA ToldSecurity ==
  ASSUME NEW p, p.tls # Links!NoTls => p.tls.security \in Securities,
         p.tls # Links!NoTls => Links!TlsValid(p.tls)
  PROVE  /\ Links!XrayTls(p).security = Links!SecurityOf(p)
         /\ Links!Protected(Links!SingBoxTls(p), Links!SecurityOf(p))
         /\ Links!SecurityOf(p) \in Securities
<1> DEFINE tls == p.tls
<1>1. CASE p.tls = Links!NoTls \/ ~p.tls.enabled \/ p.tls.security = "none"
  <2>1. Links!XrayTls(p) = Links!Unprotected /\ Links!SingBoxTls(p) = Links!Unprotected
    BY <1>1 DEF Links!XrayTls, Links!SingBoxTls
  <2>2. Links!SecurityOf(p) = "none"
    BY <1>1 DEF Links!SecurityOf
  <2> QED
    BY <2>1, <2>2 DEF Links!Unprotected, Links!Protected, Securities
<1>2. CASE p.tls # Links!NoTls /\ p.tls.enabled /\ p.tls.security = "tls"
  <2>1. Links!XrayTls(p).security = "tls" /\ Links!SingBoxTls(p).security = "tls"
    BY <1>2 DEF Links!XrayTls, Links!SingBoxTls, Links!Unprotected
  <2> QED
    BY <1>2, <2>1 DEF Links!SecurityOf, Links!Protected, Securities
<1>3. CASE p.tls # Links!NoTls /\ p.tls.enabled /\ p.tls.security = "reality"
  <2>1. /\ Links!is_valid_sni_hostname(p.tls.server_name)
        /\ Links!is_valid_reality_public_key(p.tls.public_key)
    BY <1>3 DEF Links!TlsValid, Links!RealityValid
  <2>2. Links!is_valid_sni_hostname(Links!Trim(p.tls.server_name))
    BY <2>1, TextFacts DEF Links!is_valid_sni_hostname
  <2>3. Links!PublicKey(p.tls) = "key-"
    BY <2>1, TextFacts DEF Links!PublicKey, Links!OrElse, Links!is_valid_reality_public_key,
       Links!to_raw_url_safe_reality_public_key, Links!Absent
  <2>4. Links!OrElse(Links!Kept(p.tls.fingerprint), "chrome") \notin {"", Links!Absent}
    BY KeptFacts DEF Links!OrElse, Links!Absent
  <2>5. /\ Links!XrayTls(p).security = "reality" /\ Links!SingBoxTls(p).security = "reality"
        /\ Links!SingBoxTls(p).server_name = Links!Trim(p.tls.server_name)
        /\ Links!SingBoxTls(p).public_key = Links!PublicKey(p.tls)
        /\ Links!SingBoxTls(p).fingerprint = Links!OrElse(Links!Kept(p.tls.fingerprint), "chrome")
    BY <1>3 DEF Links!XrayTls, Links!SingBoxTls
  <2> QED
    BY <1>3, <2>2, <2>3, <2>4, <2>5 DEF Links!SecurityOf, Links!Protected, Securities
<1> QED
  BY <1>1, <1>2, <1>3 DEF Securities

\* The settings an engine is given, with one fingerprint or another.
Settings(tls, fingerprint) ==
  [security |-> tls.security, server_name |-> tls.server_name, public_key |-> tls.public_key,
   short_id |-> tls.short_id, fingerprint |-> fingerprint]

LEMMA OtherFingerprint ==
  ASSUME NEW tls, NEW e, NEW f
  PROVE  [Settings(tls, e) EXCEPT !.fingerprint = f] = Settings(tls, f)
BY DEF Settings

\* Two configurations that differ in nothing but their fingerprint.
LEMMA AlikeButFingerprint ==
  ASSUME NEW address, NEW port, NEW uuid, NEW flow, NEW stream, NEW tls, NEW told, NEW shown
  PROVE  Links!AllButFingerprint([address |-> address, port |-> port, uuid |-> uuid,
                                  flow |-> flow, tls |-> Settings(tls, told), stream |-> stream])
         = Links!AllButFingerprint([address |-> address, port |-> port, uuid |-> uuid,
                                    flow |-> flow, tls |-> Settings(tls, shown), stream |-> stream])
<1> DEFINE Config(t) == [address |-> address, port |-> port, uuid |-> uuid, flow |-> flow,
                         tls |-> t, stream |-> stream]
           x == Config(Settings(tls, told))
           s == Config(Settings(tls, shown))
<1>1. ASSUME NEW t, NEW u PROVE [Config(t) EXCEPT !.tls = u] = Config(u)
  OBVIOUS
<1>2. x = Config(Settings(tls, told)) /\ s = Config(Settings(tls, shown))
  OBVIOUS
<1>3. x.tls = Settings(tls, told) /\ s.tls = Settings(tls, shown)
  OBVIOUS
<1> HIDE DEF x, s, Config
<1>4. [x EXCEPT !.tls = Settings(tls, "")] = [s EXCEPT !.tls = Settings(tls, "")]
  BY <1>1, <1>2
<1>5. /\ [x.tls EXCEPT !.fingerprint = ""] = Settings(tls, "")
      /\ [s.tls EXCEPT !.fingerprint = ""] = Settings(tls, "")
  <2>1. \A f : [Settings(tls, f) EXCEPT !.fingerprint = ""] = Settings(tls, "")
    BY OtherFingerprint, Zenon
  <2> QED
    BY <1>3, <2>1, Zenon
<1>6. Links!AllButFingerprint(x) = Links!AllButFingerprint(s)
  BY <1>4, <1>5 DEF Links!AllButFingerprint
<1> QED
  BY <1>6, Zenon DEF x, s, Config

\* Settings without the blanks in them.
LEMMA StrippedSettings ==
  ASSUME NEW security, NEW name, NEW key, NEW sid, NEW fp, NEW told,
         told = [security |-> security, server_name |-> name, public_key |-> key,
                 short_id |-> sid, fingerprint |-> fp]
  PROVE  Links!StrippedTls(told)
           = Settings([security |-> security, server_name |-> Links!Trim(name),
                       public_key |-> key, short_id |-> Links!Trim(sid)], Links!Trim(fp))
BY DEF Links!StrippedTls, Settings

\* What Xray is told of a stored profile, but for the blanks in it, is what
\* sing-box is told, but for a fingerprint the profile does not name.
LEMMA StoredTlsAgrees ==
  ASSUME NEW p, p.tls # Links!NoTls => p.tls.security \in Securities
  PROVE  \E tls, told, shown :
           /\ Links!StrippedTls(Links!XrayTls(p)) = Settings(tls, told)
           /\ Links!SingBoxTls(p) = Settings(tls, shown)
           /\ told # shown => tls.security # "none" /\ Links!Blank(p.tls.fingerprint)
<1> DEFINE fp == p.tls.fingerprint
           sid == Links!OrElse(p.tls.short_id, "")
           told == Links!Trim(Links!OrElse(fp, "chrome"))
<1>1. CASE p.tls = Links!NoTls \/ ~p.tls.enabled \/ p.tls.security = "none"
  <2>1. Links!XrayTls(p) = Links!Unprotected /\ Links!SingBoxTls(p) = Links!Unprotected
    BY <1>1 DEF Links!XrayTls, Links!SingBoxTls
  <2>2. Links!StrippedTls(Links!Unprotected) = Links!Unprotected
    BY TextFacts DEF Links!StrippedTls, Links!Unprotected
  <2> WITNESS Links!Unprotected, Links!Absent, Links!Absent
  <2> QED
    BY <2>1, <2>2 DEF Links!Unprotected, Settings
<1>2. ~Links!Blank(fp) =>
        told = Links!Kept(fp) /\ told = Links!OrElse(Links!Kept(fp), "chrome")
  BY TextFacts DEF Links!OrElse, Links!Kept, Links!Blank
<1>3. CASE p.tls # Links!NoTls /\ p.tls.enabled /\ p.tls.security = "tls"
  <2> DEFINE name == Links!NameIfAny(p.tls)
             tls == [security |-> "tls", server_name |-> name, public_key |-> Links!Absent,
                     short_id |-> Links!Absent]
  <2>1. /\ Links!XrayTls(p) = [security |-> "tls", server_name |-> name,
             public_key |-> Links!Absent, short_id |-> Links!Absent,
             fingerprint |-> Links!OrElse(fp, "chrome")]
        /\ Links!SingBoxTls(p) = Settings(tls, Links!Kept(fp))
    BY <1>3 DEF Links!XrayTls, Links!SingBoxTls, Links!Unprotected, Settings
  <2>2. Links!Trim(name) = name /\ Links!Trim(Links!Absent) = Links!Absent
    BY TextFacts DEF Links!NameIfAny
  <2>3. Links!StrippedTls(Links!XrayTls(p)) = Settings(tls, told)
    <3> HIDE DEF name
    <3> QED
      BY <2>1, <2>2, StrippedSettings
  <2> WITNESS tls, told, Links!Kept(fp)
  <2> QED
    BY <1>2, <2>1, <2>3
<1>4. CASE p.tls # Links!NoTls /\ p.tls.enabled /\ p.tls.security = "reality"
  <2> DEFINE name == p.tls.server_name
             key == Links!PublicKey(p.tls)
             tls == [security |-> "reality", server_name |-> Links!Trim(name),
                     public_key |-> key, short_id |-> Links!Trim(sid)]
  <2>1. /\ Links!XrayTls(p) = [security |-> "reality", server_name |-> name,
             public_key |-> key, short_id |-> sid,
             fingerprint |-> Links!OrElse(fp, "chrome")]
        /\ Links!SingBoxTls(p) = Settings(tls, Links!OrElse(Links!Kept(fp), "chrome"))
    BY <1>4 DEF Links!XrayTls, Links!SingBoxTls, Settings
  <2>2. Links!StrippedTls(Links!XrayTls(p)) = Settings(tls, told)
    <3> DEFINE given == Links!OrElse(fp, "chrome")
    <3>1. Links!XrayTls(p) = [security |-> "reality", server_name |-> name,
             public_key |-> key, short_id |-> sid, fingerprint |-> given]
      BY <2>1
    <3> HIDE DEF name, key, sid, given
    <3>2. Links!StrippedTls(Links!XrayTls(p)) = Settings(tls, Links!Trim(given))
      BY <3>1, StrippedSettings
    <3> QED
      BY <3>2 DEF given
  <2> WITNESS tls, told, Links!OrElse(Links!Kept(fp), "chrome")
  <2> QED
    BY <1>2, <2>1, <2>2
<1> QED
  BY <1>1, <1>3, <1>4 DEF Securities

\* A profile that is valid gives both engines one configuration up to the blanks
\* around its fields, and sing-box all that the security it names needs
\* (config.rs, both generators).
THEOREM ProfilesFaithful ==
  ASSUME NEW p, p.tls # Links!NoTls => p.tls.security \in Securities
  PROVE  Links!ProfileFaithful(p)
<1> SUFFICES ASSUME Links!ProfileValid(p)
             PROVE  /\ Links!Protected(Links!SingBoxTls(p), Links!SecurityOf(p))
                    /\ Links!EnginesAgreeUpToBlanks(p)
  BY DEF Links!ProfileFaithful
<1>1. Links!Protected(Links!SingBoxTls(p), Links!SecurityOf(p))
  BY ToldSecurity DEF Links!ProfileValid
<1>2. PICK tls, told, shown :
        /\ Links!StrippedTls(Links!XrayTls(p)) = Settings(tls, told)
        /\ Links!SingBoxTls(p) = Settings(tls, shown)
        /\ told # shown => tls.security # "none" /\ Links!Blank(p.tls.fingerprint)
  BY StoredTlsAgrees
<1> DEFINE x == Links!Stripped(Links!XrayConfig(p))
           s == Links!SingBoxConfig(p)
<1>3. /\ x = [address |-> Links!Trim(p.server), port |-> p.port, uuid |-> Links!Trim(p.uuid),
              flow |-> p.flow, tls |-> Settings(tls, told), stream |-> Links!Stream(p)]
      /\ s = [address |-> Links!Trim(p.server), port |-> p.port, uuid |-> Links!Trim(p.uuid),
              flow |-> p.flow, tls |-> Settings(tls, shown), stream |-> Links!Stream(p)]
  BY <1>2 DEF Links!Stripped, Links!XrayConfig, Links!SingBoxConfig
<1>4. x.tls.fingerprint = told /\ s.tls.fingerprint = shown /\ x.tls.security = tls.security
  BY <1>3 DEF Settings
<1> HIDE DEF x, s
<1>5. Links!AllButFingerprint(x) = Links!AllButFingerprint(s)
  BY <1>3, AlikeButFingerprint
<1>6. Links!EnginesAgreeUpToBlanks(p)
  BY <1>2, <1>4, <1>5 DEF Links!EnginesAgreeUpToBlanks, x, s
<1> QED
  BY <1>1, <1>6

\* The profile of an accepted link.
LEMMA AcceptedProfile ==
  ASSUME NEW link, Links!Trim(link.host) = link.host, Links!Accepted(link)
  PROVE  LET p == Links!Profile(link) IN
         /\ Links!ProfileValid(p)
         /\ p.server = Links!Server(link) /\ p.port = link.port
         /\ p.uuid = Links!normalize_uuid(link.uuid) /\ p.flow = Links!Flow(link)
         /\ p.transport = Links!Transport(link) /\ p.host = Links!TransportHost(link)
         /\ p.path = Links!Value(Links!Paths(link))
         /\ Links!Security(link) \in Securities
         /\ Links!Security(link) = "none" => p.tls = Links!NoTls
         /\ Links!Security(link) # "none" =>
              /\ p.tls # Links!NoTls /\ p.tls.enabled /\ p.tls.security = Links!Security(link)
              /\ p.tls.server_name = Links!Sni(link)
              /\ p.tls.public_key = Links!Kept(Links!Param(link, "pbk"))
              /\ p.tls.short_id = Links!KeptLower(Links!Param(link, "sid"))
              /\ p.tls.fingerprint = Links!KeptLower(Links!Param(link, "fp"))
              /\ p.tls = [enabled |-> TRUE, security |-> p.tls.security,
                          server_name |-> p.tls.server_name, public_key |-> p.tls.public_key,
                          short_id |-> p.tls.short_id, fingerprint |-> p.tls.fingerprint]
         /\ p = [server |-> p.server, port |-> p.port, uuid |-> p.uuid, transport |-> p.transport,
                 host |-> p.host, path |-> p.path, flow |-> p.flow, tls |-> p.tls]
<1>1. Links!Security(link) \in Securities /\ Links!ProfileValid(Links!Profile(link))
  BY DEF Links!Accepted, Links!ParametersAccepted, Securities
<1> QED
  BY <1>1 DEF Links!Profile, Links!NoTls

\* The profile of an accepted link has the security of the link, in both engines.
LEMMA LinkSecurity ==
  ASSUME NEW link, Links!Trim(link.host) = link.host, Links!Accepted(link)
  PROVE  LET p == Links!Profile(link) IN
         /\ Links!SecurityOf(p) = Links!Security(link)
         /\ Links!Protected(Links!XrayTls(p), Links!Security(link))
         /\ Links!Protected(Links!SingBoxTls(p), Links!Security(link))
<1> SUFFICES ASSUME NEW p, p = Links!Profile(link)
             PROVE  /\ Links!SecurityOf(p) = Links!Security(link)
                    /\ Links!Protected(Links!XrayTls(p), Links!Security(link))
                    /\ Links!Protected(Links!SingBoxTls(p), Links!Security(link))
  OBVIOUS
<1>1. /\ Links!ProfileValid(p) /\ Links!Security(link) \in Securities
      /\ Links!Security(link) = "none" => p.tls = Links!NoTls
      /\ Links!Security(link) # "none" =>
           /\ p.tls # Links!NoTls /\ p.tls.enabled /\ p.tls.security = Links!Security(link)
           /\ p.tls.fingerprint = Links!KeptLower(Links!Param(link, "fp"))
  BY AcceptedProfile
<1>2. Links!SecurityOf(p) = Links!Security(link)
  BY <1>1 DEF Links!SecurityOf, Securities
<1>3. /\ Links!XrayTls(p).security = Links!SecurityOf(p)
      /\ Links!Protected(Links!SingBoxTls(p), Links!SecurityOf(p))
  BY <1>1, ToldSecurity DEF Links!ProfileValid
<1>4. ASSUME Links!Security(link) = "reality"
      PROVE  /\ Links!is_valid_sni_hostname(Links!XrayTls(p).server_name)
             /\ Links!XrayTls(p).public_key = "key-"
             /\ Links!XrayTls(p).fingerprint \notin {"", Links!Absent}
  <2>1. /\ Links!is_valid_sni_hostname(p.tls.server_name)
        /\ Links!is_valid_reality_public_key(p.tls.public_key)
    BY <1>1, <1>4 DEF Links!ProfileValid, Links!TlsValid, Links!RealityValid
  <2>2. Links!PublicKey(p.tls) = "key-"
    BY <2>1, TextFacts DEF Links!PublicKey, Links!OrElse, Links!is_valid_reality_public_key,
       Links!to_raw_url_safe_reality_public_key, Links!Absent
  <2>3. Links!OrElse(p.tls.fingerprint, "chrome") \notin {"", Links!Absent}
    BY <1>1, <1>4, KeptFacts DEF Links!OrElse, Links!Absent
  <2> QED
    BY <1>1, <1>4, <2>1, <2>2, <2>3 DEF Links!XrayTls
<1> QED
  BY <1>2, <1>3, <1>4 DEF Links!Protected

\* Both generators, given the profile of an accepted link.
LEMMA TlsAgrees ==
  ASSUME NEW link, Links!Trim(link.host) = link.host, Links!Accepted(link),
         NEW p, p = Links!Profile(link)
  PROVE  \E tls, told, shown :
           /\ Links!XrayTls(p) = Settings(tls, told)
           /\ Links!SingBoxTls(p) = Settings(tls, shown)
           /\ told # shown => tls.security = "tls" /\ p.tls.fingerprint = Links!Absent /\ told = "chrome"
<1>1. /\ Links!Security(link) \in Securities
      /\ Links!Security(link) = "none" => p.tls = Links!NoTls
      /\ Links!Security(link) # "none" =>
           /\ p.tls # Links!NoTls /\ p.tls.enabled /\ p.tls.security = Links!Security(link)
           /\ p.tls.server_name = Links!Sni(link)
           /\ p.tls.short_id = Links!KeptLower(Links!Param(link, "sid"))
           /\ p.tls.fingerprint = Links!KeptLower(Links!Param(link, "fp"))
  BY AcceptedProfile
<1> DEFINE fp == p.tls.fingerprint
           sid == p.tls.short_id
<1>2. ASSUME Links!Security(link) # "none"
      PROVE  /\ Links!Trim(fp) = fp /\ fp # "" /\ Links!Kept(fp) = fp
             /\ Links!Trim(sid) = sid
             /\ Links!Trim(p.tls.server_name) = p.tls.server_name
  <2>1. Links!Trim(fp) = fp /\ fp # "" /\ Links!Trim(sid) = sid
    BY <1>1, <1>2, KeptFacts
  <2>2. Links!Kept(fp) = fp
    BY <2>1 DEF Links!Kept, Links!Blank
  <2> QED
    BY <1>1, <1>2, <2>1, <2>2, SniTrimmed
<1>3. CASE Links!Security(link) = "none"
  <2>1. Links!XrayTls(p) = Links!Unprotected /\ Links!SingBoxTls(p) = Links!Unprotected
    BY <1>1, <1>3 DEF Links!XrayTls, Links!SingBoxTls
  <2> WITNESS Links!Unprotected, Links!Absent, Links!Absent
  <2> QED
    BY <2>1 DEF Links!Unprotected, Settings
<1>4. CASE Links!Security(link) = "tls"
  <2> DEFINE name == Links!NameIfAny(p.tls)
  <2>1. /\ Links!XrayTls(p) = [security |-> "tls", server_name |-> name,
             public_key |-> Links!Absent, short_id |-> Links!Absent,
             fingerprint |-> Links!OrElse(fp, "chrome")]
        /\ Links!SingBoxTls(p) = [security |-> "tls", server_name |-> name,
             public_key |-> Links!Absent, short_id |-> Links!Absent,
             fingerprint |-> Links!Kept(fp)]
    BY <1>1, <1>4 DEF Links!XrayTls, Links!SingBoxTls, Links!Unprotected
  <2>2. Links!OrElse(fp, "chrome") # fp => fp = Links!Absent /\ Links!OrElse(fp, "chrome") = "chrome"
    BY DEF Links!OrElse
  <2> WITNESS [security |-> "tls", server_name |-> name, public_key |-> Links!Absent,
               short_id |-> Links!Absent], Links!OrElse(fp, "chrome"), Links!Kept(fp)
  <2> QED
    BY <1>2, <1>4, <2>1, <2>2 DEF Settings
<1>5. CASE Links!Security(link) = "reality"
  <2>1. /\ Links!XrayTls(p) = [security |-> "reality", server_name |-> p.tls.server_name,
             public_key |-> Links!PublicKey(p.tls), short_id |-> Links!OrElse(sid, ""),
             fingerprint |-> Links!OrElse(fp, "chrome")]
        /\ Links!SingBoxTls(p) = [security |-> "reality",
             server_name |-> Links!Trim(p.tls.server_name),
             public_key |-> Links!PublicKey(p.tls),
             short_id |-> Links!Trim(Links!OrElse(sid, "")),
             fingerprint |-> Links!OrElse(Links!Kept(fp), "chrome")]
    BY <1>1, <1>5 DEF Links!XrayTls, Links!SingBoxTls
  <2>2. Links!Trim(Links!OrElse(sid, "")) = Links!OrElse(sid, "")
    BY <1>2, <1>5, TextFacts DEF Links!OrElse
  <2> WITNESS [security |-> "reality", server_name |-> p.tls.server_name,
               public_key |-> Links!PublicKey(p.tls), short_id |-> Links!OrElse(sid, "")],
              Links!OrElse(fp, "chrome"), Links!OrElse(fp, "chrome")
  <2> QED
    BY <1>2, <1>5, <2>1, <2>2 DEF Settings
<1> QED
  BY <1>1, <1>3, <1>4, <1>5 DEF Securities

\* A link that is accepted gives both engines one configuration with the security
\* it names, whatever its parameters are and however they are written.  All
\* that is asked of it is what a URL is: no blanks around its host (parser.rs,
\* both generators).
THEOREM LinkIsFaithful ==
  ASSUME NEW link, Links!Trim(link.host) = link.host
  PROVE  Links!LinkFaithful(link)
<1> SUFFICES ASSUME Links!Accepted(link), NEW p, p = Links!Profile(link)
             PROVE  /\ Links!Protected(Links!XrayTls(p), Links!Security(link))
                    /\ Links!Protected(Links!SingBoxTls(p), Links!Security(link))
                    /\ Links!EnginesAgree(p)
  BY DEF Links!LinkFaithful
<1>1. /\ Links!Protected(Links!XrayTls(p), Links!Security(link))
      /\ Links!Protected(Links!SingBoxTls(p), Links!Security(link))
  BY LinkSecurity
<1>2. Links!Trim(p.server) = p.server /\ Links!Trim(p.uuid) = p.uuid
  BY AcceptedProfile, SniTrimmed, NormalizedUuid
<1>3. PICK tls, told, shown :
        /\ Links!XrayTls(p) = Settings(tls, told)
        /\ Links!SingBoxTls(p) = Settings(tls, shown)
        /\ told # shown => tls.security = "tls" /\ p.tls.fingerprint = Links!Absent /\ told = "chrome"
  BY TlsAgrees
<1> DEFINE x == Links!XrayConfig(p)
           s == Links!SingBoxConfig(p)
<1>4. /\ x = [address |-> p.server, port |-> p.port, uuid |-> p.uuid, flow |-> p.flow,
              tls |-> Links!XrayTls(p), stream |-> Links!Stream(p)]
      /\ s = [address |-> p.server, port |-> p.port, uuid |-> p.uuid, flow |-> p.flow,
              tls |-> Links!SingBoxTls(p), stream |-> Links!Stream(p)]
  BY <1>2 DEF Links!XrayConfig, Links!SingBoxConfig
<1>5. x.tls.fingerprint = told /\ s.tls.fingerprint = shown /\ x.tls.security = tls.security
  BY <1>3, <1>4 DEF Settings
<1> HIDE DEF x, s
<1>6. Links!AllButFingerprint(x) = Links!AllButFingerprint(s)
  BY <1>3, <1>4, AlikeButFingerprint
<1>7. Links!EnginesAgree(p)
  BY <1>3, <1>5, <1>6 DEF Links!EnginesAgree, x, s
<1> QED
  BY <1>1, <1>7

\* Nothing an accepted profile is hashed by is the empty text.
LEMMA HashedFields ==
  ASSUME NEW link, Links!Trim(link.host) = link.host, Links!Accepted(link),
         NEW p, p = Links!Profile(link)
  PROVE  /\ p.flow # "" /\ p.host # "" /\ p.path # ""
         /\ p.tls # Links!NoTls =>
              p.tls.fingerprint # "" /\ p.tls.public_key # "" /\ p.tls.short_id # ""
<1>1. p.flow # ""
  BY AcceptedProfile DEF Links!Accepted, Links!ParametersAccepted, Links!FlowKnown, Links!Absent
<1>2. p.path # ""
  <2>1. \A v \in Links!Paths(link) : v # ""
    BY KeptFacts DEF Links!Paths
  <2>2. Links!Value(Links!Paths(link)) # ""
    BY <2>1 DEF Links!Value, Links!Absent
  <2> QED
    BY <2>2, AcceptedProfile
<1>3. p.host # ""
  <2>1. \A v \in Links!Hosts(link) : v # ""
    BY KeptFacts DEF Links!Hosts
  <2>2. Links!Value(Links!Hosts(link)) # ""
    BY <2>1 DEF Links!Value, Links!Absent
  <2>3. ~Links!Blank(Links!Sni(link)) => Links!Sni(link) # ""
    BY TextFacts DEF Links!Blank
  <2>4. Links!TransportHost(link) # ""
    BY <2>2, <2>3 DEF Links!TransportHost
  <2> QED
    BY <2>4, AcceptedProfile
<1>4. p.tls # Links!NoTls =>
        p.tls.fingerprint # "" /\ p.tls.public_key # "" /\ p.tls.short_id # ""
  <2>1. p.tls # Links!NoTls =>
          /\ p.tls.public_key = Links!Kept(Links!Param(link, "pbk"))
          /\ p.tls.short_id = Links!KeptLower(Links!Param(link, "sid"))
          /\ p.tls.fingerprint = Links!KeptLower(Links!Param(link, "fp"))
    BY AcceptedProfile
  <2> QED
    BY <2>1, KeptFacts
<1> QED
  BY <1>1, <1>2, <1>3, <1>4

\* Leaving a field out is told from every text a profile can have there.
LEMMA HashedFaithful ==
  ASSUME NEW v, NEW w, v # "", w # "", Links!Hashed(v) = Links!Hashed(w)
  PROVE  v = w
BY DEF Links!Hashed

\* The digest tells the profiles of two accepted links apart.
LEMMA IdsFaithful ==
  ASSUME NEW a, Links!Trim(a.host) = a.host, Links!Accepted(a), NEW p, p = Links!Profile(a),
         NEW b, Links!Trim(b.host) = b.host, Links!Accepted(b), NEW q, q = Links!Profile(b),
         Links!compute_profile_id(p) = Links!compute_profile_id(q)
  PROVE  p = q
<1> DEFINE Told(t) == <<t.security, t.server_name, Links!Hashed(t.fingerprint),
                        Links!Hashed(t.public_key), Links!Hashed(t.short_id)>>
           Part(r) == IF r.tls = Links!NoTls THEN <<>> ELSE Told(r.tls)
<1>1. /\ p.server = q.server /\ p.port = q.port /\ p.uuid = q.uuid /\ p.transport = q.transport
      /\ Links!Hashed(p.flow) = Links!Hashed(q.flow) /\ Links!Hashed(p.host) = Links!Hashed(q.host)
      /\ Links!Hashed(p.path) = Links!Hashed(q.path) /\ Part(p) = Part(q)
  <2>1. ASSUME NEW r
        PROVE  Links!compute_profile_id(r) =
                 <<r.server, r.port, r.uuid, r.transport, Links!Hashed(r.flow), Links!Hashed(r.host),
                   Links!Hashed(r.path), Part(r)>>
    BY DEF Links!compute_profile_id
  <2> HIDE DEF Part
  <2> QED
    BY <2>1
<1>5. \A r \in {p, q} :
        /\ r.flow # "" /\ r.host # "" /\ r.path # ""
        /\ r.tls # Links!NoTls =>
             r.tls.fingerprint # "" /\ r.tls.public_key # "" /\ r.tls.short_id # ""
  BY HashedFields
<1>2. p.flow = q.flow /\ p.host = q.host /\ p.path = q.path
  BY <1>1, <1>5, HashedFaithful
<1>3. p.tls = q.tls
  <2>1. (p.tls = Links!NoTls) <=> (q.tls = Links!NoTls)
    BY <1>1
  <2>2. CASE p.tls = Links!NoTls
    BY <2>1, <2>2
  <2>3. CASE p.tls # Links!NoTls
    <3>1. Told(p.tls) = Told(q.tls)
      BY <1>1, <2>1, <2>3
    <3>2. /\ p.tls.security = q.tls.security /\ p.tls.server_name = q.tls.server_name
          /\ Links!Hashed(p.tls.fingerprint) = Links!Hashed(q.tls.fingerprint)
          /\ Links!Hashed(p.tls.public_key) = Links!Hashed(q.tls.public_key)
          /\ Links!Hashed(p.tls.short_id) = Links!Hashed(q.tls.short_id)
      BY <3>1
    <3>3. /\ p.tls.fingerprint = q.tls.fingerprint /\ p.tls.public_key = q.tls.public_key
          /\ p.tls.short_id = q.tls.short_id
      BY <1>5, <2>1, <2>3, <3>2, HashedFaithful
    <3>4. \A r \in {p, q} :
            r.tls = [enabled |-> TRUE, security |-> r.tls.security,
                     server_name |-> r.tls.server_name, public_key |-> r.tls.public_key,
                     short_id |-> r.tls.short_id, fingerprint |-> r.tls.fingerprint]
      BY <2>1, <2>3, AcceptedProfile
    <3> QED
      BY <3>2, <3>3, <3>4
  <2> QED
    BY <2>2, <2>3
<1>4. \A r \in {p, q} :
        r = [server |-> r.server, port |-> r.port, uuid |-> r.uuid, transport |-> r.transport,
             host |-> r.host, path |-> r.path, flow |-> r.flow, tls |-> r.tls]
  BY AcceptedProfile
<1> QED
  BY <1>1, <1>2, <1>3, <1>4

\* Two accepted links are two profiles of one config exactly when their profiles
\* differ: the ids of two different profiles differ (config.rs).
THEOREM PairIsFaithful ==
  ASSUME NEW a, Links!Trim(a.host) = a.host, NEW b, Links!Trim(b.host) = b.host
  PROVE  Links!PairFaithful(a, b)
<1> SUFFICES ASSUME Links!Accepted(a), Links!Accepted(b),
                    NEW profiles, profiles = <<Links!Entry(a), Links!Entry(b)>>,
                    NEW config, config = [active_profile_id |-> Links!Entry(a).id,
                                          profiles |-> profiles]
             PROVE  Links!AppConfigValid(config) <=> Links!Profile(a) # Links!Profile(b)
  BY DEF Links!PairFaithful
<1>1. DOMAIN profiles = {1, 2} /\ profiles[1] = Links!Entry(a) /\ profiles[2] = Links!Entry(b)
  OBVIOUS
<1>2. /\ config.profiles = profiles /\ profiles # <<>>
      /\ config.active_profile_id = profiles[1].id
  BY <1>1
<1>3. /\ Links!ProfileValid(profiles[1].profile) /\ Links!ProfileValid(profiles[2].profile)
      /\ profiles[1].id = Links!compute_profile_id(Links!Profile(a))
      /\ profiles[2].id = Links!compute_profile_id(Links!Profile(b))
  BY <1>1 DEF Links!Accepted, Links!Entry
<1>4. Links!AppConfigValid(config) <=> profiles[1].id # profiles[2].id
  BY <1>1, <1>2, <1>3 DEF Links!AppConfigValid
<1> QED
  BY <1>3, <1>4, IdsFaithful

-----------------------------------------------------------------------------
(* Catalogs                                                                *)

\* A set of indices has a least one.
LEMMA LeastIndex ==
  ASSUME NEW S, S \subseteq Nat, S # {}
  PROVE  Engines!Min(S) \in S /\ \A n \in S : Engines!Min(S) <= n
<1> DEFINE R == OpToRel(<, Nat)
<1>1. \A m, n \in Nat : <<m, n>> \in R <=> m < n
  BY DEF OpToRel
<1>2. IsWellFoundedOn(R, Nat)
  BY NatLessThanWellFounded
<1> HIDE DEF R
<1>3. PICK m \in S : \A n \in S : ~(<<n, m>> \in R)
  BY <1>2, WFMin
<1>4. ASSUME NEW n \in S PROVE m <= n
  <2>1. n \in Nat /\ m \in Nat /\ ~(n < m)
    BY <1>1, <1>3
  <2> QED
    BY <2>1
<1> QED
  BY <1>3, <1>4 DEF Engines!Min

\* The index a search over the rows stops at.
LEMMA FoundFirst ==
  ASSUME NEW Kind, NEW rows \in Seq(Kind), NEW I, I \subseteq 1..Len(rows),
         NEW found, found = IF I # {} THEN Engines!Min(I) ELSE 0
  PROVE  /\ found # 0 <=> I # {}
         /\ found # 0 => found \in I /\ rows[found] \in Engines!Range(rows)
<1>1. DOMAIN rows = 1..Len(rows) /\ Len(rows) \in Nat
  OBVIOUS
<1>2. I \subseteq Nat /\ 0 \notin I
  BY <1>1
<1>3. I # {} => Engines!Min(I) \in I
  BY <1>2, LeastIndex
<1>4. found # 0 <=> I # {}
  BY <1>2, <1>3
<1>5. ASSUME found # 0 PROVE found \in I /\ rows[found] \in Engines!Range(rows)
  <2>1. found \in I
    BY <1>3, <1>4, <1>5
  <2>2. found \in DOMAIN rows
    BY <1>1, <2>1
  <2> QED
    BY <2>1, <2>2 DEF Engines!Range
<1> QED
  BY <1>4, <1>5

\* Sets of the values of the rows of a catalog.
LEMMA ValuesFinite ==
  ASSUME NEW S, IsFiniteSet(S), NEW f
  PROVE  IsFiniteSet({f[x] : x \in S})
<1> DEFINE g == [x \in S |-> f[x]]
<1>1. g \in Surjection(S, {f[x] : x \in S})
  BY DEF Surjection
<1> QED
  BY <1>1, FS_Surjection

\* A set of rows of a catalog is finite.
LEMMA RowsFinite ==
  ASSUME NEW Kind, NEW rows \in Seq(Kind), NEW S, S \subseteq Engines!Range(rows)
  PROVE  IsFiniteSet(S)
<1>1. IsFiniteSet(1..Len(rows))
  BY FS_Interval
<1>2. Engines!Range(rows) = {rows[i] : i \in 1..Len(rows)}
  BY DEF Engines!Range
<1>3. IsFiniteSet(Engines!Range(rows))
  BY <1>1, <1>2, ValuesFinite
<1> QED
  BY <1>3, FS_Subset

\* Rows that have one value between them have it each.
LEMMA OneValue ==
  ASSUME NEW S, IsFiniteSet(S), NEW f, Cardinality({f[x] : x \in S}) = 1
  PROVE  \A x, y \in S : f[x] = f[y]
<1> DEFINE values == {f[x] : x \in S}
<1>1. IsFiniteSet(values)
  BY ValuesFinite
<1>2. \A T : IsFiniteSet(T) => (Cardinality(T) = 1 <=> \E v : T = {v})
  BY FS_Singleton
<1>3. PICK v : values = {v}
  BY <1>1, <1>2, Zenon
<1> QED
  BY <1>3

\* EngineCatalog counts as this module does.
LEMMA SameCardinality == ASSUME NEW S PROVE Engines!Cardinality(S) = Cardinality(S)
BY DEF Engines!Cardinality, Cardinality

\* The rows of one version of a strategy's engine, in any spelling.
Versions(releases, strategy, version) ==
  {r \in Engines!Range(releases) :
     Engines!Alike(r.engine_name, Engines!engine_name(strategy)) /\ Engines!Alike(r.version, version)}
\* The version a caller asks for, the recommended one when it names none.
Wanted(releases, strategy, requested) ==
  IF Engines!Given(requested) THEN Engines!Trim(requested)
  ELSE Engines!recommended_engine_version(releases, Engines!engine_name(strategy))

\* What the check of the dialect says of the rows of a version.
LEMMA Compatible ==
  ASSUME NEW Kind, NEW releases \in Seq(Kind), NEW strategy, NEW version
  PROVE  LET candidates == {r \in Versions(releases, strategy, version) : r.status # "Yanked"}
             dialect == Engines!config_dialect(strategy)
         IN /\ Engines!validate_release_compatibility(strategy, version, releases) =>
                 \E r \in candidates : r.config_dialect = dialect
            /\ candidates # {} /\ (\A r \in candidates : r.config_dialect = dialect) =>
                 Engines!validate_release_compatibility(strategy, version, releases)
<1> DEFINE I == {i \in 1..Len(releases) :
                   /\ Engines!Alike(releases[i].engine_name, Engines!engine_name(strategy))
                   /\ Engines!Alike(releases[i].version, version) /\ releases[i].status # "Yanked"}
           found == IF I # {} THEN Engines!Min(I) ELSE 0
           candidates == {r \in Versions(releases, strategy, version) : r.status # "Yanked"}
<1>1. Engines!validate_release_compatibility(strategy, version, releases)
        <=> found # 0 /\ releases[found].config_dialect = Engines!config_dialect(strategy)
  BY DEF Engines!validate_release_compatibility, Engines!SelectInSeq
<1>2. /\ found # 0 <=> I # {}
      /\ found # 0 => found \in I /\ releases[found] \in Engines!Range(releases)
  BY FoundFirst
<1>3. found # 0 => releases[found] \in candidates
  BY <1>2 DEF Versions
<1>4. candidates # {} => I # {}
  BY DEF Versions, Engines!Range
<1> HIDE DEF found, I, candidates
<1> QED
  BY <1>1, <1>2, <1>3, <1>4 DEF candidates

\* What a selection says of the rows of the version that was asked for.
LEMMA Selected ==
  ASSUME NEW Kind, NEW releases \in Seq(Kind), NEW strategy, NEW requested
  PROVE  LET version == Wanted(releases, strategy, requested)
             named == Versions(releases, strategy, version)
             selection == Engines!resolve_engine_release_selection(releases, strategy, requested)
         IN /\ Engines!Accepted(releases, strategy, requested) =>
                 /\ version # Engines!Absent
                 /\ \E r \in named :
                      /\ selection.version = r.version /\ selection.status = r.status
                      /\ r.status # "Yanked"
                      /\ Engines!validate_release_compatibility(strategy, r.version, releases)
            /\ /\ version # Engines!Absent /\ named # {}
               /\ \A r \in named :
                    /\ r.status # "Yanked"
                    /\ Engines!validate_release_compatibility(strategy, r.version, releases)
               => Engines!Accepted(releases, strategy, requested)
<1> DEFINE version == Wanted(releases, strategy, requested)
           named == Versions(releases, strategy, version)
           I == {i \in 1..Len(releases) :
                   /\ Engines!Alike(releases[i].engine_name, Engines!engine_name(strategy))
                   /\ Engines!Alike(releases[i].version, version)}
           found == IF I # {} THEN Engines!Min(I) ELSE 0
           release == releases[found]
           selection == Engines!resolve_engine_release_selection(releases, strategy, requested)
           compatible == Engines!validate_release_compatibility(strategy, release.version, releases)
<1>1. selection =
        IF version = Engines!Absent THEN Engines!Refused("MissingExpectedChecksum")
        ELSE IF found = 0 THEN Engines!Refused("UnknownEngineVersion")
        ELSE IF release.status = "Yanked" THEN Engines!Refused("YankedEngineVersion")
        ELSE IF ~compatible THEN Engines!Refused("IncompatibleEngineRelease")
        ELSE [error |-> Engines!Absent, version |-> release.version, status |-> release.status,
              warning |-> release.status = "Deprecated"]
  BY Zenon DEF Engines!resolve_engine_release_selection, Engines!SelectInSeq, Wanted
<1>2. /\ found # 0 <=> I # {}
      /\ found # 0 => found \in I /\ releases[found] \in Engines!Range(releases)
  BY FoundFirst
<1>3. found # 0 => release \in named
  BY <1>2 DEF Versions
<1>4. named # {} => I # {}
  BY DEF Versions, Engines!Range
<1>5. selection.error = Engines!Absent <=>
        version # Engines!Absent /\ found # 0 /\ release.status # "Yanked" /\ compatible
  <2> HIDE DEF selection, found, release, compatible, version
  <2> QED
    BY <1>1 DEF Engines!Refused, Engines!Absent
<1>6. selection.error = Engines!Absent =>
        selection.version = release.version /\ selection.status = release.status
  <2> HIDE DEF selection, found, release, compatible, version
  <2> QED
    BY <1>1, <1>5
<1>7. Engines!Accepted(releases, strategy, requested) <=> selection.error = Engines!Absent
  BY DEF Engines!Accepted
<1> HIDE DEF found, I, named, version, selection, release
<1>8. ASSUME selection.error = Engines!Absent
      PROVE  /\ version # Engines!Absent /\ release \in named
             /\ selection.version = release.version /\ selection.status = release.status
             /\ release.status # "Yanked" /\ compatible
  BY <1>3, <1>5, <1>6, <1>8
<1>9. ASSUME version # Engines!Absent, named # {},
             \A r \in named :
               /\ r.status # "Yanked"
               /\ Engines!validate_release_compatibility(strategy, r.version, releases)
      PROVE  selection.error = Engines!Absent
  BY <1>2, <1>3, <1>4, <1>5, <1>9
<1> QED
  BY <1>7, <1>8, <1>9, Zenon DEF version, named, selection

\* The checksum that is found is that of a row for the target.
LEMMA PinnedRow ==
  ASSUME NEW Kind, NEW releases \in Seq(Kind), NEW strategy, NEW version, NEW target
  PROVE  LET candidates == {r \in Versions(releases, strategy, version) :
                  /\ r.status # "Yanked"
                  /\ Engines!Alike(Engines!normalize_os(r.target_os), Engines!normalize_os(target))}
             pinned == Engines!find_pinned_binary_checksum(
                         releases, Engines!engine_name(strategy), version, target)
         IN /\ candidates = {} => pinned = Engines!Absent
            /\ candidates # {} => \E r \in candidates : pinned = r.binary_sha256
<1> DEFINE I == {i \in 1..Len(releases) :
                   /\ Engines!Alike(releases[i].engine_name, Engines!engine_name(strategy))
                   /\ Engines!Alike(releases[i].version, version) /\ releases[i].status # "Yanked"
                   /\ Engines!Alike(Engines!normalize_os(releases[i].target_os),
                                    Engines!normalize_os(target))}
           found == IF I # {} THEN Engines!Min(I) ELSE 0
           candidates == {r \in Versions(releases, strategy, version) :
                  /\ r.status # "Yanked"
                  /\ Engines!Alike(Engines!normalize_os(r.target_os), Engines!normalize_os(target))}
<1>1. Engines!find_pinned_binary_checksum(releases, Engines!engine_name(strategy), version, target)
        = IF found = 0 THEN Engines!Absent ELSE releases[found].binary_sha256
  BY DEF Engines!find_pinned_binary_checksum, Engines!SelectInSeq
<1>2. /\ found # 0 <=> I # {}
      /\ found # 0 => found \in I /\ releases[found] \in Engines!Range(releases)
  BY FoundFirst
<1>3. found # 0 => releases[found] \in candidates
  BY <1>2 DEF Versions
<1>4. candidates # {} => I # {}
  BY DEF Versions, Engines!Range
<1> HIDE DEF found, I, candidates
<1> QED
  BY <1>1, <1>2, <1>3, <1>4 DEF candidates

\* The names of the engines are in lower case.
LEMMA EngineNames ==
  ASSUME NEW strategy
  PROVE  Engines!Lower(Engines!engine_name(strategy)) = Engines!engine_name(strategy)
<1>1. Engines!engine_name(strategy) \in {"xray-core", "sing-box"}
  BY DEF Engines!engine_name
<1> QED
  BY <1>1 DEF Engines!Lower

\* The rows a lookup by version sees are the rows the admission compared.
LEMMA SameRows ==
  ASSUME NEW catalog, NEW strategy, NEW version
  PROVE  Versions(catalog.releases, strategy, version)
           = Engines!RowsOf(catalog, <<Engines!engine_name(strategy), Engines!Lower(version)>>)
BY EngineNames DEF Versions, Engines!RowsOf, Engines!Version, Engines!Alike

\* What an admitted catalog promises.
LEMMA Admitted ==
  ASSUME NEW Kind, NEW catalog, catalog.releases \in Seq(Kind),
         Engines!validate_engine_catalog(catalog)
  PROVE  /\ \A r \in Engines!Range(catalog.releases) :
              LET rows == Engines!RowsOf(catalog, Engines!Version(r)) IN
              /\ r \in rows /\ Engines!is_lower_sha256(r.binary_sha256)
              /\ \A q \in rows : q.status = r.status /\ q.config_dialect = r.config_dialect
              /\ {Engines!normalize_os(q.target_os) : q \in rows} = Engines!Targets(catalog)
         /\ \A r, q \in Engines!Range(catalog.releases) :
              /\ Engines!Alike(r.engine_name, q.engine_name)
              /\ r.status = "Recommended" /\ q.status = "Recommended"
              => Engines!Version(r) = Engines!Version(q)
<1>1. ASSUME NEW r \in Engines!Range(catalog.releases)
      PROVE  /\ Engines!is_lower_sha256(r.binary_sha256)
             /\ Engines!OneStatusAndDialect(Engines!RowsOf(catalog, Engines!Version(r)))
             /\ Engines!CoversEveryTarget(catalog, Engines!RowsOf(catalog, Engines!Version(r)))
             /\ Engines!Cardinality(Engines!RecommendedVersions(catalog, r.engine_name)) = 1
  BY DEF Engines!validate_engine_catalog
<1>2. ASSUME NEW r \in Engines!Range(catalog.releases)
      PROVE  LET rows == Engines!RowsOf(catalog, Engines!Version(r)) IN
             /\ r \in rows /\ Engines!is_lower_sha256(r.binary_sha256)
             /\ \A q \in rows : q.status = r.status /\ q.config_dialect = r.config_dialect
             /\ {Engines!normalize_os(q.target_os) : q \in rows} = Engines!Targets(catalog)
  <2> DEFINE rows == Engines!RowsOf(catalog, Engines!Version(r))
             status == [q \in rows |-> q.status]
             dialect == [q \in rows |-> q.config_dialect]
  <2>1. r \in rows /\ rows \subseteq Engines!Range(catalog.releases)
    BY DEF Engines!RowsOf
  <2>2. IsFiniteSet(rows)
    BY <2>1, RowsFinite
  <2>3. /\ Cardinality({q.status : q \in rows}) = 1
        /\ Cardinality({q.config_dialect : q \in rows}) = 1
    BY <1>1, SameCardinality DEF Engines!OneStatusAndDialect
  <2>4. /\ {q.status : q \in rows} = {status[q] : q \in rows}
        /\ {q.config_dialect : q \in rows} = {dialect[q] : q \in rows}
    OBVIOUS
  <2>5. \A x, y \in rows : status[x] = status[y] /\ dialect[x] = dialect[y]
    <3> HIDE DEF status, dialect, rows
    <3>1. Cardinality({status[q] : q \in rows}) = 1 /\ Cardinality({dialect[q] : q \in rows}) = 1
      BY <2>3, <2>4
    <3>2. \A x, y \in rows : status[x] = status[y]
      BY <2>2, <3>1, OneValue
    <3>3. \A x, y \in rows : dialect[x] = dialect[y]
      BY <2>2, <3>1, OneValue
    <3> QED
      BY <3>2, <3>3
  <2>6. \A q \in rows : q.status = r.status /\ q.config_dialect = r.config_dialect
    BY <2>1, <2>5
  <2> QED
    BY <1>1, <2>1, <2>6 DEF Engines!CoversEveryTarget
<1>3. ASSUME NEW r \in Engines!Range(catalog.releases), NEW q \in Engines!Range(catalog.releases),
             Engines!Alike(r.engine_name, q.engine_name),
             r.status = "Recommended", q.status = "Recommended"
      PROVE  Engines!Version(r) = Engines!Version(q)
  <2> DEFINE rows == {s \in Engines!Range(catalog.releases) :
                       Engines!Alike(s.engine_name, r.engine_name) /\ s.status = "Recommended"}
             version == [s \in rows |-> Engines!Lower(s.version)]
  <2>1. r \in rows /\ q \in rows
    BY <1>3 DEF Engines!Alike
  <2>2. IsFiniteSet(rows)
    BY RowsFinite
  <2>3. {version[s] : s \in rows} = Engines!RecommendedVersions(catalog, r.engine_name)
    BY DEF Engines!RecommendedVersions
  <2>4. Cardinality({version[s] : s \in rows}) = 1
    BY <1>1, <2>3, SameCardinality
  <2>5. version[r] = version[q]
    <3> HIDE DEF version, rows
    <3> QED
      BY <2>1, <2>2, <2>4, OneValue
  <2> QED
    BY <1>3, <2>1, <2>5 DEF Engines!Version, Engines!Alike
<1> QED
  BY <1>2, <1>3

\* The recommended version, when there is one, is that of a recommended row.
LEMMA RecommendedRow ==
  ASSUME NEW Kind, NEW releases \in Seq(Kind), NEW engine,
         Engines!recommended_engine_version(releases, engine) # Engines!Absent
  PROVE  \E r \in Engines!Range(releases) :
           /\ Engines!Alike(r.engine_name, engine) /\ r.status = "Recommended"
           /\ r.version = Engines!recommended_engine_version(releases, engine)
<1> DEFINE rows == {q \in Engines!Range(releases) :
                      Engines!Alike(q.engine_name, engine) /\ q.status = "Recommended"}
           versions == {r.version : r \in rows}
<1>1. /\ Engines!Cardinality(versions) = 1
      /\ Engines!recommended_engine_version(releases, engine) = CHOOSE v \in versions : TRUE
  BY DEF Engines!recommended_engine_version
<1> DEFINE version == [r \in rows |-> r.version]
<1>2. versions = {version[r] : r \in rows} /\ IsFiniteSet(rows)
  BY RowsFinite
<1>3. Cardinality({version[r] : r \in rows}) = 1
  BY <1>1, <1>2, SameCardinality
<1>4. versions # {}
  <2>1. \A T : IsFiniteSet(T) => (Cardinality(T) = 1 <=> \E v : T = {v})
    BY FS_Singleton
  <2>2. IsFiniteSet({version[r] : r \in rows})
    <3> HIDE DEF version, rows
    <3> QED
      BY <1>2, ValuesFinite
  <2> QED
    BY <1>2, <1>3, <2>1, <2>2
<1> QED
  BY <1>1, <1>4

\* What the rows of a selected version have in common.
RowsAgree(catalog, strategy, requested) ==
  LET releases == catalog.releases
      selection == Engines!resolve_engine_release_selection(releases, strategy, requested)
      rows == Versions(releases, strategy, selection.version)
  IN /\ \A r \in rows : /\ r.status = selection.status /\ r.status # "Yanked"
                        /\ r.config_dialect = Engines!config_dialect(strategy)
                        /\ Engines!is_lower_sha256(r.binary_sha256)
     /\ {Engines!normalize_os(r.target_os) : r \in rows} = Engines!Targets(catalog)
     /\ Engines!Alike(selection.version, Wanted(releases, strategy, requested))
     /\ Wanted(releases, strategy, requested) # Engines!Absent

\* The release an accepted request selects, and the rows of its version.
LEMMA SelectedRows ==
  ASSUME NEW Kind, NEW catalog, catalog.releases \in Seq(Kind),
         Engines!validate_engine_catalog(catalog), NEW strategy, NEW requested,
         Engines!Accepted(catalog.releases, strategy, requested)
  PROVE  RowsAgree(catalog, strategy, requested)
<1> DEFINE releases == catalog.releases
           selection == Engines!resolve_engine_release_selection(releases, strategy, requested)
           rows == Versions(releases, strategy, selection.version)
           wanted == Wanted(releases, strategy, requested)
<1>1. wanted # Engines!Absent
  BY Selected
<1>2. PICK release \in Versions(releases, strategy, wanted) :
        /\ selection.version = release.version /\ selection.status = release.status
        /\ release.status # "Yanked"
        /\ Engines!validate_release_compatibility(strategy, release.version, releases)
  BY Selected
<1>3. /\ release \in Engines!Range(releases) /\ Engines!Alike(release.version, wanted)
      /\ Engines!Version(release) = <<Engines!engine_name(strategy), Engines!Lower(release.version)>>
  BY EngineNames DEF Versions, Engines!Version, Engines!Alike
<1>4. rows = Engines!RowsOf(catalog, Engines!Version(release))
  BY <1>2, <1>3, SameRows
<1>5. /\ \A q \in rows : q.status = release.status /\ q.config_dialect = release.config_dialect
      /\ {Engines!normalize_os(q.target_os) : q \in rows} = Engines!Targets(catalog)
  BY <1>3, <1>4, Admitted
<1>6. \E r \in rows : r.config_dialect = Engines!config_dialect(strategy)
  BY <1>2, Compatible
<1>7. \A r \in rows : Engines!is_lower_sha256(r.binary_sha256)
  BY Admitted DEF Versions
<1> QED
  BY <1>1, <1>2, <1>3, <1>4, <1>5, <1>6, <1>7 DEF RowsAgree

\* A selection from an admitted catalog of any size speaks for all rows of its
\* version: their status, their dialect, and a checksum on every declared target
\* (engine.rs).
THEOREM SelectionIsSound ==
  ASSUME NEW Kind, NEW catalog, catalog.releases \in Seq(Kind),
         Engines!validate_engine_catalog(catalog), NEW strategy, NEW requested
  PROVE  Engines!SelectionSound(catalog, strategy, requested)
<1> DEFINE releases == catalog.releases
           selection == Engines!resolve_engine_release_selection(releases, strategy, requested)
           rows == Versions(releases, strategy, selection.version)
           Pinned(t) == Engines!find_pinned_binary_checksum(
                          releases, Engines!engine_name(strategy), selection.version, t)
<1> SUFFICES ASSUME Engines!Accepted(releases, strategy, requested)
             PROVE  /\ \A r \in rows : /\ r.status = selection.status /\ r.status # "Yanked"
                                       /\ r.config_dialect = Engines!config_dialect(strategy)
                    /\ IF Engines!Given(requested)
                       THEN Engines!Alike(selection.version, Engines!Trim(requested))
                       ELSE selection.status = "Recommended"
                    /\ \A t \in Engines!Range(catalog.declared_targets) : \E r \in rows :
                         /\ Pinned(t) = r.binary_sha256
                         /\ \/ Engines!normalize_os(r.target_os) = Engines!normalize_os(t)
                            \/ Engines!Ambiguous(catalog)
  <2>1. Engines!get_pinned_engine_releases(catalog) = releases
    BY DEF Engines!get_pinned_engine_releases
  <2>2. rows = Engines!RowsOf(catalog, <<Engines!engine_name(strategy),
                                        Engines!Lower(selection.version)>>)
    BY SameRows
  <2> QED
    BY <2>1, <2>2 DEF Engines!SelectionSound
<1>1. /\ \A r \in rows : /\ r.status = selection.status /\ r.status # "Yanked"
                         /\ r.config_dialect = Engines!config_dialect(strategy)
      /\ {Engines!normalize_os(r.target_os) : r \in rows} = Engines!Targets(catalog)
      /\ Engines!Alike(selection.version, Wanted(releases, strategy, requested))
      /\ Wanted(releases, strategy, requested) # Engines!Absent
  <2>1. RowsAgree(catalog, strategy, requested)
    BY SelectedRows
  <2> QED
    BY <2>1 DEF RowsAgree
<1>2. ASSUME ~Engines!Given(requested) PROVE selection.status = "Recommended"
  <2>1. Wanted(releases, strategy, requested)
          = Engines!recommended_engine_version(releases, Engines!engine_name(strategy))
    BY <1>2 DEF Wanted
  <2>2. PICK r \in Engines!Range(releases) :
          /\ Engines!Alike(r.engine_name, Engines!engine_name(strategy))
          /\ r.status = "Recommended" /\ r.version = Wanted(releases, strategy, requested)
    BY <1>1, <2>1, RecommendedRow
  <2>3. r \in rows
    BY <1>1, <2>2 DEF Versions, Engines!Alike
  <2> QED
    BY <1>1, <2>2, <2>3
<1>3. ASSUME NEW t \in Engines!Range(catalog.declared_targets)
      PROVE  \E r \in rows :
               /\ Pinned(t) = r.binary_sha256
               /\ \/ Engines!normalize_os(r.target_os) = Engines!normalize_os(t)
                  \/ Engines!Ambiguous(catalog)
  <2> DEFINE candidates == {r \in rows : /\ r.status # "Yanked"
                  /\ Engines!Alike(Engines!normalize_os(r.target_os), Engines!normalize_os(t))}
  <2>1. Engines!normalize_os(t) \in Engines!Targets(catalog)
    BY DEF Engines!Targets
  <2>2. candidates # {}
    BY <1>1, <2>1 DEF Engines!Alike
  <2>3. PICK r \in candidates : Pinned(t) = r.binary_sha256
    BY <2>2, PinnedRow
  <2>4. Engines!normalize_os(r.target_os) \in Engines!Targets(catalog)
    BY <1>1
  <2>5. \/ Engines!normalize_os(r.target_os) = Engines!normalize_os(t)
        \/ Engines!Ambiguous(catalog)
    BY <2>1, <2>3, <2>4 DEF Engines!Ambiguous
  <2> QED
    BY <2>3, <2>5
<1>4. Engines!Given(requested) => Engines!Alike(selection.version, Engines!Trim(requested))
  BY <1>1 DEF Wanted
<1> HIDE DEF selection, rows, Pinned
<1> QED
  BY <1>1, <1>2, <1>3, <1>4

\* Without a version the recommended one is found whenever its rows spell it alike
\* and it speaks the dialect; a row always has a version (engine.rs).
THEOREM DefaultIsFound ==
  ASSUME NEW Kind, NEW catalog, catalog.releases \in Seq(Kind),
         Engines!validate_engine_catalog(catalog), NEW strategy,
         \A r \in Engines!Range(catalog.releases) : r.version # Engines!Absent
  PROVE  Engines!DefaultFound(catalog, strategy)
<1> DEFINE releases == catalog.releases
           engine == Engines!engine_name(strategy)
<1> SUFFICES ASSUME NEW r \in Engines!Range(releases),
                    Engines!Lower(r.engine_name) = engine, r.status = "Recommended",
                    r.config_dialect = Engines!config_dialect(strategy),
                    Engines!SpelledAlike(Engines!RowsOf(catalog, Engines!Version(r)))
             PROVE  Engines!Accepted(releases, strategy, Engines!Absent)
  BY DEF Engines!DefaultFound, Engines!get_pinned_engine_releases
<1> DEFINE rows == Engines!RowsOf(catalog, Engines!Version(r))
<1>1. r \in rows /\ \A q \in rows : q.status = r.status /\ q.config_dialect = r.config_dialect
  BY Admitted
<1>2. rows = Versions(releases, strategy, r.version)
  BY SameRows DEF Engines!Version
<1>3. \A q \in rows : q.version = r.version
  <2> DEFINE version == [q \in rows |-> q.version]
  <2>1. Cardinality({version[q] : q \in rows}) = 1
    BY SameCardinality DEF Engines!SpelledAlike
  <2>2. IsFiniteSet(rows)
    <3>1. rows \subseteq Engines!Range(releases)
      BY DEF Engines!RowsOf
    <3> QED
      BY <3>1, RowsFinite
  <2>3. \A x, y \in rows : version[x] = version[y]
    <3> HIDE DEF version, rows
    <3> QED
      BY <2>1, <2>2, OneValue
  <2> QED
    BY <1>1, <2>3
<1>4. Engines!recommended_engine_version(releases, engine) = r.version
  <2> DEFINE recommended == {q \in Engines!Range(releases) :
                               Engines!Alike(q.engine_name, engine) /\ q.status = "Recommended"}
             versions == {q.version : q \in recommended}
  <2>1. r \in recommended
    BY EngineNames DEF Engines!Alike
  <2>2. ASSUME NEW q \in recommended PROVE q.version = r.version
    <3>1. Engines!Version(q) = Engines!Version(r)
      BY <2>1, Admitted DEF Engines!Alike
    <3> QED
      BY <1>3, <3>1 DEF Engines!RowsOf
  <2>3. versions = {r.version}
    BY <2>1, <2>2
  <2>4. Engines!Cardinality(versions) = 1
    BY <2>3, SameCardinality, FS_Singleton
  <2> QED
    BY <2>3, <2>4 DEF Engines!recommended_engine_version
<1>5. Wanted(releases, strategy, Engines!Absent) = r.version
  BY <1>4 DEF Wanted, Engines!Given, Engines!Trim, Engines!Absent
<1>6. \A q \in rows :
        /\ q.status # "Yanked"
        /\ Engines!validate_release_compatibility(strategy, q.version, releases)
  <2>1. Engines!validate_release_compatibility(strategy, r.version, releases)
    BY <1>1, <1>2, Compatible
  <2> QED
    BY <1>1, <1>3, <2>1
<1> QED
  BY <1>1, <1>2, <1>5, <1>6, Selected

\* A file is started only as what the caller pinned, or as a row for the target of
\* the version that was asked for and selected, whatever the request and the file
\* are (engine.rs).
THEOREM OnlyPinnedStart ==
  ASSUME NEW Kind, NEW catalog, catalog.releases \in Seq(Kind),
         Engines!validate_engine_catalog(catalog), NEW strategy, NEW requested,
         NEW explicit, NEW target, NEW file
  PROVE  Engines!StartedIsPinned(catalog.releases, strategy, requested, explicit, target, file)
<1> DEFINE releases == catalog.releases
           selection == Engines!resolve_engine_release_selection(releases, strategy, requested)
           pinned == Engines!find_pinned_binary_checksum(
                       releases, Engines!engine_name(strategy), selection.version, target)
           expected == Engines!resolve_expected_binary_checksum(
                         releases, strategy, requested, explicit, target)
<1> SUFFICES ASSUME Engines!verify_selected_engine_artifact(
                      releases, file, strategy, requested, explicit, target) = Engines!Absent
             PROVE  /\ file.kind = "file" /\ file.executable
                    /\ Engines!Accepted(releases, strategy, requested)
                    /\ IF explicit # Engines!Absent
                       THEN file.sha256 = Engines!Lower(Engines!Trim(explicit))
                       ELSE \E r \in Engines!Range(releases) :
                              /\ r.binary_sha256 = file.sha256
                              /\ Engines!AskedFor(r, strategy, requested)
                              /\ Engines!Alike(r.version, selection.version)
                              /\ r.status # "Yanked"
                              /\ r.config_dialect = Engines!config_dialect(strategy)
                              /\ Engines!Alike(Engines!normalize_os(r.target_os),
                                               Engines!normalize_os(target))
  BY DEF Engines!StartedIsPinned
<1>1. /\ selection.error = Engines!Absent
      /\ Engines!validate_engine_binary_path(file) = Engines!Absent
      /\ expected.error = Engines!Absent
      /\ Engines!verify_engine_artifact(file, expected.value) = Engines!Absent
  <2> HIDE DEF selection, expected
  <2> QED
    BY DEF Engines!verify_selected_engine_artifact, selection, expected, Engines!Absent
<1>2. file.kind = "file" /\ file.executable
  BY <1>1 DEF Engines!validate_engine_binary_path, Engines!Absent
<1>3. file.sha256 = Engines!Lower(Engines!Trim(expected.value))
  BY <1>1 DEF Engines!verify_engine_artifact, Engines!Absent
<1>4. Engines!Accepted(releases, strategy, requested)
  BY <1>1 DEF Engines!Accepted
<1>5. expected = IF explicit # Engines!Absent
                 THEN [error |-> Engines!Absent, value |-> explicit, pinned |-> FALSE]
                 ELSE IF pinned = Engines!Absent
                 THEN Engines!Refused("MissingPinnedBinaryChecksum")
                 ELSE [error |-> Engines!Absent, value |-> pinned, pinned |-> TRUE]
  BY <1>1, Zenon DEF Engines!resolve_expected_binary_checksum
<1>6. CASE explicit # Engines!Absent
  <2>1. expected.value = explicit
    BY <1>5, <1>6
  <2> QED
    BY <1>2, <1>3, <1>4, <1>6, <2>1
<1>7. CASE explicit = Engines!Absent
  <2>1. pinned # Engines!Absent
    BY <1>1, <1>5, <1>7 DEF Engines!Refused, Engines!Absent
  <2>2. expected.value = pinned
    BY <1>5, <1>7, <2>1
  <2> DEFINE candidates == {r \in Versions(releases, strategy, selection.version) :
                  /\ r.status # "Yanked"
                  /\ Engines!Alike(Engines!normalize_os(r.target_os), Engines!normalize_os(target))}
  <2>3. PICK r \in candidates : pinned = r.binary_sha256
    BY <2>1, PinnedRow
  <2>4. /\ r \in Engines!Range(releases) /\ Engines!is_lower_sha256(r.binary_sha256)
        /\ r.config_dialect = Engines!config_dialect(strategy) /\ r.status = selection.status
        /\ Engines!Alike(r.engine_name, Engines!engine_name(strategy))
        /\ Engines!Alike(r.version, selection.version)
    <3>1. RowsAgree(catalog, strategy, requested)
      BY <1>4, SelectedRows
    <3>2. r \in Versions(releases, strategy, selection.version)
      BY <2>3
    <3> QED
      BY <3>1, <3>2 DEF RowsAgree, Versions
  <2>6. Engines!AskedFor(r, strategy, requested)
    <3>1. /\ Engines!SelectionSound(catalog, strategy, requested)
          /\ Engines!get_pinned_engine_releases(catalog) = releases
      BY SelectionIsSound DEF Engines!get_pinned_engine_releases
    <3>2. IF Engines!Given(requested)
          THEN Engines!Alike(selection.version, Engines!Trim(requested))
          ELSE selection.status = "Recommended"
      BY <1>4, <3>1 DEF Engines!SelectionSound
    <3> QED
      BY <2>4, <3>2 DEF Engines!AskedFor, Engines!Alike
  <2>5. file.sha256 = r.binary_sha256
    BY <1>3, <2>2, <2>3, <2>4 DEF Engines!is_lower_sha256, Engines!Lower, Engines!Trim
  <2> QED
    BY <1>2, <1>4, <1>7, <2>3, <2>4, <2>5, <2>6
<1> QED
  BY <1>6, <1>7

-----------------------------------------------------------------------------
(* Plans and their rollback                                                *)

\* The places of the members of a finite set by a number that each has for itself:
\* they are 1 to the size of the set, in the order of the numbers.
LEMMA Places ==
  ASSUME NEW D, IsFiniteSet(D), NEW v \in [D -> Int], \A x, y \in D : v[x] = v[y] => x = y,
         NEW r, r = [x \in D |-> Cardinality({y \in D : v[y] <= v[x]})]
  PROVE  /\ Cardinality(D) \in Nat
         /\ \A x \in D : r[x] \in 1..Cardinality(D)
         /\ \A x, y \in D : r[x] < r[y] <=> v[x] < v[y]
         /\ \A i \in 1..Cardinality(D) : \E x \in D : r[x] = i
<1> DEFINE Below(x) == {y \in D : v[y] <= v[x]}
<1>1. Cardinality(D) \in Nat
  BY FS_CardinalityType
<1>2. ASSUME NEW x \in D PROVE r[x] \in 1..Cardinality(D) /\ IsFiniteSet(Below(x))
  <2>1. Below(x) \in SUBSET D /\ x \in Below(x)
    OBVIOUS
  <2>2. IsFiniteSet(Below(x)) /\ Cardinality(Below(x)) <= Cardinality(D)
    BY <2>1, FS_Subset
  <2>3. Cardinality(Below(x)) \in Nat /\ Cardinality(Below(x)) # 0
    BY <2>1, <2>2, FS_CardinalityType, FS_EmptySet
  <2> QED
    BY <1>1, <2>2, <2>3
<1>3. ASSUME NEW x \in D, NEW y \in D, v[x] < v[y] PROVE r[x] < r[y]
  <2>1. Below(x) \in SUBSET Below(y) /\ y \in Below(y) /\ y \notin Below(x)
    BY <1>3
  <2>2. Cardinality(Below(x)) <= Cardinality(Below(y))
        /\ Cardinality(Below(x)) # Cardinality(Below(y))
    BY <1>2, <2>1, FS_Subset
  <2>3. r[x] <= r[y] /\ r[x] # r[y]
    BY <2>2
  <2>4. r[x] \in Nat /\ r[y] \in Nat
    BY <1>1, <1>2
  <2> QED
    BY <2>3, <2>4
<1>4. ASSUME NEW x \in D, NEW y \in D PROVE r[x] < r[y] <=> v[x] < v[y]
  <2>1. CASE v[x] = v[y]
    <3>1. x = y
      BY <2>1
    <3>2. r[x] \in Nat
      BY <1>1, <1>2
    <3> QED
      BY <2>1, <3>1, <3>2
  <2>2. CASE v[x] < v[y]
    BY <2>2, <1>3
  <2>3. CASE v[y] < v[x]
    <3>1. r[y] < r[x] /\ r[x] \in Nat /\ r[y] \in Nat
      BY <1>1, <1>2, <1>3, <2>3
    <3> QED
      BY <2>3, <3>1
  <2> QED
    BY <2>1, <2>2, <2>3
<1>5. \A i \in 1..Cardinality(D) : \E x \in D : r[x] = i
  <2>1. \A x, y \in D : r[x] = r[y] => x = y
    <3> SUFFICES ASSUME NEW x \in D, NEW y \in D, r[x] = r[y] PROVE v[x] = v[y]
      OBVIOUS
    <3>1. ~(r[x] < r[y]) /\ ~(r[y] < r[x])
      BY <1>1, <1>2
    <3> QED
      BY <1>4, <3>1
  <2>2. r \in Injection(D, 1..Cardinality(D))
    BY <1>2, <2>1 DEF Injection, IsInjective
  <2>3. IsFiniteSet(1..Cardinality(D)) /\ Cardinality(1..Cardinality(D)) = Cardinality(D)
    BY <1>1, FS_Interval
  <2>4. r \in Surjection(D, 1..Cardinality(D))
    BY <2>2, <2>3, FS_Injection
  <2> QED
    BY <2>4 DEF Surjection
<1> QED
  BY <1>1, <1>2, <1>4, <1>5

\* A size is the same in both modules.
LEMMA RulesCardinality == ASSUME NEW S PROVE Rules!Cardinality(S) = Cardinality(S)
BY DEF Rules!Cardinality, Cardinality

\* A number that may be missing, as it is written in NetworkRules.
Optional == {order \in Seq(Nat) : Len(order) <= 1}

\* What is asked of the operations of a state: a list, with orders that are numbers.
Listing(operations) ==
  /\ DOMAIN operations = 1..Len(operations) /\ Len(operations) \in Nat
  /\ \A i \in DOMAIN operations : operations[i].apply_order \in Optional

\* The operations of a state that have something to undo.
Undone(state) == {o \in Rules!Range(state.operations) :
                    o.status \in Rules!PossiblyApplied /\ o.rollback.required}

\* The operations of a valid state: finitely many, each with a key and an order of
\* its own.
LEMMA OwnOrders ==
  ASSUME NEW state, Listing(state.operations), Rules!validate(state)
  PROVE  /\ IsFiniteSet(Rules!Range(state.operations))
         /\ \A o, p \in Rules!Range(state.operations) : o.key = p.key => o = p
         /\ \A o, p \in Rules!Range(state.operations) :
              o.apply_order # <<>> /\ o.apply_order = p.apply_order => o = p
         /\ \A o \in Rules!Range(state.operations) : o.apply_order \in Optional
<1> DEFINE operations == state.operations
<1>1. Rules!Range(operations) = {operations[i] : i \in 1..Len(operations)}
  BY DEF Listing, Rules!Range
<1>2. IsFiniteSet(Rules!Range(operations))
  <2>1. Len(operations) \in Int /\ 1 \in Int
    BY DEF Listing
  <2>3. IsFiniteSet(1..Len(operations))
    BY <2>1, FS_Interval
  <2>2. [i \in 1..Len(operations) |-> operations[i]]
          \in Surjection(1..Len(operations), Rules!Range(operations))
    BY <1>1 DEF Surjection
  <2> QED
    BY <2>2, <2>3, FS_Surjection
<1>3. \A i, j \in DOMAIN operations : operations[i].key = operations[j].key => i = j
  BY DEF Rules!validate, Rules!Unique
<1>4. \A i, j \in DOMAIN operations :
        operations[i].apply_order # <<>> /\ operations[i].apply_order = operations[j].apply_order
          => i = j
  BY DEF Rules!validate
<1>5. \A o \in Rules!Range(operations) : \E i \in DOMAIN operations : o = operations[i]
  BY DEF Rules!Range
<1>6. \A o, p \in Rules!Range(operations) : o.key = p.key => o = p
  BY <1>3, <1>5
<1>7. \A o, p \in Rules!Range(operations) :
        o.apply_order # <<>> /\ o.apply_order = p.apply_order => o = p
  BY <1>4, <1>5
<1>8. \A o \in Rules!Range(operations) : o.apply_order \in Optional
  BY <1>5 DEF Listing
<1> QED
  BY <1>2, <1>6, <1>7, <1>8

\* The rollback of a valid state undoes what it has to undo, once each and in reverse.
LEMMA RollbackUndoes ==
  ASSUME NEW state, Listing(state.operations), Rules!validate(state)
  PROVE  Rules!Undoes(state, {o.key : o \in Undone(state)})
<1> DEFINE undone == Undone(state)
           n == Rules!Cardinality(undone)
           v == [o \in undone |-> 0 - o.apply_order[1]]
           r == [o \in undone |-> Cardinality({p \in undone : v[p] <= v[o]})]
           Place(o) == Rules!Cardinality({p \in undone : p.apply_order[1] >= o.apply_order[1]})
           Taken(i) == CHOOSE o \in undone : Place(o) = i
           keys == {o.key : o \in undone}
           rollback == Rules!rollback_steps_reverse_order(state)
<1>1. IsFiniteSet(undone)
  BY OwnOrders, FS_Subset DEF Undone
<1>2. \A o \in undone : /\ o.apply_order # <<>> /\ o.apply_order[1] \in Nat
                        /\ o.apply_order = <<o.apply_order[1]>>
                        /\ o.rollback.inverse # Rules!NoInverse
                        /\ o \in Rules!Range(state.operations)
  <2> SUFFICES ASSUME NEW o \in undone
               PROVE  /\ o.apply_order # <<>> /\ o.apply_order[1] \in Nat
                      /\ o.apply_order = <<o.apply_order[1]>>
                      /\ o.rollback.inverse # Rules!NoInverse
                      /\ o \in Rules!Range(state.operations)
    OBVIOUS
  <2>1. o \in Rules!Range(state.operations) /\ o.rollback.required
    BY DEF Undone
  <2>2. Rules!OperationValid(o)
    BY <2>1 DEF Rules!validate
  <2>3. o.apply_order # <<>> /\ o.rollback.inverse # Rules!NoInverse
    BY <2>1, <2>2 DEF Rules!OperationValid, Rules!RollbackValid
  <2>4. o.apply_order \in Optional
    BY <2>1, OwnOrders
  <2> QED
    BY <2>1, <2>3, <2>4 DEF Optional
<1>3. v \in [undone -> Int] /\ \A o, p \in undone : v[o] = v[p] => o = p
  <2>1. v \in [undone -> Int]
    BY <1>2
  <2>2. ASSUME NEW o \in undone, NEW p \in undone, v[o] = v[p] PROVE o = p
    <3>1. o.apply_order[1] = p.apply_order[1]
      BY <1>2, <2>2
    <3>2. o.apply_order = p.apply_order
      BY <1>2, <3>1
    <3> QED
      BY <1>2, <3>2, OwnOrders
  <2> QED
    BY <2>1, <2>2
<1>4. /\ n \in Nat
      /\ \A x, y \in undone : r[x] < r[y] <=> v[x] < v[y]
      /\ \A i \in 1..n : \E x \in undone : r[x] = i
      /\ \A x \in undone : r[x] \in 1..n
  <2>1. r = [x \in undone |-> Cardinality({y \in undone : v[y] <= v[x]})]
    OBVIOUS
  <2>2. n = Cardinality(undone)
    BY RulesCardinality
  <2> HIDE DEF undone, v, r, n
  <2> QED
    BY <1>1, <1>3, <2>1, <2>2, Places
<1>5. \A o \in undone : Place(o) = r[o]
  <2> SUFFICES ASSUME NEW o \in undone PROVE Place(o) = r[o]
    OBVIOUS
  <2>1. {p \in undone : p.apply_order[1] >= o.apply_order[1]} = {p \in undone : v[p] <= v[o]}
    <3>1. \A p \in undone : p.apply_order[1] >= o.apply_order[1] <=> v[p] <= v[o]
      BY <1>2
    <3> QED
      BY <3>1
  <2> QED
    BY <2>1, RulesCardinality
<1>6. \A i \in 1..n : Taken(i) \in undone /\ r[Taken(i)] = i
  <2> HIDE DEF undone, Place, r
  <2> QED
    BY <1>4, <1>5
<1>7. \A o \in undone : \E i \in 1..n : Taken(i) = o
  <2> SUFFICES ASSUME NEW o \in undone PROVE Taken(r[o]) = o /\ r[o] \in 1..n
    OBVIOUS
  <2> HIDE DEF undone, Place, r, n, v
  <2>1. r[o] \in 1..n
    BY <1>4
  <2>2. Taken(r[o]) \in undone /\ r[Taken(r[o])] = r[o]
    BY <1>6, <2>1
  <2> HIDE DEF Taken
  <2>3. ~(v[Taken(r[o])] < v[o]) /\ ~(v[o] < v[Taken(r[o])])
    BY <1>4, <2>1, <2>2
  <2>4. v[Taken(r[o])] = v[o]
    BY <1>3, <2>2, <2>3
  <2> QED
    BY <1>3, <2>1, <2>2, <2>4
<1>8. /\ rollback.ok
      /\ rollback.steps = [i \in 1..n |-> Rules!RollbackStep(Taken(i))]
  <2>1. ~\E o \in undone : o.apply_order = <<>> \/ o.rollback.inverse = Rules!NoInverse
    BY <1>2
  <2> QED
    BY <2>1 DEF Rules!rollback_steps_reverse_order, Undone
<1> HIDE DEF rollback, Taken, n, Place, r
<1>9. DOMAIN rollback.steps = 1..n /\ Len(rollback.steps) = n
  BY <1>4, <1>8
<1>10. Rules!Descending(rollback.steps)
  <2> SUFFICES ASSUME NEW i \in 1..n, NEW j \in 1..n, i < j
               PROVE  rollback.steps[i].apply_order > rollback.steps[j].apply_order
    BY <1>9 DEF Rules!Descending
  <2>1. v[Taken(i)] < v[Taken(j)]
    BY <1>4, <1>6
  <2>2. Taken(i).apply_order[1] > Taken(j).apply_order[1]
    BY <1>2, <1>6, <2>1
  <2> QED
    BY <1>8, <2>2 DEF Rules!RollbackStep
<1>11. {s.operation_key : s \in Rules!Range(rollback.steps)} = keys
  <2>1. Rules!Range(rollback.steps) = {Rules!RollbackStep(o) : o \in undone}
    <3>1. Rules!Range(rollback.steps) = {Rules!RollbackStep(Taken(i)) : i \in 1..n}
      BY <1>8, <1>9 DEF Rules!Range
    <3> QED
      BY <1>6, <1>7, <3>1
  <2>2. \A o : Rules!RollbackStep(o).operation_key = o.key
    BY DEF Rules!RollbackStep
  <2> HIDE DEF undone
  <2> QED
    BY <2>1, <2>2
<1>12. Len(rollback.steps) = Cardinality(keys)
  <2> DEFINE f == [o \in undone |-> o.key]
  <2>1. \A o, p \in undone : o.key = p.key => o = p
    BY <1>2, OwnOrders
  <2>2. f \in Surjection(undone, keys) /\ f \in Injection(undone, keys)
    BY <2>1 DEF Surjection, Injection, IsInjective
  <2>3. Cardinality(keys) = n
    BY <1>1, <2>2, FS_Surjection, RulesCardinality DEF n
  <2> QED
    BY <1>9, <2>3
<1>13. \A s \in Rules!Range(rollback.steps) : \E o \in Rules!Range(state.operations) :
         s.operation_key = o.key /\ s.inverse = o.rollback.inverse /\ s.inverse # Rules!NoInverse
  <2> SUFFICES ASSUME NEW i \in 1..n
               PROVE  \E o \in Rules!Range(state.operations) :
                        /\ rollback.steps[i].operation_key = o.key
                        /\ rollback.steps[i].inverse = o.rollback.inverse
                        /\ rollback.steps[i].inverse # Rules!NoInverse
    BY <1>9 DEF Rules!Range
  <2>1. Taken(i) \in undone
    BY <1>6
  <2>2. rollback.steps[i].operation_key = Taken(i).key
        /\ rollback.steps[i].inverse = Taken(i).rollback.inverse
    BY <1>8 DEF Rules!RollbackStep
  <2> QED
    BY <1>2, <2>1, <2>2
<1> QED
  BY <1>8, <1>10, <1>11, <1>12, <1>13, RulesCardinality DEF rollback, Rules!Undoes

\* What a valid state may have done is undone, once each and in reverse order, for
\* states with any operations (network_state.rs).
THEOREM StatesUndone ==
  ASSUME NEW state, Listing(state.operations)
  PROVE  Rules!StateUndone(state)
<1> SUFFICES ASSUME Rules!validate(state)
             PROVE  Rules!Undoes(state, {o.key : o \in {p \in Rules!Range(state.operations) :
                                                        p.status \in Rules!PossiblyApplied}})
  BY DEF Rules!StateUndone
<1>1. \A p \in Rules!Range(state.operations) :
        p.status \in Rules!PossiblyApplied => p.rollback.required
  BY DEF Rules!validate, Rules!OperationValid, Rules!RollbackValid
<1>2. Undone(state) = {p \in Rules!Range(state.operations) : p.status \in Rules!PossiblyApplied}
  BY <1>1 DEF Undone
<1> QED
  BY <1>2, RollbackUndoes

\* A plan, with any text, owner, keys, kinds and rollbacks.
AnyOperation(Key, Kind, Rollbacked) ==
  [key : Key, apply_order : Optional, kind : Kind, status : Rules!Statuses,
   rollback : Rollbacked]
AnyPlan(Text, Owners, Operations) ==
  [transaction_id : Text, snapshot_id : Text, platform : Text, owner : Owners,
   phase : Rules!Phases, last_error : Text, operations : Seq(Operations)]

\* A plan that was admitted and an operation of it, by its rank.
Executing(plan, k) ==
  /\ \E Text, Owners, Key, Kind, Rollbacked :
       plan \in AnyPlan(Text, Owners, AnyOperation(Key, Kind, Rollbacked))
  /\ Rules!validate_for_execution(plan)
  /\ k \in DOMAIN plan.operations

\* The operations of such a plan: none is done yet, and each has an order of its own.
LEMMA PlanListing ==
  ASSUME NEW plan, NEW k, Executing(plan, k)
  PROVE  /\ Listing(plan.operations) /\ Rules!validate(plan)
         /\ \A i \in DOMAIN plan.operations :
              /\ plan.operations[i].apply_order # <<>>
              /\ plan.operations[i].apply_order[1] \in Nat
              /\ plan.operations[i].apply_order = <<plan.operations[i].apply_order[1]>>
              /\ plan.operations[i].status = "Planned"
         /\ \A i, j \in DOMAIN plan.operations :
              plan.operations[i].apply_order = plan.operations[j].apply_order => i = j
<1>1. PICK Text, Owners, Key, Kind, Rollbacked :
        plan \in AnyPlan(Text, Owners, AnyOperation(Key, Kind, Rollbacked))
  BY DEF Executing
<1>2. plan.operations \in Seq(AnyOperation(Key, Kind, Rollbacked))
  BY <1>1 DEF AnyPlan
<1>3. \A i \in DOMAIN plan.operations : plan.operations[i].apply_order \in Optional
  <2>1. \A i \in DOMAIN plan.operations :
          plan.operations[i] \in AnyOperation(Key, Kind, Rollbacked)
    BY <1>2
  <2> QED
    BY <2>1 DEF AnyOperation
<1>4. Rules!validate(plan) /\ plan.phase = "Planned"
  BY DEF Executing, Rules!validate_for_execution
<1>5. \A i \in DOMAIN plan.operations : plan.operations[i] \in Rules!Range(plan.operations)
  BY DEF Rules!Range
<1>6. \A i \in DOMAIN plan.operations :
        plan.operations[i].apply_order # <<>> /\ plan.operations[i].status = "Planned"
  <2>1. \A o \in Rules!Range(plan.operations) : o.apply_order # <<>>
    BY DEF Executing, Rules!validate_for_execution
  <2>2. \A o \in Rules!Range(plan.operations) : o.status = "Planned"
    BY <1>4 DEF Rules!validate, Rules!PhaseValid
  <2> QED
    BY <1>5, <2>1, <2>2
<1>7. Listing(plan.operations)
  BY <1>2, <1>3 DEF Listing
<1>8. \A i, j \in DOMAIN plan.operations :
        plan.operations[i].apply_order = plan.operations[j].apply_order => i = j
  BY <1>4, <1>6 DEF Rules!validate
<1>9. \A i \in DOMAIN plan.operations :
        /\ plan.operations[i].apply_order[1] \in Nat
        /\ plan.operations[i].apply_order = <<plan.operations[i].apply_order[1]>>
  BY <1>3, <1>6 DEF Optional
<1> QED
  BY <1>4, <1>6, <1>7, <1>8, <1>9

\* The ranks of its operations are 1 to their number, in their order.
LEMMA PlanRanks ==
  ASSUME NEW plan, NEW k, Executing(plan, k)
  PROVE  /\ DOMAIN plan.operations = 1..Len(plan.operations) /\ Len(plan.operations) \in Nat
         /\ \A i \in DOMAIN plan.operations : Rules!Rank(plan, i) \in 1..Len(plan.operations)
         /\ \A i, j \in DOMAIN plan.operations :
              Rules!Rank(plan, i) < Rules!Rank(plan, j)
                <=> plan.operations[i].apply_order[1] < plan.operations[j].apply_order[1]
         /\ \E i \in DOMAIN plan.operations : Rules!Rank(plan, i) = k
<1> DEFINE D == DOMAIN plan.operations
           n == Len(plan.operations)
           v == [i \in D |-> plan.operations[i].apply_order[1]]
           r == [i \in D |-> Cardinality({j \in D : v[j] <= v[i]})]
<1>1. D = 1..n /\ n \in Nat
  BY PlanListing DEF Listing
<1>2. IsFiniteSet(D) /\ Cardinality(D) = n
  <2>1. IsFiniteSet(1..n) /\ Cardinality(1..n) = n
    BY <1>1, FS_Interval
  <2> QED
    BY <1>1, <2>1
<1>3. v \in [D -> Int] /\ \A i, j \in D : v[i] = v[j] => i = j
  <2>1. v \in [D -> Int]
    BY PlanListing
  <2>2. ASSUME NEW i \in D, NEW j \in D, v[i] = v[j] PROVE i = j
    <3>1. plan.operations[i].apply_order = plan.operations[j].apply_order
      BY PlanListing, <2>2
    <3> QED
      BY PlanListing, <3>1
  <2> QED
    BY <2>1, <2>2
<1>4. \A i \in D : Rules!Rank(plan, i) = r[i]
  <2> SUFFICES ASSUME NEW i \in D PROVE Rules!Rank(plan, i) = r[i]
    OBVIOUS
  <2>1. {j \in D : v[j] <= v[i]} = {j \in D : plan.operations[j].apply_order[1] <=
                                             plan.operations[i].apply_order[1]}
    OBVIOUS
  <2> QED
    BY <2>1, RulesCardinality DEF Rules!Rank
<1>5. /\ \A i \in D : r[i] \in 1..n
      /\ \A i, j \in D : r[i] < r[j] <=> v[i] < v[j]
      /\ \A m \in 1..n : \E i \in D : r[i] = m
  <2>1. r = [i \in D |-> Cardinality({j \in D : v[j] <= v[i]})]
    OBVIOUS
  <2> HIDE DEF D, n, v, r
  <2> QED
    BY <1>2, <1>3, <2>1, Places
<1>6. k \in 1..n
  BY <1>1 DEF Executing
<1>7. \A i, j \in D : v[i] < v[j]
        <=> plan.operations[i].apply_order[1] < plan.operations[j].apply_order[1]
  OBVIOUS
<1>8. \E i \in D : Rules!Rank(plan, i) = k
  <2> HIDE DEF D, n, r, v
  <2> QED
    BY <1>4, <1>5, <1>6
<1>9. /\ \A i \in D : Rules!Rank(plan, i) \in 1..n
      /\ \A i, j \in D : Rules!Rank(plan, i) < Rules!Rank(plan, j) <=> v[i] < v[j]
  <2> HIDE DEF D, n, r, v
  <2> QED
    BY <1>4, <1>5
<1> HIDE DEF v, r
<1> QED
  BY <1>1, <1>7, <1>8, <1>9

\* What the executor makes of it at its k-th operation.
LEMMA AtPlan ==
  ASSUME NEW plan, NEW k, Executing(plan, k), NEW status,
         NEW state, state = Rules!At(plan, k, status)
  PROVE  /\ state.transaction_id = plan.transaction_id /\ state.snapshot_id = plan.snapshot_id
         /\ state.platform = plan.platform /\ state.owner = plan.owner
         /\ state.phase = IF status = "Failed" THEN "Failed" ELSE "RollingBack"
         /\ state.last_error = IF status = "Failed" THEN "operation_failed" ELSE Rules!Absent
         /\ DOMAIN state.operations = DOMAIN plan.operations
         /\ Len(state.operations) = Len(plan.operations)
         /\ \A i \in DOMAIN plan.operations :
              /\ state.operations[i].key = plan.operations[i].key
              /\ state.operations[i].kind = plan.operations[i].kind
              /\ state.operations[i].apply_order = plan.operations[i].apply_order
              /\ state.operations[i].rollback = plan.operations[i].rollback
              /\ state.operations[i].status =
                   IF Rules!Rank(plan, i) < k THEN "Applied"
                   ELSE IF Rules!Rank(plan, i) = k THEN status ELSE "Planned"
         /\ Listing(state.operations)
<1>1. PICK Text, Owners, Key, Kind, Rollbacked :
        plan \in AnyPlan(Text, Owners, AnyOperation(Key, Kind, Rollbacked))
  BY DEF Executing
<1> DEFINE operations ==
      [i \in DOMAIN plan.operations |->
         [plan.operations[i] EXCEPT !.status =
            IF Rules!Rank(plan, i) < k THEN "Applied"
            ELSE IF Rules!Rank(plan, i) = k THEN status ELSE @]]
<1>2. /\ state.transaction_id = plan.transaction_id /\ state.snapshot_id = plan.snapshot_id
      /\ state.platform = plan.platform /\ state.owner = plan.owner
      /\ state.phase = IF status = "Failed" THEN "Failed" ELSE "RollingBack"
      /\ state.last_error = IF status = "Failed" THEN "operation_failed" ELSE Rules!Absent
      /\ state.operations = operations
  BY <1>1, Zenon DEF Rules!At, AnyPlan
<1>3. ASSUME NEW i \in DOMAIN plan.operations
      PROVE  /\ operations[i].key = plan.operations[i].key
             /\ operations[i].kind = plan.operations[i].kind
             /\ operations[i].apply_order = plan.operations[i].apply_order
             /\ operations[i].rollback = plan.operations[i].rollback
             /\ operations[i].status =
                  IF Rules!Rank(plan, i) < k THEN "Applied"
                  ELSE IF Rules!Rank(plan, i) = k THEN status ELSE "Planned"
  <2>1. plan.operations[i] \in AnyOperation(Key, Kind, Rollbacked)
    BY <1>1 DEF AnyPlan
  <2>2. plan.operations[i].status = "Planned"
    BY PlanListing
  <2> QED
    BY <2>1, <2>2 DEF AnyOperation
<1>4. DOMAIN operations = DOMAIN plan.operations /\ Len(operations) = Len(plan.operations)
  <2>1. DOMAIN plan.operations = 1..Len(plan.operations) /\ Len(plan.operations) \in Nat
    BY PlanRanks
  <2> QED
    BY <2>1
<1>5. Listing(operations)
  BY <1>3, <1>4, PlanListing DEF Listing
<1> HIDE DEF operations
<1> QED
  BY <1>2, <1>3, <1>4, <1>5

\* Once the journal of its k-th operation was accepted, every state the executor can
\* be in at that operation is valid, and has to undo the first k.
LEMMA AtValid ==
  ASSUME NEW plan, NEW k, Executing(plan, k), NEW status \in Rules!PossiblyApplied,
         Rules!validate(Rules!At(plan, k, "Applying")),
         NEW state, state = Rules!At(plan, k, status)
  PROVE  /\ Rules!validate(state)
         /\ {o.key : o \in Undone(state)} =
              {plan.operations[i].key : i \in {j \in DOMAIN plan.operations : Rules!Rank(plan, j) <= k}}
<1> DEFINE D == DOMAIN plan.operations
           begun == Rules!At(plan, k, "Applying")
           Reached(i) == Rules!Rank(plan, i) <= k
<1>1. /\ DOMAIN plan.operations = 1..Len(plan.operations) /\ Len(plan.operations) \in Nat
      /\ k \in Nat /\ \A i \in D : Rules!Rank(plan, i) \in Nat
  <2>1. k \in D
    BY DEF Executing
  <2> QED
    BY <2>1, PlanRanks
<1>2. /\ state.transaction_id = plan.transaction_id /\ state.snapshot_id = plan.snapshot_id
      /\ state.platform = plan.platform /\ state.owner = plan.owner
      /\ state.phase = IF status = "Failed" THEN "Failed" ELSE "RollingBack"
      /\ state.last_error = IF status = "Failed" THEN "operation_failed" ELSE Rules!Absent
      /\ DOMAIN state.operations = D /\ Len(state.operations) = Len(plan.operations)
  BY AtPlan
<1>3. \A i \in D : /\ state.operations[i].key = plan.operations[i].key
                   /\ state.operations[i].kind = plan.operations[i].kind
                   /\ state.operations[i].apply_order = plan.operations[i].apply_order
                   /\ state.operations[i].rollback = plan.operations[i].rollback
                   /\ state.operations[i].status =
                        IF Rules!Rank(plan, i) < k THEN "Applied"
                        ELSE IF Rules!Rank(plan, i) = k THEN status ELSE "Planned"
  BY AtPlan
<1>4. /\ DOMAIN begun.operations = D
      /\ \A i \in D : /\ begun.operations[i].rollback = plan.operations[i].rollback
                      /\ begun.operations[i].status =
                           IF Rules!Rank(plan, i) < k THEN "Applied"
                           ELSE IF Rules!Rank(plan, i) = k THEN "Applying" ELSE "Planned"
  BY AtPlan
<1>5. \A i \in D : plan.operations[i].apply_order # <<>>
  BY PlanListing
<1>6. \A i \in D : Rules!OperationValid(plan.operations[i])
  <2>1. \A i \in D : plan.operations[i] \in Rules!Range(plan.operations)
    BY DEF Rules!Range
  <2>2. Rules!validate(plan)
    BY PlanListing
  <2> QED
    BY <2>1, <2>2 DEF Rules!validate
<1>7. \A i \in D : Reached(i) => plan.operations[i].rollback.required
  <2> SUFFICES ASSUME NEW i \in D, Reached(i) PROVE plan.operations[i].rollback.required
    OBVIOUS
  <2> HIDE DEF begun
  <2>1. begun.operations[i] \in Rules!Range(begun.operations)
    BY <1>4 DEF Rules!Range
  <2>2. Rules!OperationValid(begun.operations[i])
    BY <2>1 DEF Rules!validate, begun
  <2>3. begun.operations[i].status \in Rules!PossiblyApplied
    BY <1>1, <1>4 DEF Rules!PossiblyApplied
  <2> QED
    BY <1>4, <2>2, <2>3 DEF Rules!OperationValid, Rules!RollbackValid
<1>8. \A i \in D : state.operations[i].status \in Rules!PossiblyApplied <=> Reached(i)
  BY <1>1, <1>3 DEF Rules!PossiblyApplied
<1>9. \A i \in D : Rules!OperationValid(state.operations[i])
  BY <1>3, <1>5, <1>6, <1>7, <1>8 DEF Rules!OperationValid, Rules!RollbackValid
<1>10. Rules!PhaseValid(state)
  <2>1. PICK i \in D : Rules!Rank(plan, i) = k
    BY PlanRanks
  <2>2. /\ state.operations[i] \in Rules!Range(state.operations)
        /\ state.operations[i].status = status /\ state.operations[i].rollback.required
    BY <1>1, <1>2, <1>3, <1>7, <2>1 DEF Rules!Range
  <2>3. CASE status = "Failed"
    BY <1>2, <2>2, <2>3 DEF Rules!PhaseValid, Rules!validate_id, Rules!Malformed, Rules!Absent
  <2>4. CASE status # "Failed"
    BY <1>2, <2>2, <2>4 DEF Rules!PhaseValid
  <2> QED
    BY <2>3, <2>4
<1>11. Rules!validate(state)
  <2>1. \A o \in Rules!Range(state.operations) : Rules!OperationValid(o)
    BY <1>2, <1>9 DEF Rules!Range
  <2>2. Rules!validate(plan)
    BY PlanListing
  <2>3. Rules!Unique([i \in DOMAIN state.operations |-> state.operations[i].key])
    <3>1. \A i, j \in D : plan.operations[i].key = plan.operations[j].key => i = j
      BY <2>2 DEF Rules!validate, Rules!Unique
    <3> QED
      BY <1>2, <1>3, <3>1 DEF Rules!Unique
  <2>4. \A i, j \in DOMAIN state.operations :
          state.operations[i].apply_order = state.operations[j].apply_order => i = j
    BY <1>2, <1>3, PlanListing
  <2> QED
    BY <1>2, <1>10, <2>1, <2>2, <2>3, <2>4 DEF Rules!validate, Rules!CollectionValid
<1>12. {o.key : o \in Undone(state)} = {plan.operations[i].key : i \in {j \in D : Reached(j)}}
  <2>1. Undone(state) = {state.operations[i] : i \in {j \in D : Reached(j)}}
    BY <1>2, <1>3, <1>7, <1>8 DEF Undone, Rules!Range
  <2> HIDE DEF Reached, D
  <2> QED
    BY <1>3, <2>1
<1> QED
  BY <1>11, <1>12

\* No route or DNS change is attempted before the kill switch stands.
LEMMA EngagedFirst ==
  ASSUME NEW plan, NEW k, Executing(plan, k), NEW status \in Rules!PossiblyApplied,
         NEW state, state = Rules!At(plan, k, status),
         NEW f \in Rules!Range(state.operations), NEW o \in Rules!Range(state.operations),
         Rules!Engages(f), Rules!RoutesOrDns(o), o.status # "Planned"
  PROVE  f.status = "Applied"
<1>1. PICK i \in DOMAIN plan.operations, j \in DOMAIN plan.operations :
        f = state.operations[i] /\ o = state.operations[j]
  BY AtPlan DEF Rules!Range
<1> DEFINE g == plan.operations[i]
           p == plan.operations[j]
<1>2. /\ g.kind = f.kind /\ p.kind = o.kind
      /\ f.status = IF Rules!Rank(plan, i) < k THEN "Applied"
                    ELSE IF Rules!Rank(plan, i) = k THEN status ELSE "Planned"
      /\ o.status = IF Rules!Rank(plan, j) < k THEN "Applied"
                    ELSE IF Rules!Rank(plan, j) = k THEN status ELSE "Planned"
  BY <1>1, AtPlan
<1>3. Rules!Engages(g) /\ Rules!RoutesOrDns(p)
  BY <1>2 DEF Rules!Engages, Rules!RoutesOrDns
<1>4. p.apply_order[1] >= g.apply_order[1]
  <2>1. g \in Rules!Range(plan.operations) /\ p \in Rules!Range(plan.operations)
    BY DEF Rules!Range
  <2> QED
    BY <1>3, <2>1 DEF Executing, Rules!validate_for_execution
<1>5. i # j
  BY <1>3 DEF Rules!Engages, Rules!RoutesOrDns
<1>6. g.apply_order[1] < p.apply_order[1]
  <2>1. g.apply_order # p.apply_order
    BY <1>5, PlanListing
  <2>2. g.apply_order = <<g.apply_order[1]>> /\ p.apply_order = <<p.apply_order[1]>>
        /\ g.apply_order[1] \in Nat /\ p.apply_order[1] \in Nat
    BY PlanListing
  <2> QED
    BY <1>4, <2>1, <2>2
<1>7. Rules!Rank(plan, i) < Rules!Rank(plan, j)
  BY <1>6, PlanRanks
<1>8. /\ Rules!Rank(plan, i) \in Nat /\ Rules!Rank(plan, j) \in Nat /\ k \in Nat
  <2>1. k \in DOMAIN plan.operations
    BY DEF Executing
  <2> QED
    BY <2>1, PlanRanks
<1>9. Rules!Rank(plan, j) <= k
  BY <1>2, <1>8
<1> QED
  BY <1>2, <1>7, <1>8, <1>9

\* When the last operation is done, all are applied, and that state is valid.
LEMMA FinishedValid ==
  ASSUME NEW plan, NEW k, Executing(plan, k), k = Len(plan.operations),
         Rules!validate(Rules!At(plan, k, "Applied")),
         NEW state, state = Rules!Finished(plan)
  PROVE  /\ Rules!validate(state) /\ state.phase = "Applied"
         /\ Listing(state.operations)
         /\ state.transaction_id = plan.transaction_id /\ state.snapshot_id = plan.snapshot_id
         /\ state.platform = plan.platform /\ state.owner = plan.owner
<1> DEFINE last == Rules!At(plan, k, "Applied")
<1>1. /\ state.transaction_id = last.transaction_id /\ state.snapshot_id = last.snapshot_id
      /\ state.platform = last.platform /\ state.owner = last.owner
      /\ state.last_error = last.last_error /\ state.operations = last.operations
      /\ state.phase = "Applied"
  <2>1. PICK Text, Owners, Key, Kind, Rollbacked :
          plan \in AnyPlan(Text, Owners, AnyOperation(Key, Kind, Rollbacked))
    BY DEF Executing
  <2>2. DOMAIN last = DOMAIN plan
    BY DEF Rules!At
  <2>3. {"transaction_id", "snapshot_id", "platform", "owner", "phase", "last_error",
         "operations"} = DOMAIN plan
    BY <2>1 DEF AnyPlan
  <2> HIDE DEF last
  <2>4. state = [last EXCEPT !.phase = "Applied"]
    BY DEF Rules!Finished, last
  <2> QED
    BY <2>2, <2>3, <2>4
<1>2. /\ last.transaction_id = plan.transaction_id /\ last.snapshot_id = plan.snapshot_id
      /\ last.platform = plan.platform /\ last.owner = plan.owner
      /\ last.last_error = Rules!Absent /\ Listing(last.operations)
      /\ DOMAIN last.operations = DOMAIN plan.operations
  BY AtPlan
<1>3. \A i \in DOMAIN plan.operations : last.operations[i].status = "Applied"
  <2>1. \A i \in DOMAIN plan.operations :
          last.operations[i].status = IF Rules!Rank(plan, i) < k THEN "Applied"
                                      ELSE IF Rules!Rank(plan, i) = k THEN "Applied" ELSE "Planned"
    BY AtPlan
  <2>2. \A i \in DOMAIN plan.operations : Rules!Rank(plan, i) \in 1..k /\ k \in Nat
    BY PlanRanks
  <2> QED
    BY <2>1, <2>2
<1>4. k \in DOMAIN plan.operations
  BY DEF Executing
<1>5. Rules!PhaseValid(state)
  <2>1. \A o \in Rules!Range(state.operations) : o.status = "Applied"
    BY <1>1, <1>2, <1>3 DEF Rules!Range
  <2>2. state.operations # <<>>
    BY <1>1, <1>2, <1>4
  <2> QED
    BY <1>1, <1>2, <2>1, <2>2 DEF Rules!PhaseValid
<1>6. Rules!validate(state)
  <2> HIDE DEF last
  <2>1. Rules!validate(last)
    BY DEF last
  <2> QED
    BY <1>1, <1>5, <2>1 DEF Rules!validate
<1> QED
  BY <1>1, <1>2, <1>6

\* A record of a valid state is accepted with the snapshot it was accepted with before.
LEMMA RecordAccepted ==
  ASSUME NEW snapshot, NEW before, NEW phases, NEW some,
         Rules!RecordValid(Rules!NewRecord(snapshot, before), some),
         NEW state, Rules!validate(state), Listing(state.operations),
         state.phase \in phases,
         state.transaction_id = before.transaction_id, state.snapshot_id = before.snapshot_id,
         state.platform = before.platform, state.owner = before.owner
  PROVE  Rules!RecordValid(Rules!NewRecord(snapshot, state), phases)
<1>1. Rules!rollback_steps_reverse_order(state).ok
  BY RollbackUndoes DEF Rules!Undoes
<1> QED
  BY <1>1 DEF Rules!RecordValid, Rules!NewRecord

\* Whatever an admitted plan may have done has an inverse on disk before it is done,
\* and a rollback undoes exactly that, for plans of any length (network_state.rs,
\* recovery_journal.rs, network_executor.rs).
THEOREM PlansRecoverable ==
  ASSUME NEW Text, NEW Owners, NEW Key, NEW Kind, NEW Rollbacked, NEW snapshot,
         NEW plan \in AnyPlan(Text, Owners, AnyOperation(Key, Kind, Rollbacked))
  PROVE  Rules!PlanRecoverable(snapshot, plan)
<1> SUFFICES ASSUME Rules!validate_for_execution(plan), NEW k \in DOMAIN plan.operations,
                    Rules!Attempts(snapshot, plan, k)
             PROVE  /\ Rules!SnapshotValid(snapshot)
                    /\ \A status \in Rules!PossiblyApplied :
                         LET state == Rules!At(plan, k, status) IN
                         /\ Rules!Journalled(snapshot, state)
                         /\ Rules!Undoes(state, {plan.operations[i].key :
                              i \in {j \in DOMAIN plan.operations : Rules!Rank(plan, j) <= k}})
                         /\ \A f, o \in Rules!Range(state.operations) :
                              Rules!Engages(f) /\ Rules!RoutesOrDns(o) /\ o.status # "Planned"
                                => f.status = "Applied"
                    /\ k = Len(plan.operations) /\ ~Rules!Conflicts(plan, k)
                         => Rules!Recorded(snapshot, Rules!Finished(plan))
  BY DEF Rules!PlanRecoverable
<1> DEFINE begun == Rules!At(plan, k, "Applying")
           Keys == {plan.operations[i].key :
                      i \in {j \in DOMAIN plan.operations : Rules!Rank(plan, j) <= k}}
<1>1. Executing(plan, k)
  BY DEF Executing
<1>2. Rules!RecordValid(Rules!NewRecord(snapshot, begun), Rules!Phases \ {"Planned"})
  BY DEF Rules!Attempts, Rules!Journalled
<1>3. Rules!SnapshotValid(snapshot) /\ Rules!validate(begun)
  BY <1>2 DEF Rules!RecordValid, Rules!NewRecord
<1>4. ASSUME NEW status \in Rules!PossiblyApplied, NEW state, state = Rules!At(plan, k, status)
      PROVE  /\ Rules!validate(state) /\ Rules!Journalled(snapshot, state)
             /\ Rules!Undoes(state, Keys)
             /\ \A f, o \in Rules!Range(state.operations) :
                  Rules!Engages(f) /\ Rules!RoutesOrDns(o) /\ o.status # "Planned"
                    => f.status = "Applied"
  <2>1. Rules!validate(state) /\ {o.key : o \in Undone(state)} = Keys
    BY <1>1, <1>3, <1>4, AtValid
  <2>2. Listing(state.operations)
    BY <1>1, <1>4, AtPlan
  <2>3. Rules!Undoes(state, Keys)
    BY <2>1, <2>2, RollbackUndoes
  <2>4. /\ state.transaction_id = begun.transaction_id /\ state.snapshot_id = begun.snapshot_id
        /\ state.platform = begun.platform /\ state.owner = begun.owner
        /\ state.phase \in Rules!Phases \ {"Planned"}
    <3>1. /\ state.transaction_id = plan.transaction_id /\ state.snapshot_id = plan.snapshot_id
          /\ state.platform = plan.platform /\ state.owner = plan.owner
          /\ state.phase = IF status = "Failed" THEN "Failed" ELSE "RollingBack"
      BY <1>1, <1>4, AtPlan
    <3>2. /\ begun.transaction_id = plan.transaction_id /\ begun.snapshot_id = plan.snapshot_id
          /\ begun.platform = plan.platform /\ begun.owner = plan.owner
      BY <1>1, AtPlan
    <3> QED
      BY <3>1, <3>2 DEF Rules!Phases
  <2>5. Rules!Journalled(snapshot, state)
    <3> HIDE DEF begun
    <3> QED
      BY <1>2, <2>1, <2>2, <2>4, RecordAccepted DEF Rules!Journalled
  <2>6. \A f, o \in Rules!Range(state.operations) :
          Rules!Engages(f) /\ Rules!RoutesOrDns(o) /\ o.status # "Planned" => f.status = "Applied"
    BY <1>1, <1>4, EngagedFirst
  <2> QED
    BY <2>1, <2>3, <2>5, <2>6
<1>5. ASSUME k = Len(plan.operations) PROVE Rules!Recorded(snapshot, Rules!Finished(plan))
  <2> DEFINE state == Rules!Finished(plan)
  <2>1. Rules!validate(Rules!At(plan, k, "Applied"))
    BY <1>4 DEF Rules!PossiblyApplied
  <2>2. /\ Rules!validate(state) /\ state.phase = "Applied"
        /\ Listing(state.operations)
        /\ state.transaction_id = plan.transaction_id /\ state.snapshot_id = plan.snapshot_id
        /\ state.platform = plan.platform /\ state.owner = plan.owner
    BY <1>1, <1>5, <2>1, FinishedValid
  <2>3. /\ begun.transaction_id = plan.transaction_id /\ begun.snapshot_id = plan.snapshot_id
        /\ begun.platform = plan.platform /\ begun.owner = plan.owner
    BY <1>1, AtPlan
  <2> HIDE DEF begun, state
  <2>4. Rules!RecordValid(Rules!NewRecord(snapshot, state), {"Applied"})
    BY <1>2, <2>2, <2>3, RecordAccepted
  <2> QED
    BY <2>4 DEF Rules!Recorded, state
<1> QED
  BY <1>3, <1>4, <1>5

-----------------------------------------------------------------------------
(* The inputs of the checked instance are among all inputs.                *)

\* The labels, texts and rows those inputs are made of.
AllLabels == Labels \union {"category-ru", "other"}
MessageText == Identifiers \union {"old", Absent}

EngineNamed == {"xray-core", "XRAY-CORE", "sing-box"}
VersionText == {"1.0-rc", "1.0-RC", "2"}
TargetText == {"macos", "Darwin", "linux", "freebsd", "FreeBSD"}
PinnedRows ==
  [archive_sha256 : {"d"}, binary_sha256 : {"a", "b", "c", "d", "A", "bad"},
   engine_name : EngineNamed, version : VersionText, status : Engines!Statuses,
   target_os : TargetText, config_dialect : {Xray, SingBox}]
\* A row as MCRules writes it.
GivenRows == Rows(EngineNamed, VersionText, Engines!Statuses, {Xray, SingBox}, TargetText)

\* The plans MCRules hands out.
Undos == Rollbacks \union {Rollback(Restore)}
GivenOperations ==
  AnyOperation({"a", "b", "c", ""}, Kinds \union OddKinds, Undos)
PlanText == {"tx", "a.b", "", "s", "MacOs", "e", Absent}
GivenPlans == AnyPlan(PlanText, {Owner}, GivenOperations)

\* What kind of value each kind of input is.
Asks ==
  /\ input.about = "message" =>
       \E core \in AnyCore(Required), session_id \in {"s", "long"},
          state \in AnyState(MessageText), intent \in AnyIntent(MessageText, Required) :
         input.of = <<core, session_id, state, intent>>
  /\ input.about = "intent" =>
       \E intent \in Connects, port \in Nat, transport \in {"Tcp", "Udp"} :
         input.of = <<intent, port, transport>>
  /\ input.about = "settings" =>
       /\ input.of.enabled \in BOOLEAN
       /\ \A rule \in input.of.direct_domains : rule.labels \in Seq(AllLabels)
  /\ input.about = "link" => Links!Trim(input.of.host) = input.of.host
  /\ input.about = "profile" /\ input.of.tls # Links!NoTls =>
       input.of.tls.security \in Securities
  /\ input.about = "pair" =>
       /\ Links!Trim(input.of[1].host) = input.of[1].host
       /\ Links!Trim(input.of[2].host) = input.of[2].host
  /\ input.about = "catalog" => input.of.releases \in Seq(PinnedRows)
  /\ input.about = "plan" => input.of[2] \in GivenPlans
  /\ input.about = "state" => input.of.operations \in Seq(GivenOperations)

\* Which action gives which kind of input.
LEMMA Given ==
  ASSUME Next
  PROVE  /\ input'.about = "message" => Exchange
         /\ input'.about = "intent" => BuildAllowlist
         /\ input'.about = "settings" => LoadSettings
         /\ input'.about \in {"link", "profile", "pair"} =>
              \/ ParseSecurity \/ ParseTransport \/ ParseAddress \/ ParseNames
              \/ LoadProfile \/ LoadTls \/ AddLink
         /\ input'.about = "catalog" => OneRow \/ TwoRows \/ ThreeRows \/ FourRows
         /\ input'.about = "plan" => AdmitOne \/ AdmitTwo \/ AdmitThree \/ AdmitWith
         /\ input'.about = "state" => ReadState
<1>. \A about, value : Give(about, value) => input'.about = about
  BY DEF Give
<1>1. CASE ParseSecurity \/ ParseTransport \/ ParseAddress \/ ParseNames
  BY <1>1, Zenon DEF ParseSecurity, ParseTransport, ParseAddress, ParseNames
<1>2. CASE LoadProfile \/ LoadTls \/ AddLink
  BY <1>2, Zenon DEF LoadProfile, LoadTls, AddLink
<1>3. CASE OneRow \/ TwoRows \/ ThreeRows \/ FourRows
  BY <1>3, Zenon DEF OneRow, TwoRows, ThreeRows, FourRows
<1>4. CASE BuildAllowlist
  <2>1. PICK intent \in Connects, port \in {0, 443}, transport \in {"Tcp", "Udp"} :
          Give("intent", <<intent, port, transport>>)
    BY <1>4 DEF BuildAllowlist
  <2>2. input'.about = "intent"
    BY <2>1 DEF Give
  <2> QED
    BY <1>4, <2>2
<1>6. CASE LoadSettings
  BY <1>6, Zenon DEF LoadSettings
<1>7. CASE Exchange
  BY <1>7, Zenon DEF Exchange
<1>5. CASE AdmitOne \/ AdmitTwo \/ AdmitThree \/ AdmitWith
  BY <1>5, Zenon DEF AdmitOne, AdmitTwo, AdmitThree, AdmitWith
<1>8. CASE ReadState
  BY <1>8, Zenon DEF ReadState
<1> QED
  BY <1>1, <1>2, <1>3, <1>4, <1>5, <1>6, <1>7, <1>8 DEF Next

\* The hosts of the links have no blanks around them.
LEMMA HostsTrimmed ==
  \A host \in {Absent, "name", "NAME", "other", "1.2.3.4", "::1"} : Links!Trim(host) = host
BY DEF Links!Trim, Absent

\* A link keeps the host it is made with.
LEMMA LinkHost ==
  ASSUME NEW scheme, NEW uuid, NEW host, NEW port, NEW params
  PROVE  Link(scheme, uuid, host, port, params).host = host
BY DEF Link

\* The links that are handed out,
LEMMA LinksGiven ==
  ASSUME ParseSecurity \/ ParseTransport \/ ParseAddress \/ ParseNames
  PROVE  input'.about = "link" /\ Links!Trim(input'.of.host) = input'.of.host
<1>1. \A about, value : Give(about, value) => input'.about = about /\ input'.of = value
  BY DEF Give
<1>2. \A params : Plain(params).host = "name" /\ Links!Trim(Plain(params).host) = Plain(params).host
  BY LinkHost, HostsTrimmed DEF Plain
<1>3. CASE ParseSecurity
  <2>1. PICK params : Give("link", Plain(params))
    BY <1>3, Zenon DEF ParseSecurity
  <2> QED
    BY <1>1, <1>2, <2>1
<1>4. CASE ParseTransport
  <2>1. PICK params : Give("link", Plain(params @@ Reality))
    BY <1>4, Zenon DEF ParseTransport
  <2> QED
    BY <1>1, <1>2, <2>1
<1>5. CASE ParseAddress
  <2>1. PICK scheme \in {"vless", "vmess"}, uuid \in {"uuid", "UUID", "id", ""},
             host \in {Absent, "name", "NAME", "1.2.3.4", "::1"}, port \in {Absent, "0", "443"},
             params \in [flow : {Absent, "", "xtls-rprx-vision", "other"},
                         security : {"none", "tls", "reality"}] :
          Give("link", Link(scheme, uuid, host, port, params @@ Reality))
    BY <1>5, Zenon DEF ParseAddress
  <2>2. Links!Trim(host) = host
    BY HostsTrimmed
  <2>3. PICK all : all = params @@ Reality
    OBVIOUS
  <2>4. Give("link", Link(scheme, uuid, host, port, all))
    BY <2>1, <2>3
  <2>5. input'.about = "link" /\ input'.of = Link(scheme, uuid, host, port, all)
    BY <1>1, <2>4
  <2>6. Link(scheme, uuid, host, port, all).host = host
    BY DEF Link
  <2> QED
    BY <2>2, <2>5, <2>6
<1>6. CASE ParseNames
  <2>1. PICK short, query :
          Give("link", [Plain(Reality) EXCEPT !.short = short, !.query = query])
    BY <1>6, Zenon DEF ParseNames
  <2>2. [Plain(Reality) EXCEPT !.short = short, !.query = query].host = Plain(Reality).host
    BY DEF Plain, Link
  <2> QED
    BY <1>1, <1>2, <2>1, <2>2, Zenon
<1> QED
  BY <1>3, <1>4, <1>5, <1>6

\* the profiles,
LEMMA ProfilesGiven ==
  ASSUME LoadProfile \/ LoadTls
  PROVE  /\ input'.about = "profile"
         /\ input'.of.tls # Links!NoTls => input'.of.tls.security \in Securities
<1>1. CASE LoadProfile
  <2>1. PICK p : Give("profile", p) /\ p.tls \in SomeTls
    BY <1>1 DEF LoadProfile
  <2>2. ASSUME NEW tls \in SomeTls, tls # Links!NoTls PROVE tls.security \in Securities
    BY <2>2 DEF SomeTls, Tls, Securities
  <2> QED
    BY <2>1, <2>2 DEF Give
<1>2. CASE LoadTls
  <2>1. PICK p : Give("profile", p) /\ p.tls \in TlsObjects
    BY <1>2 DEF LoadTls
  <2>2. ASSUME NEW tls \in TlsObjects PROVE tls.security \in Securities
    BY <2>2 DEF TlsObjects, Securities
  <2> QED
    BY <2>1, <2>2 DEF Give
<1> QED
  BY <1>1, <1>2

\* and the pairs of links are as Asks says.
LEMMA PairsGiven ==
  ASSUME AddLink
  PROVE  /\ input'.about = "pair"
         /\ Links!Trim(input'.of[1].host) = input'.of[1].host
         /\ Links!Trim(input'.of[2].host) = input'.of[2].host
<1>1. PICK a \in Varied, b \in Varied : Give("pair", <<VariedLink(a), VariedLink(b)>>)
  BY DEF AddLink
<1>2. \A c \in Varied : Links!Trim(VariedLink(c).host) = VariedLink(c).host
  <2>1. \A c \in Varied : VariedLink(c).host = c.host
    BY LinkHost DEF VariedLink
  <2>2. \A c \in Varied : c.host \in {"name", "NAME", "other"}
    BY DEF Varied
  <2> QED
    BY <2>1, <2>2, HostsTrimmed
<1> QED
  BY <1>1, <1>2 DEF Give

\* The rows of a catalog are rows,
LEMMA RowsPinned ==
  ASSUME NEW declared, NEW n \in 1..4, NEW rows, DOMAIN rows = 1..n,
         \A i \in 1..n : rows[i] \in GivenRows
  PROVE  Catalog(declared, rows).releases \in [1..n -> PinnedRows]
<1>1. \A i \in 1..n : Sha[i] \in {"a", "b", "c", "d", "A", "bad"}
  <2>1. n \in {1, 2, 3, 4}
    OBVIOUS
  <2>2. \A i \in {1, 2, 3, 4} : Sha[i] \in {"a", "b", "c", "d", "A", "bad"}
    BY DEF Sha
  <2> QED
    BY <2>1, <2>2
<1>2. ASSUME NEW i \in 1..n
      PROVE  [archive_sha256 |-> "d", binary_sha256 |-> Sha[i], engine_name |-> rows[i].engine,
              version |-> rows[i].version, status |-> rows[i].status,
              target_os |-> rows[i].target, config_dialect |-> rows[i].dialect] \in PinnedRows
  BY <1>1 DEF PinnedRows, GivenRows, Rows
<1> QED
  BY <1>2 DEF Catalog

\* and they are a sequence.
LEMMA SeqOfRows ==
  ASSUME NEW n \in 1..4, NEW releases \in [1..n -> PinnedRows]
  PROVE  releases \in Seq(PinnedRows)
OBVIOUS

\* So the catalogs that are handed out are as Asks says.
LEMMA CatalogsGiven ==
  ASSUME OneRow \/ TwoRows \/ ThreeRows \/ FourRows
  PROVE  input'.about = "catalog" /\ input'.of.releases \in Seq(PinnedRows)
<1>1. \A about, value : Give(about, value) => input'.about = about /\ input'.of = value
  BY DEF Give
<1>2. CASE OneRow
  <2>1. PICK r \in Rows({"xray-core", "XRAY-CORE", "sing-box"}, {"1.0-rc", "1.0-RC"},
                        Engines!Statuses, {Xray, SingBox}, {"Darwin", "linux"}),
             version \in {0, 1, 2}, sha \in {"a", "A", "bad"} :
          Give("catalog", [Catalog(<<"macos">>, <<r>>) EXCEPT !.schema_version = version,
                                                     !.releases[1].binary_sha256 = sha])
    BY <1>2, Zenon DEF OneRow
  <2>2. r \in GivenRows
    BY DEF Rows, GivenRows, EngineNamed, VersionText, TargetText
  <2>3. Catalog(<<"macos">>, <<r>>).releases \in [1..1 -> PinnedRows]
    BY <2>2, RowsPinned
  <2> DEFINE of == [Catalog(<<"macos">>, <<r>>) EXCEPT !.schema_version = version,
                                                     !.releases[1].binary_sha256 = sha]
  <2>4. of.releases = [Catalog(<<"macos">>, <<r>>).releases EXCEPT ![1].binary_sha256 = sha]
    BY DEF Catalog
  <2>5. of.releases \in [1..1 -> PinnedRows]
    BY <2>3, <2>4 DEF PinnedRows
  <2> HIDE DEF of
  <2>6. of.releases \in Seq(PinnedRows)
    BY <2>5, SeqOfRows
  <2>7. input'.about = "catalog" /\ input'.of = of
    BY <1>1, <2>1 DEF of
  <2> QED
    BY <2>6, <2>7
<1>3. CASE TwoRows
  <2> DEFINE some == Rows({"xray-core", "XRAY-CORE"}, {"1.0-rc", "1.0-RC", "2"},
                          {"Recommended", "Deprecated", "Yanked"}, {Xray, SingBox},
                          {"macos", "linux", "freebsd", "FreeBSD"})
  <2>1. PICK d \in {<<"macos">>, <<"Darwin", "linux">>, <<"FreeBSD", "freebsd">>,
                    <<"macos", "Darwin">>}, r \in some, s \in some :
          Give("catalog", Catalog(d, <<r, s>>))
    BY <1>3, Zenon DEF TwoRows
  <2>2. r \in GivenRows /\ s \in GivenRows
    <3>1. some \subseteq GivenRows
      BY DEF Rows, GivenRows, EngineNamed, VersionText, TargetText, Engines!Statuses
    <3> QED
      BY <3>1
  <2>3. Catalog(d, <<r, s>>).releases \in [1..2 -> PinnedRows]
    BY <2>2, RowsPinned
  <2> QED
    BY <1>1, <2>1, <2>3, SeqOfRows
<1>4. CASE ThreeRows
  <2> DEFINE some == Rows({"xray-core"}, {"1.0-rc", "1.0-RC", "2"}, {"Recommended", "Yanked"},
                          {Xray}, {"macos", "linux"})
  <2>1. PICK d \in {<<"macos">>, <<"macos", "linux">>}, r \in some, s \in some, t \in some :
          Give("catalog", Catalog(d, <<r, s, t>>))
    BY <1>4, Zenon DEF ThreeRows
  <2>2. r \in GivenRows /\ s \in GivenRows /\ t \in GivenRows
    <3>1. some \subseteq GivenRows
      BY DEF Rows, GivenRows, EngineNamed, VersionText, TargetText, Engines!Statuses
    <3> QED
      BY <3>1
  <2>3. Catalog(d, <<r, s, t>>).releases \in [1..3 -> PinnedRows]
    BY <2>2, RowsPinned
  <2> QED
    BY <1>1, <2>1, <2>3, SeqOfRows
<1>5. CASE FourRows
  <2> DEFINE some == Rows({"xray-core"}, {"1.0-rc", "2"}, {"Recommended", "Supported"}, {Xray},
                          {"Darwin", "linux"})
  <2>1. PICK r \in some, s \in some, t \in some, u \in some :
          Give("catalog", Catalog(<<"macos", "linux">>, <<r, s, t, u>>))
    BY <1>5, Zenon DEF FourRows
  <2>2. r \in GivenRows /\ s \in GivenRows /\ t \in GivenRows /\ u \in GivenRows
    <3>1. some \subseteq GivenRows
      BY DEF Rows, GivenRows, EngineNamed, VersionText, TargetText, Engines!Statuses
    <3> QED
      BY <3>1
  <2>3. Catalog(<<"macos", "linux">>, <<r, s, t, u>>).releases \in [1..4 -> PinnedRows]
    BY <2>2, RowsPinned
  <2> QED
    BY <1>1, <2>1, <2>3, SeqOfRows
<1> QED
  BY <1>2, <1>3, <1>4, <1>5

\* The plans and states of MCRules are made of such operations.
LEMMA OperationGiven ==
  ASSUME NEW key \in {"a", "b", "c", ""}, NEW order \in Optional, NEW kind \in Kinds \union OddKinds,
         NEW status \in Rules!Statuses, NEW rollback \in Undos
  PROVE  Operation(key, order, kind, status, rollback) \in GivenOperations
<1> HIDE DEF Kinds, OddKinds, Undos, Optional
<1> QED
  BY DEF Operation, GivenOperations, AnyOperation

\* A list of them is a plan.
LEMMA PlanGiven ==
  ASSUME NEW operations \in Seq(GivenOperations)
  PROVE  Plan(operations) \in GivenPlans
<1> HIDE DEF GivenOperations, Owner
<1> QED
  BY DEF Plan, State, GivenPlans, AnyPlan, PlanText, Absent, Rules!Phases

\* A number, or none.
LEMMA Numbers == \A n \in Nat : <<n>> \in Optional /\ <<>> \in Optional
BY DEF Optional

\* Lists of up to three.
LEMMA ShortLists ==
  ASSUME NEW S, NEW o \in S, NEW p \in S, NEW q \in S
  PROVE  /\ <<>> \in Seq(S) /\ <<o>> \in Seq(S) /\ <<o, p>> \in Seq(S) /\ <<o, p, q>> \in Seq(S)
         /\ \A length \in 0..2 : SubSeq(<<o, p>>, 1, length) \in Seq(S)
<1>1. /\ <<>> \in Seq(S) /\ <<o>> \in Seq(S) /\ <<o, p>> \in Seq(S) /\ <<o, p, q>> \in Seq(S)
  OBVIOUS
<1>2. ASSUME NEW length \in 0..2 PROVE SubSeq(<<o, p>>, 1, length) \in Seq(S)
  <2>1. PICK two \in Seq(S) : two = <<o, p>> /\ Len(two) = 2
    BY <1>1
  <2>2. SubSeq(two, 1, length) \in Seq(S)
    BY <2>1, SubSeqProperties
  <2> QED
    BY <2>1, <2>2
<1> QED
  BY <1>1, <1>2

\* The operations that are handed out,
LEMMA PlannedGiven ==
  ASSUME NEW key \in {"a", "b", "c", ""}, NEW c, c.order \in Optional,
         c.kind \in Kinds, c.rollback \in Rollbacks
  PROVE  Planned(key, c) \in GivenOperations
<1>2. c.kind \in Kinds \union OddKinds /\ c.rollback \in Undos
  BY DEF Undos
<1>3. "Planned" \in Rules!Statuses
  BY DEF Rules!Statuses
<1> QED
  BY <1>2, <1>3, OperationGiven DEF Planned

\* the plans,
LEMMA PlansGiven ==
  ASSUME AdmitOne \/ AdmitTwo \/ AdmitThree \/ AdmitWith
  PROVE  input'.about = "plan" /\ input'.of[2] \in GivenPlans
<1>1. \A snapshot, plan : Give("plan", <<snapshot, plan>>) =>
                            input'.about = "plan" /\ input'.of[2] = plan
  BY DEF Give
<1>2. \A o, p, q \in GivenOperations :
        /\ <<>> \in Seq(GivenOperations) /\ <<o>> \in Seq(GivenOperations)
        /\ <<o, p>> \in Seq(GivenOperations) /\ <<o, p, q>> \in Seq(GivenOperations)
  BY ShortLists
<1>3. NoRollback \in Rollbacks /\ Rollback(Unroute) \in Rollbacks
  BY DEF Rollbacks
<1>4. CASE AdmitOne
  <2>1. PICK key \in {"a", ""}, order \in {<<>>, <<1>>}, kind \in Kinds \union OddKinds,
             status \in {"Planned", "Applied"} :
          Give("plan", <<Snapshot, Plan(<<Operation(key, order, kind, status, Rollback(Unroute))>>)>>)
    BY <1>4, Zenon DEF AdmitOne
  <2>2. order \in Optional /\ status \in Rules!Statuses /\ Rollback(Unroute) \in Undos
    BY <1>3, Numbers DEF Rules!Statuses, Undos
  <2>3. Operation(key, order, kind, status, Rollback(Unroute)) \in GivenOperations
    BY <2>2, OperationGiven
  <2> QED
    BY <1>1, <1>2, <2>1, <2>3, PlanGiven
<1>5. CASE AdmitTwo
  <2> DEFINE some == [order : {<<>>, <<1>>, <<2>>}, kind : Kinds, rollback : Rollbacks]
  <2>1. PICK key \in {"a", "b"}, c \in some, d \in some :
          Give("plan", <<Snapshot, Plan(<<Planned("a", c), Planned(key, d)>>)>>)
    BY <1>5, Zenon DEF AdmitTwo
  <2>2. \A e \in some : e.order \in Optional /\ e.kind \in Kinds /\ e.rollback \in Rollbacks
    BY Numbers
  <2> HIDE DEF some
  <2>3. Planned("a", c) \in GivenOperations /\ Planned(key, d) \in GivenOperations
    BY <2>2, PlannedGiven
  <2> QED
    BY <1>1, <1>2, <2>1, <2>3, PlanGiven
<1>6. CASE AdmitThree
  <2> DEFINE some == [order : {<<1>>, <<2>>, <<3>>}, kind : Kinds,
                      rollback : {NoRollback, Rollback(Unroute)}]
  <2>1. PICK c \in some, d \in some, e \in some :
          Give("plan", <<Snapshot, Plan(<<Planned("a", c), Planned("b", d), Planned("c", e)>>)>>)
    BY <1>6, Zenon DEF AdmitThree
  <2>2. \A f \in some : f.order \in Optional /\ f.kind \in Kinds /\ f.rollback \in Rollbacks
    BY <1>3, Numbers
  <2> HIDE DEF some
  <2>3. /\ Planned("a", c) \in GivenOperations /\ Planned("b", d) \in GivenOperations
        /\ Planned("c", e) \in GivenOperations
    BY <2>2, PlannedGiven
  <2> QED
    BY <1>1, <1>2, <2>1, <2>3, PlanGiven
<1>7. CASE AdmitWith
  <2>1. PICK snapshot \in Snapshots, id \in {"tx", "a.b", ""}, error \in {Absent, "e"},
             operations \in {<<>>, <<Engage>>} :
          Give("plan", <<snapshot, [Plan(operations) EXCEPT !.transaction_id = id,
                                                            !.last_error = error]>>)
    BY <1>7, Zenon DEF AdmitWith
  <2>2. Engage \in GivenOperations
    <3>1. <<1>> \in Optional /\ Firewall(TRUE) \in Kinds \union OddKinds
          /\ "Planned" \in Rules!Statuses /\ Rollback(Restore) \in Undos
      BY Numbers DEF Kinds, Undos, Rules!Statuses
    <3> QED
      BY <3>1, OperationGiven DEF Engage
  <2>3. Plan(operations) \in GivenPlans
    BY <1>2, <2>2, PlanGiven
  <2>4. [Plan(operations) EXCEPT !.transaction_id = id, !.last_error = error] \in GivenPlans
    <3> HIDE DEF GivenOperations
    <3> QED
      BY <2>3 DEF GivenPlans, AnyPlan, PlanText
  <2> QED
    BY <1>1, <2>1, <2>4
<1> QED
  BY <1>4, <1>5, <1>6, <1>7

\* and the states.
LEMMA StatesGiven ==
  ASSUME ReadState
  PROVE  input'.about = "state" /\ input'.of.operations \in Seq(GivenOperations)
<1>1. PICK phase \in Rules!Phases, error \in {Absent, "e", "a b"}, key \in {"a", "b"},
           order \in {<<>>, <<1>>, <<3>>}, status \in Rules!Statuses, rollback \in Rollbacks,
           length \in 0..2, other \in [order : {<<1>>, <<2>>}, status : Rules!Statuses] :
        Give("state", State(phase, error, SubSeq(
          <<Operation("a", order, Route("utun"), status, rollback),
            Operation(key, other.order, Route("en0"), other.status, Rollback(Restore))>>, 1, length)))
  BY Zenon DEF ReadState
<1> DEFINE o == Operation("a", order, Route("utun"), status, rollback)
           p == Operation(key, other.order, Route("en0"), other.status, Rollback(Restore))
           listed == SubSeq(<<o, p>>, 1, length)
<1>2. o \in GivenOperations /\ p \in GivenOperations
  <2>1. order \in Optional /\ other.order \in Optional /\ other.status \in Rules!Statuses
    BY Numbers
  <2>2. /\ Route("utun") \in Kinds \union OddKinds /\ Route("en0") \in Kinds \union OddKinds
        /\ rollback \in Undos /\ Rollback(Restore) \in Undos
    BY DEF Kinds, Undos
  <2> QED
    BY <2>1, <2>2, OperationGiven
<1> HIDE DEF o, p
<1>3. listed \in Seq(GivenOperations)
  <2> HIDE DEF GivenOperations
  <2> QED
    BY <1>2, ShortLists
<1>4. input'.about = "state" /\ input'.of = State(phase, error, listed)
  BY <1>1 DEF Give, o, p
<1> HIDE DEF GivenOperations, listed
<1>5. State(phase, error, listed).operations = listed
  BY DEF State
<1> QED
  BY <1>3, <1>4, <1>5

\* The messages are messages.
LEMMA Messages ==
  /\ Cores \subseteq AnyCore(Required)
  /\ Intents \subseteq AnyIntent(MessageText, Required)
  /\ Connections \subseteq AnyState(MessageText)
<1>1. Cores \subseteq AnyCore(Required)
  BY DEF Cores, AnyCore
<1>2. Intents \subseteq AnyIntent(MessageText, Required)
  BY DEF Intents, AnyIntent, MessageText
<1>3. Connections \subseteq AnyState(MessageText)
  BY DEF Connections, AnyState, MessageText, Contract!Active, Contract!IsIdentifier
<1> QED
  BY <1>1, <1>2, <1>3

\* A name of one label or of two is a name.
LEMMA ShortNames ==
  \A l, m \in AllLabels : <<l>> \in Seq(AllLabels) /\ <<l, m>> \in Seq(AllLabels)
OBVIOUS

\* The labels, one by one.
LEMMA LabelsListed == AllLabels = {"x", "ru", "y", "", "category-ru", "other"}
BY DEF AllLabels, Labels

\* Asks is an invariant: nothing is handed out at first, and each action hands out
\* a value of the kind it names.
LEMMA AsksInit == Init => Asks
  BY DEF Init, Asks

LEMMA AsksNext == Asks /\ [Next]_input => Asks'
<1> SUFFICES ASSUME Asks, [Next]_input PROVE Asks'
  OBVIOUS
<1>1. CASE UNCHANGED input
  BY <1>1 DEF Asks
<1>2. CASE Next
  <2>1. CASE Exchange
    <3>1. PICK core \in Cores, session_id \in {"s", "long"}, state \in Connections,
               intent \in Intents : Give("message", <<core, session_id, state, intent>>)
      BY <2>1 DEF Exchange
    <3>2. input'.about = "message" /\ input'.of = <<core, session_id, state, intent>>
      BY <3>1 DEF Give
    <3>3. /\ core \in AnyCore(Required) /\ state \in AnyState(MessageText)
          /\ intent \in AnyIntent(MessageText, Required)
      BY Messages
    <3> QED
      BY <3>2, <3>3 DEF Asks
  <2>2. CASE BuildAllowlist
    <3>1. PICK intent \in Connects, port \in {0, 443}, transport \in {"Tcp", "Udp"} :
            Give("intent", <<intent, port, transport>>)
      BY <2>2 DEF BuildAllowlist
    <3>2. input'.about = "intent" /\ input'.of = <<intent, port, transport>> /\ port \in Nat
      BY <3>1 DEF Give
    <3> QED
      BY <3>2 DEF Asks
  <2>3. CASE LoadSettings
    <3>1. PICK enabled \in BOOLEAN, r \in DomainRules, s \in DomainRules,
               mode \in {"ProxyAll", "BypassSelected", "ProxySelected", "BlockSelected"},
               ips \in {{}, {"geoip:private"}, {"9.9.9.9"}, {"text"}} :
            Give("settings", [enabled |-> enabled, mode |-> mode, direct_domains |-> {r, s},
                              direct_ips |-> ips, direct_apps |-> {}])
      BY <2>3 DEF LoadSettings
    <3>2. /\ input'.about = "settings" /\ input'.of.enabled = enabled
          /\ input'.of.direct_domains = {r, s}
      BY <3>1 DEF Give
    <3>3. r.labels \in Seq(AllLabels) /\ s.labels \in Seq(AllLabels)
      <4>1. \A rule \in DomainRules :
              rule.labels \in {<<"">>, <<"ru">>, <<"x", "ru">>, <<"category-ru">>, <<"other">>}
        BY DEF DomainRules
      <4>2. {<<"">>, <<"ru">>, <<"x", "ru">>, <<"category-ru">>, <<"other">>} \subseteq Seq(AllLabels)
        BY ShortNames, LabelsListed
      <4> QED
        BY <4>1, <4>2
    <3> QED
      BY <3>2, <3>3 DEF Asks
  <2>4. CASE ParseSecurity \/ ParseTransport \/ ParseAddress \/ ParseNames
    BY <2>4, LinksGiven DEF Asks
  <2>5. CASE LoadProfile \/ LoadTls
    BY <2>5, ProfilesGiven DEF Asks
  <2>6. CASE AddLink
    BY <2>6, PairsGiven DEF Asks
  <2>7. CASE OneRow \/ TwoRows \/ ThreeRows \/ FourRows
    BY <2>7, CatalogsGiven DEF Asks
  <2>9. CASE AdmitOne \/ AdmitTwo \/ AdmitThree \/ AdmitWith
    BY <2>9, PlansGiven DEF Asks
  <2>10. CASE ReadState
    BY <2>10, StatesGiven DEF Asks
  <2>8. input'.about \notin {"message", "intent", "settings", "link", "profile", "pair", "catalog",
                            "plan", "state"} => Asks'
    BY DEF Asks
  <2> QED
    BY <1>2, <2>1, <2>2, <2>3, <2>4, <2>5, <2>6, <2>7, <2>8, <2>9, <2>10, Given
<1> QED
  BY <1>1, <1>2

LEMMA AsksAlways == Spec => []Asks
  BY AsksInit, AsksNext, PTL DEF Spec

\* Every client and helper of MCRules understand each other.
THEOREM HelperUnderstands == Spec => []HelperUnderstood
<1>1. Asks => HelperUnderstood
  <2> SUFFICES ASSUME Asks, input.about = "message" PROVE HelperUnderstood
    BY DEF HelperUnderstood
  <2>1. PICK core \in AnyCore(Required), session_id \in {"s", "long"},
             state \in AnyState(MessageText), intent \in AnyIntent(MessageText, Required) :
          input.of = <<core, session_id, state, intent>>
    BY DEF Asks
  <2>2. /\ input.of[1] = core /\ input.of[2] = session_id
        /\ input.of[3] = state /\ input.of[4] = intent
    BY <2>1
  <2>3. /\ Contract!HandshakeAgrees(core, session_id)
        /\ Contract!Understood(core, session_id, state, intent)
    BY HandshakesAgree, MessagesUnderstood DEF Contract!Absent
  <2> QED
    BY <2>2, <2>3 DEF HelperUnderstood
<1> QED
  BY <1>1, AsksAlways, PTL

\* Every connection and every list of MCRules contains its traffic.
THEOREM TrafficIsContained == Spec => []TrafficContained
<1>1. Asks => TrafficContained
  <2> SUFFICES ASSUME Asks PROVE TrafficContained
    OBVIOUS
  <2>1. ASSUME input.about = "intent"
        PROVE  Traffic!KillSwitchContained(input.of[1], input.of[2], input.of[3], Egress)
    <3>1. PICK intent \in Connects, port \in Nat, transport \in {"Tcp", "Udp"} :
            input.of = <<intent, port, transport>>
      BY <2>1 DEF Asks
    <3>2. input.of[1] = intent /\ input.of[2] = port /\ input.of[3] = transport
      BY <3>1
    <3>3. Egress \subseteq AnyEgress({"en0", "utun", "en1"}, Traffic!Addresses,
                                     {"Tcp", "Udp", "Other"})
      BY DEF Egress, AnyEgress
    <3> QED
      BY <3>2, <3>3, KillSwitchContains
  <2>2. ASSUME input.about = "settings"
        PROVE  /\ \A name \in Names : Traffic!SplitContained(input.of, name, Labels)
               /\ \A address \in Traffic!Addresses : Traffic!AddressContained(input.of, address)
    <3>1. /\ input.of.enabled \in BOOLEAN
          /\ \A rule \in input.of.direct_domains : rule.labels \in Seq(AllLabels)
      BY <2>2 DEF Asks
    <3>2. Names \subseteq Seq(AllLabels)
      <4>1. ASSUME NEW n \in Names PROVE n \in Seq(AllLabels)
        <5>1. (\E l \in Labels : n = <<l>>) \/ \E l \in Labels : \E m \in Labels : n = <<l, m>>
          BY DEF Names
        <5> QED
          BY <5>1, ShortNames DEF AllLabels
      <4> QED
        BY <4>1
    <3>3. Labels \subseteq AllLabels /\ "ru" \in AllLabels
      BY DEF AllLabels, Labels
    <3> QED
      BY <3>1, <3>2, <3>3, SplitContains, AddressContains
  <2> QED
    BY <2>1, <2>2 DEF TrafficContained
<1> QED
  BY <1>1, AsksAlways, PTL

\* Every link of MCRules is given to the engines as it is, every profile as it is
\* up to blanks, and pairs of links are told apart.
THEOREM LinksAreFaithful == Spec => []LinksFaithful
<1>1. Asks => LinksFaithful
  <2> SUFFICES ASSUME Asks PROVE LinksFaithful
    OBVIOUS
  <2>1. input.about = "link" => Links!LinkFaithful(input.of)
    BY LinkIsFaithful DEF Asks
  <2>2. input.about = "profile" => Links!ProfileFaithful(input.of)
    BY ProfilesFaithful DEF Asks
  <2>3. input.about = "pair" => Links!PairFaithful(input.of[1], input.of[2])
    BY PairIsFaithful DEF Asks
  <2> QED
    BY <2>1, <2>2, <2>3 DEF LinksFaithful
<1> QED
  BY <1>1, AsksAlways, PTL

\* Every catalog of MCRules that is admitted selects soundly, and starts what it
\* selects.
THEOREM CatalogsAreSound == Spec => []CatalogSound
<1>1. Asks => CatalogSound
  <2> SUFFICES ASSUME Asks, input.about = "catalog", Engines!validate_engine_catalog(input.of)
               PROVE  CatalogSound
    BY DEF CatalogSound
  <2> DEFINE catalog == input.of
  <2>1. catalog.releases \in Seq(PinnedRows)
    BY DEF Asks
  <2>2. \A r \in Engines!Range(catalog.releases) : r.version # Engines!Absent
    <3>1. \A r \in PinnedRows : r.version # Engines!Absent
      BY DEF PinnedRows, VersionText, Engines!Absent
    <3>2. Engines!Range(catalog.releases) \subseteq PinnedRows
      BY <2>1 DEF Engines!Range
    <3> QED
      BY <3>1, <3>2
  <2>3. Engines!get_pinned_engine_releases(catalog) = catalog.releases
    BY DEF Engines!get_pinned_engine_releases
  <2> HIDE DEF catalog
  <2>4. ASSUME NEW strategy \in Engines!Strategies
        PROVE  /\ Engines!DefaultFound(catalog, strategy)
               /\ \A request : Engines!SelectionSound(catalog, strategy, request)
               /\ \A request, explicit, target, file :
                    Engines!StartedIsPinned(Engines!get_pinned_engine_releases(catalog),
                                            strategy, request, explicit, target, file)
    <3>1. Engines!validate_engine_catalog(catalog)
      BY DEF catalog
    <3>2. Engines!DefaultFound(catalog, strategy)
      BY <2>1, <2>2, <3>1, DefaultIsFound
    <3>3. ASSUME NEW request PROVE Engines!SelectionSound(catalog, strategy, request)
      BY <2>1, <3>1, SelectionIsSound
    <3>4. ASSUME NEW request, NEW explicit, NEW target, NEW file
          PROVE  Engines!StartedIsPinned(Engines!get_pinned_engine_releases(catalog),
                                         strategy, request, explicit, target, file)
      BY <2>1, <2>3, <3>1, OnlyPinnedStart
    <3> QED
      BY <3>2, <3>3, <3>4
  <2> QED
    BY <2>4, Zenon DEF CatalogSound, catalog
<1> QED
  BY <1>1, AsksAlways, PTL

\* Every plan of MCRules is recoverable, and every state of it is undone.
THEOREM RollbackIsComplete == Spec => []RollbackComplete
<1>1. Asks => RollbackComplete
  <2> SUFFICES ASSUME Asks PROVE RollbackComplete
    OBVIOUS
  <2>1. input.about = "plan" => Rules!PlanRecoverable(input.of[1], input.of[2])
    BY PlansRecoverable DEF Asks, GivenPlans, GivenOperations
  <2>2. ASSUME input.about = "state" PROVE Rules!StateUndone(input.of)
    <3>1. input.of.operations \in Seq(GivenOperations)
      BY <2>2 DEF Asks
    <3>2. \A i \in DOMAIN input.of.operations : input.of.operations[i] \in GivenOperations
      BY <3>1
    <3>3. \A i \in DOMAIN input.of.operations : input.of.operations[i].apply_order \in Optional
      BY <3>2 DEF GivenOperations, AnyOperation
    <3>4. Listing(input.of.operations)
      BY <3>1, <3>3 DEF Listing
    <3> QED
      BY <3>4, StatesUndone
  <2> QED
    BY <2>1, <2>2 DEF RollbackComplete
<1> QED
  BY <1>1, AsksAlways, PTL
=============================================================================
