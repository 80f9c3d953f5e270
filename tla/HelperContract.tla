--------------------------- MODULE HelperContract ---------------------------
(***************************************************************************)
(* One message between the client and the helper, with all it carries.     *)
(* The rules of platform_contract.rs are applied three times: by the       *)
(* client before it sends (connection.rs), by the admission and the        *)
(* session before they accept (helper_runtime_admission.rs), and by the    *)
(* handler before it answers (platform_helper.rs).  HelperSession follows  *)
(* many messages over time, in which these checks have passed.             *)
(***************************************************************************)
EXTENDS Naturals, Sequences, SequencesExt

Absent == "absent"
Refused == [error |-> TRUE]

MAX_PLATFORM_MESSAGE_BYTES == 65536
MAX_PLATFORM_CAPABILITIES == 32

-----------------------------------------------------------------------------
(* The rules of a message                                                  *)

\* Text is a name for a class of strings: blank, over the limit, with a
\* character that no identifier has, or valid.
IsIdentifier(v) == v \notin {"", " ", "long", "a b"}
validate_correlation_id(id) == IsIdentifier(id)
validate_helper_runtime_session_id(id) == IsIdentifier(id)

validate_capability_count(capabilities) == Len(capabilities) <= MAX_PLATFORM_CAPABILITIES
Supports(helper, required) == Range(required) \subseteq Range(helper.capabilities)

\* (mutated: only the helper's own list is counted)
validate_helper_handshake_Uncounted(core, helper) ==
  /\ validate_capability_count(helper.capabilities)
  /\ helper.protocol_version \in core.min_supported_protocol_version..core.protocol_version
  /\ Supports(helper, core.required_capabilities)

validate_helper_handshake(core, helper) ==
  /\ validate_capability_count(core.required_capabilities)
  /\ validate_capability_count(helper.capabilities)
  /\ helper.protocol_version \in core.min_supported_protocol_version..core.protocol_version
  /\ Supports(helper, core.required_capabilities)

validate_required_capabilities(required, helper) ==
  /\ validate_capability_count(required) /\ validate_capability_count(helper.capabilities)
  /\ Supports(helper, required)

\* The commands that name a correlation id, and need the runtime right.
Mutating == {"PrepareTunnel", "Disconnect", "Recover"}
CommandTypes == Mutating \union {"Handshake", "Status"}

\* bytes is the length of the command's JSON.
FitsMessage(command) == command.bytes <= MAX_PLATFORM_MESSAGE_BYTES

validate_helper_command(command, helper) ==
  /\ FitsMessage(command)
  /\ command.type = "Handshake" => validate_helper_handshake(command.core, helper)
  /\ command.type \in Mutating => validate_correlation_id(command.correlation_id)
  /\ command.type = "PrepareTunnel" =>
       validate_required_capabilities(command.required_capabilities, helper)

validate_helper_runtime_envelope(envelope, helper) ==
  /\ validate_helper_runtime_session_id(envelope.session_id)
  /\ validate_correlation_id(envelope.correlation_id)
  /\ envelope.sequence # 0 /\ envelope.command.type # "Handshake"
  /\ validate_helper_command(envelope.command, helper)

-----------------------------------------------------------------------------
(* The client                                                              *)

into_command(intent) ==
  [intent EXCEPT !.type = IF @ = "Connect" THEN "PrepareTunnel" ELSE @]

Active == {"Connecting", "Connected", "Disconnecting", "Recovering"}

next_state_for_intent(state, intent) ==
  CASE intent.type = "Status" -> state
    [] intent.type = "Connect" /\ state.at \notin Active ->
         [at |-> "Connecting", id |-> intent.correlation_id]
    [] intent.type = "Disconnect" /\ state.at \in Active ->
         [at |-> "Disconnecting", id |-> intent.correlation_id]
    [] intent.type = "Recover" /\ state.at \notin Active ->
         [at |-> "Recovering", id |-> intent.correlation_id]
    [] OTHER -> Refused

\* The state changes only for a command that is sent.
execute(state, intent, helper) ==
  LET next == next_state_for_intent(state, intent) IN
  IF next = Refused \/ ~validate_helper_command(into_command(intent), helper) THEN Refused
  ELSE [state |-> next, command |-> into_command(intent)]

\* From, observed, to.
Observations ==
  {<<"Disconnected", "Idle", "Disconnected">>, <<"Connecting", "Preparing", "Connecting">>,
   <<"Connecting", "Connected", "Connected">>, <<"Connected", "Connected", "Connected">>,
   <<"Disconnecting", "Disconnecting", "Disconnecting">>,
   <<"Disconnecting", "Idle", "Disconnected">>, <<"Recovering", "Recovering", "Recovering">>,
   <<"Recovering", "Idle", "Disconnected">>}
  \union {<<a, "Failed", "Failed">> : a \in Active}

next_state_for_observed(state, observed, id) ==
  LET found == {o \in Observations : o[1] = state.at /\ o[2] = observed} IN
  IF found = {} \/ (state.at \in Active /\ id # state.id) THEN Refused
  ELSE LET to == (CHOOSE o \in found : TRUE)[3]
       IN [at |-> to, id |-> IF to \in Active THEN state.id ELSE Absent]

-----------------------------------------------------------------------------
(* The helper                                                              *)

default_helper_hello ==
  [protocol_version |-> 1, capabilities |->
     <<"Tun", "Ipv4", "Ipv6", "Dns", "Firewall", "KillSwitch", "RecoveryJournal">>]

\* The client of a helper that runs as root is another user.
HelperRuntimeAdmissionPolicy(uid) == uid # 0

\* A peer or a session id is Absent when the adapter cannot tell it.
admit(expected_client_uid, peer, right, core, helper, session_id) ==
  IF /\ HelperRuntimeAdmissionPolicy(expected_client_uid) /\ peer = expected_client_uid /\ right
     /\ validate_helper_handshake(core, helper)
     /\ session_id # Absent /\ validate_helper_runtime_session_id(session_id)
  THEN [helper |-> helper, session_id |-> session_id, last_sequence |-> 0]
  ELSE Refused

\* The numbers of a session, and their end, are in HelperSession.
accept_command(session, right, envelope) ==
  /\ envelope.command.type \in Mutating => right
  /\ validate_helper_runtime_envelope(envelope, session.helper)
  /\ envelope.session_id = session.session_id
  /\ envelope.sequence = session.last_sequence + 1

\* The skeleton has no tunnel: its status is always Idle.
handle_command(helper, command) ==
  IF ~validate_helper_command(command, helper) THEN [event |-> "CommandRejected"]
  ELSE IF command.type = "Handshake" THEN [event |-> "HandshakeAccepted", hello |-> helper]
  ELSE [event |-> "Status", observed_state |->
          CASE command.type = "PrepareTunnel" -> "Preparing"
            [] command.type = "Recover" -> "Recovering"
            [] OTHER -> "Idle"]

\* Text that is no command is rejected.
run_helper_once(input) ==
  LET event == IF input.type \notin CommandTypes
               THEN [event |-> "CommandRejected"]
               ELSE handle_command(default_helper_hello, input)
  IN [exit_code |-> IF event.event = "CommandRejected" THEN "Rejected" ELSE "Success",
      event |-> event]

-----------------------------------------------------------------------------
(* What is checked of a message                                            *)

\* A status request goes under the id of the operation in force.
Enveloped(session, sequence, sent) ==
  [session_id |-> session.session_id, sequence |-> sequence, correlation_id |-> sent.state.id,
   command |-> sent.command]

\* What the client sends is accepted in its session, unless a status request has
\* no operation to name.
Accepted(session, sent) ==
  sent.command.type \in Mutating \/ sent.state.at \in Active =>
    accept_command(session, TRUE, Enveloped(session, session.last_sequence + 1, sent))

\* What is accepted is handled, and the answer to an operation is one that the
\* client can take in the state it then is in, without being told more than
\* has happened.
Answered(session, sent) ==
  LET answer == handle_command(session.helper, sent.command)
      next == next_state_for_observed(sent.state, answer.observed_state, sent.state.id)
  IN /\ answer.event = "Status"
     /\ sent.command.type \in Mutating => next # Refused /\ next.at \notin {"Connected", "Failed"}

\* What the handshake agreed on, a later command may require.
Served(session, core, state, intent) ==
  (/\ intent.type = "Connect" /\ next_state_for_intent(state, intent) # Refused
   /\ intent.required_capabilities = core.required_capabilities
   /\ IsIdentifier(intent.correlation_id) /\ FitsMessage(intent))
    => execute(state, intent, session.helper) # Refused

\* The helper's binary answers one message and exits as the answer says: a hello
\* it accepts admits a client that has the right, and no other.
HandshakeAgrees(core, session_id) ==
  LET greeting == [type |-> "Handshake", core |-> core, bytes |-> 1]
      session == admit(501, 501, TRUE, core, default_helper_hello, session_id)
  IN IsIdentifier(session_id) =>
       (run_helper_once(greeting).exit_code = "Success") = (session # Refused)

\* The client knows the helper by the hello that accepted its own.
Understood(core, session_id, state, intent) ==
  LET session == admit(501, 501, TRUE, core, default_helper_hello, session_id)
      sent == execute(state, intent, session.helper)
  IN session # Refused =>
       /\ Served(session, core, state, intent)
       /\ sent # Refused => Accepted(session, sent) /\ Answered(session, sent)
=============================================================================
