----------------------------- MODULE HelperSession -----------------------------
(***************************************************************************)
(* The client's connection state machine (connection.rs), the session of   *)
(* the privileged helper with its runtime right and replay guard           *)
(* (helper_runtime_admission.rs, platform_contract.rs), and between them a *)
(* transport that loses, repeats and reorders what either side sends.      *)
(*                                                                         *)
(* The transport and the tunnel behind the helper are not in the code yet: *)
(* the helper answers as the skeleton of platform_helper.rs does, and its  *)
(* tunnel goes through the states of PlatformObservedState.  The client    *)
(* numbers the commands of a session from 1, never uses a correlation id   *)
(* twice, and asks for the status under the id of its present operation.   *)
(***************************************************************************)
EXTENDS Naturals, Sequences

CONSTANTS
  MaxSequence,    \* the largest sequence number, u64::MAX in the code
  MaxSessions,    \* bound: sessions admitted
  MaxId           \* bound: operations of the client

ASSUME SessionAssumption == {MaxSequence, MaxSessions, MaxId} \subseteq Nat

Sessions == 1..MaxSessions
Ids == 0..MaxId                     \* 0: of no operation
Operations == {"PrepareTunnel", "Disconnect", "Recover"}
Commands == [kind : Operations \cup {"Status"}, id : Ids]
Active == {"Connecting", "Connected", "Disconnecting", "Recovering"}
Observables == {"Idle", "Preparing", "Connected", "Disconnecting", "Recovering", "Failed"}

VARIABLES
  conn,           \* the client: [at, id]
  ids,            \* ids used so far
  sent,           \* what the client sent in each session; any of it may arrive again
  opened,         \* sessions admitted so far; the client uses the last
  session,        \* the helper's session, 0 when it has none
  last_sequence,  \* of the helper's session
  right,          \* whether the runtime right validates
  tunnel,         \* behind the helper: [at, id]
  replies,        \* what the helper said; any of it may arrive, in any order
  accepted        \* history: commands accepted in the helper's session

client == <<conn, ids, sent>>
guard == <<opened, session, last_sequence, accepted>>
vars == <<client, guard, right, tunnel, replies>>

Down == [at |-> "Idle", id |-> 0]

Init ==
  /\ conn = [at |-> "Disconnected", id |-> 0] /\ ids = 0
  /\ sent = [s \in Sessions |-> <<>>]
  /\ opened = 0 /\ session = 0 /\ last_sequence = 0 /\ accepted = <<>>
  /\ right \in BOOLEAN /\ tunnel = Down /\ replies = {}

-----------------------------------------------------------------------------
\* The client.

\* A command is lost without a session or with its numbers used up.
Send(c) ==
  sent' = IF opened = 0 \/ Len(sent[opened]) = MaxSequence THEN sent
          ELSE [sent EXCEPT ![opened] = Append(@, c)]

Allowed(kind) ==
  IF kind = "Disconnect" THEN conn.at \in Active ELSE conn.at \in {"Disconnected", "Failed"}

Entered(kind) ==
  CASE kind = "PrepareTunnel" -> "Connecting"
    [] kind = "Disconnect" -> "Disconnecting"
    [] kind = "Recover" -> "Recovering"

Execute(kind) ==
  /\ Allowed(kind) /\ ids < MaxId
  /\ ids' = ids + 1
  /\ conn' = [at |-> Entered(kind), id |-> ids']
  /\ Send([kind |-> kind, id |-> ids'])
  /\ UNCHANGED <<guard, right, tunnel, replies>>

ExecuteStatus ==
  /\ Send([kind |-> "Status", id |-> conn.id])
  /\ UNCHANGED <<conn, ids, guard, right, tunnel, replies>>

\* Mutant: what is heard while disconnecting or recovering counts whatever it is about.
Observe_AnyId(r) ==
  /\ conn.at \in Active
  /\ conn' = CASE conn.at = "Connecting" /\ r.at = "Connected" -> [conn EXCEPT !.at = "Connected"]
               [] conn.at \in {"Disconnecting", "Recovering"} /\ r.at = "Idle" ->
                    [at |-> "Disconnected", id |-> 0]
               [] r.at = "Failed" -> [at |-> "Failed", id |-> 0]
               [] OTHER -> conn
  /\ UNCHANGED <<ids, sent, guard, right, tunnel, replies>>

\* Anything else that is observed is an error and changes nothing.
Observe(r) ==
  /\ conn.at \in Active /\ r.id = conn.id
  /\ conn' = CASE conn.at = "Connecting" /\ r.at = "Connected" -> [conn EXCEPT !.at = "Connected"]
               [] conn.at \in {"Disconnecting", "Recovering"} /\ r.at = "Idle" ->
                    [at |-> "Disconnected", id |-> 0]
               [] r.at = "Failed" -> [at |-> "Failed", id |-> 0]
               [] OTHER -> conn
  /\ UNCHANGED <<ids, sent, guard, right, tunnel, replies>>

-----------------------------------------------------------------------------
\* The helper.

\* The scope of the old session ends; its tunnel and the client go on.
Admit ==
  /\ right /\ opened < MaxSessions
  /\ opened' = opened + 1 /\ session' = opened'
  /\ last_sequence' = 0 /\ accepted' = <<>>
  /\ UNCHANGED <<client, right, tunnel, replies>>

RequiresRuntimeRight(c) == c.kind \in Operations

\* Mutant: a gap is accepted.
Expected_Gap(s, n) == s = session /\ n > last_sequence

\* Mutant: the session is not compared.
Expected_AnySession(s, n) ==
  session # 0 /\ last_sequence < MaxSequence /\ n = last_sequence + 1

\* Mutant: a session that may take one command more is exhausted.
Expected_Short(s, n) == s = session /\ last_sequence + 1 < MaxSequence /\ n = last_sequence + 1

\* The next sequence of this session, while there is one.
Expected(s, n) == s = session /\ last_sequence < MaxSequence /\ n = last_sequence + 1

Handle(c) ==
  /\ tunnel' \in CASE c.kind = "PrepareTunnel" -> {[at |-> "Preparing", id |-> c.id]}
                   [] c.kind = "Disconnect" -> [at : {"Idle", "Disconnecting"}, id : {c.id}]
                   [] c.kind = "Recover" -> {[at |-> "Recovering", id |-> c.id]}
                   [] c.kind = "Status" -> {tunnel}
  /\ replies' = replies \cup {[at |-> tunnel'.at, id |-> c.id]}

\* The right is checked before the sequence; a refusal uses up no number.
AcceptCommand(s, n) ==
  LET c == sent[s][n] IN
  /\ RequiresRuntimeRight(c) => right
  /\ Expected(s, n)
  /\ last_sequence' = n /\ accepted' = Append(accepted, c)
  /\ Handle(c)
  /\ UNCHANGED <<client, opened, session, right>>

TunnelMoves ==
  /\ \E at \in CASE tunnel.at = "Preparing" -> {"Connected", "Failed"}
                 [] tunnel.at = "Connected" -> {"Failed"}
                 [] tunnel.at \in {"Disconnecting", "Recovering"} -> {"Idle", "Failed"}
                 [] OTHER -> {} :
       tunnel' = [tunnel EXCEPT !.at = at]
  /\ UNCHANGED <<client, guard, right, replies>>

\* The tunnel does not outlive the helper's process.
HelperRestarts ==
  /\ session' = 0 /\ last_sequence' = 0 /\ accepted' = <<>> /\ tunnel' = Down
  /\ UNCHANGED <<client, opened, right, replies>>

RightChanges == right' = ~right /\ UNCHANGED <<client, guard, tunnel, replies>>

Deliver == \E s \in Sessions : \E n \in DOMAIN sent[s] : AcceptCommand(s, n)

Next ==
  \/ \E kind \in Operations : Execute(kind)
  \/ ExecuteStatus
  \/ \E r \in replies : Observe(r)
  \/ Admit
  \/ Deliver
  \/ TunnelMoves
  \/ HelperRestarts
  \/ RightChanges

Spec == Init /\ [][Next]_vars

\* What was sent is sent again until it is accepted.
FairSpec == Spec /\ WF_vars(Deliver)

-----------------------------------------------------------------------------
\* Properties.

\* Shapes; the client has an id exactly while an operation is in force.
TypeOK ==
  /\ conn \in [at : Active \cup {"Disconnected", "Failed"}, id : 0..ids]
  /\ (conn.id # 0) = (conn.at \in Active)
  /\ ids \in Ids /\ opened \in 0..MaxSessions /\ session \in {0, opened}
  /\ sent \in [Sessions -> Seq(Commands)]
  /\ last_sequence \in 0..MaxSequence /\ accepted \in Seq(Commands)
  /\ right \in BOOLEAN
  /\ tunnel \in [at : Observables, id : 0..ids]
  /\ replies \subseteq [at : Observables, id : 0..ids]

\* What the helper accepted in its session is what the client sent in it, from the
\* first command on, each once and in order, whatever came twice, late, from an
\* older session or at a time without the right.
AcceptedInOrder ==
  /\ last_sequence = Len(accepted)
  /\ session # 0 =>
       /\ Len(accepted) <= Len(sent[session])
       /\ \A n \in DOMAIN accepted : accepted[n] = sent[session][n]

\* A client that says Disconnected has no tunnel coming up or up.
DisconnectedMeansDown ==
  conn.at = "Disconnected" => tunnel.at \notin {"Preparing", "Connected"}

\* A client that says Connected means the helper's present tunnel: it came up under
\* this very id, and if it is not up any more it failed or died with the helper.
ConnectedIsThis ==
  conn.at = "Connected" =>
    \/ tunnel.id = conn.id /\ tunnel.at \in {"Connected", "Failed"}
    \/ tunnel = Down

\* If the right comes back for good, every command sent in a session is accepted
\* unless the session ends: no refusal, repetition or limit wedges it.
CommandsAccepted ==
  <>[]right =>
    \A s \in Sessions, n \in 1..MaxSequence :
      (session = s /\ n <= Len(sent[s])) ~> (session # s \/ last_sequence >= n)
=============================================================================
