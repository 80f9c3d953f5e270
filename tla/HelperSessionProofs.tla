-------------------------- MODULE HelperSessionProofs --------------------------
(***************************************************************************)
(* For every number of sessions, sequences and operations: commands are    *)
(* accepted once and in order, a client that says Disconnected has no      *)
(* tunnel up or coming up, and one that says Connected means its own.      *)
(***************************************************************************)
EXTENDS HelperSession, TLAPS

\* Every command sent carries an id the client has used, in a session it was admitted to.
SentIds == \A s \in Sessions : \A n \in DOMAIN sent[s] : sent[s][n].id \in 0..ids

Unopened == \A s \in Sessions : s > opened => sent[s] = <<>>

\* What was sent under the present id was sent with or after the last operation.
OperationsFirst ==
  conn.at \in Active =>
    \A s \in Sessions : \A p, n \in DOMAIN sent[s] :
      sent[s][p].kind \in Operations /\ sent[s][n].id = conn.id => p <= n

Awaits(p) == session # 0 /\ p \in DOMAIN sent[session] /\ p > last_sequence

\* No tunnel is up or coming up, and none is asked for by a command not yet accepted.
Quiet ==
  /\ tunnel.at \notin {"Preparing", "Connected"}
  /\ \A p \in 1..MaxSequence : Awaits(p) => sent[session][p].kind # "PrepareTunnel"

\* A tunnel that is up or coming up, and any that is asked for, is the client's.
Own ==
  /\ tunnel.at \in {"Preparing", "Connected"} => tunnel.id = conn.id
  /\ \A p \in 1..MaxSequence :
       Awaits(p) /\ sent[session][p].kind = "PrepareTunnel" => sent[session][p].id = conn.id

\* The client's tunnel came up, and no operation awaits acceptance.
Settled ==
  /\ (tunnel.id = conn.id /\ tunnel.at \in {"Connected", "Failed"}) \/ tunnel = Down
  /\ \A p \in 1..MaxSequence : Awaits(p) => sent[session][p].kind \notin Operations

Said(at) == \E r \in replies : r.at = at /\ r.id = conn.id

Connects == conn.at \in {"Connecting", "Connected"}

\* A session carries no more commands than it has numbers.
Short == \A s \in Sessions : Len(sent[s]) <= MaxSequence

IInv ==
  /\ TypeOK /\ Short /\ SentIds /\ Unopened /\ OperationsFirst
  /\ conn.at \notin Active => Quiet
  /\ conn.at \in Active /\ (Said("Idle") \/ Said("Failed")) => Quiet
  /\ Connects => Own
  /\ conn.at = "Connected" \/ (conn.at = "Connecting" /\ Said("Connected")) => Settled

-----------------------------------------------------------------------------
\* Type correctness.

LEMMA Bounds == {MaxSequence, MaxSessions, MaxId} \subseteq Nat
BY SessionAssumption

LEMMA IdsAre == ASSUME TypeOK PROVE ids \in Nat /\ Ids = 0..MaxId /\ 0..ids \subseteq Ids
BY Bounds DEF TypeOK, Ids

\* What the client sends in a session stays, and at most one command is added.
LEMMA SendAppends ==
  ASSUME TypeOK, NEW c \in Commands, Send(c)
  PROVE  /\ sent' \in [Sessions -> Seq(Commands)]
         /\ \A s \in Sessions :
              sent'[s] = sent[s] \/ (s = opened /\ sent'[s] = Append(sent[s], c))
<1>1. sent \in [Sessions -> Seq(Commands)]
  BY DEF TypeOK
<1>2. CASE sent' = sent
  BY <1>1, <1>2
<1>3. CASE sent' = [sent EXCEPT ![opened] = Append(@, c)] /\ opened # 0
  <2>1. opened \in Sessions
    BY <1>3, Bounds DEF TypeOK, Sessions
  <2>2. Append(sent[opened], c) \in Seq(Commands)
    BY <1>1, <2>1
  <2> QED
    BY <1>1, <1>3, <2>1, <2>2
<1> QED
  BY <1>2, <1>3 DEF Send

\* Type correctness of what the client does.
LEMMA ClientTyped ==
  ASSUME TypeOK, NEW kind \in Operations, Execute(kind)
  PROVE  TypeOK'
<1>1. ids \in Nat /\ ids' = ids + 1 /\ ids' \in Ids /\ ids' # 0
  BY Bounds DEF TypeOK, Execute, Ids
<1>2. [kind |-> kind, id |-> ids'] \in Commands
  BY <1>1 DEF Commands
<1>3. sent' \in [Sessions -> Seq(Commands)]
  BY <1>2, SendAppends DEF Execute
<1>4. Entered(kind) \in Active
  BY DEF Entered, Active, Operations
<1>5. conn' = [at |-> Entered(kind), id |-> ids']
  BY DEF Execute
<1>6. conn' \in [at : Active \cup {"Disconnected", "Failed"}, id : 0..ids'] /\ (conn.id # 0)' = (conn.at \in Active)'
  BY <1>1, <1>4, <1>5
<1>7. 0..ids \subseteq 0..ids'
  BY <1>1
<1>8. tunnel' \in [at : Observables, id : 0..ids'] /\ replies' \subseteq [at : Observables, id : 0..ids']
  BY <1>7 DEF TypeOK, Execute
<1> QED
  BY <1>1, <1>3, <1>6, <1>8 DEF TypeOK, Execute, guard

\* Type correctness of an observation.
LEMMA ObserveTyped ==
  ASSUME TypeOK, NEW r \in replies, Observe(r)
  PROVE  TypeOK'
<1>1. conn \in [at : Active \cup {"Disconnected", "Failed"}, id : 0..ids] /\ ids \in Nat /\ conn.id # 0
  BY Bounds DEF TypeOK, Observe, Ids
<1>2. \/ conn' = [conn EXCEPT !.at = "Connected"]
      \/ conn' = [at |-> "Disconnected", id |-> 0]
      \/ conn' = [at |-> "Failed", id |-> 0]
      \/ conn' = conn
  BY DEF Observe
<1>3. conn' \in [at : Active \cup {"Disconnected", "Failed"}, id : 0..ids]
  BY <1>1, <1>2 DEF Active
<1>4. (conn'.id # 0) = (conn'.at \in Active)
  <2>1. (conn.id # 0) = (conn.at \in Active)
    BY DEF TypeOK
  <2> QED
    BY <1>1, <1>2, <2>1 DEF Active
<1> QED
  BY <1>3, <1>4 DEF TypeOK, Observe, guard

\* Type correctness of an accepted command.
LEMMA AcceptTyped ==
  ASSUME TypeOK, SentIds, NEW s \in Sessions, NEW n \in DOMAIN sent[s], AcceptCommand(s, n)
  PROVE  TypeOK'
<1> DEFINE c == sent[s][n]
<1>1. sent[s] \in Seq(Commands) /\ n \in 1..Len(sent[s]) /\ c \in Commands
  BY DEF TypeOK
<1>2. last_sequence' = n /\ accepted' = Append(accepted, c) /\ Expected(s, n)
  BY DEF AcceptCommand
<1>3. last_sequence' \in 0..MaxSequence
  BY <1>2, Bounds DEF Expected, TypeOK
<1>4. accepted' \in Seq(Commands)
  BY <1>1, <1>2 DEF TypeOK
<1>5. Handle(c)
  BY DEF AcceptCommand
<1>6. tunnel' \in [at : Observables, id : 0..ids]
  <2>1. c.kind \in Operations \cup {"Status"}
    BY <1>1 DEF Commands
  <2>2. tunnel \in [at : Observables, id : 0..ids]
    BY DEF TypeOK
  <2> HIDE DEF c
  <2>3. c.id \in 0..ids
    BY DEF c, SentIds
  <2>4. CASE c.kind = "PrepareTunnel"
    BY <1>5, <2>3, <2>4 DEF Handle, Observables
  <2>5. CASE c.kind = "Disconnect"
    BY <1>5, <2>3, <2>5 DEF Handle, Observables
  <2>6. CASE c.kind = "Recover"
    BY <1>5, <2>3, <2>6 DEF Handle, Observables
  <2>7. CASE c.kind = "Status"
    BY <1>5, <2>2, <2>7 DEF Handle
  <2> QED
    BY <2>1, <2>4, <2>5, <2>6, <2>7 DEF Operations
<1>7. replies' \subseteq [at : Observables, id : 0..ids]
  <2>1. [at |-> tunnel'.at, id |-> c.id] \in [at : Observables, id : 0..ids]
    BY <1>6 DEF SentIds
  <2> QED
    BY <1>5, <2>1 DEF Handle, TypeOK
<1> QED
  BY <1>3, <1>4, <1>6, <1>7 DEF TypeOK, AcceptCommand, client

\* Type correctness of the rest.
LEMMA OtherTyped ==
  ASSUME TypeOK, ExecuteStatus \/ Admit \/ TunnelMoves \/ HelperRestarts \/ RightChanges \/ UNCHANGED vars
  PROVE  TypeOK'
<1>1. CASE ExecuteStatus
  <2>1. [kind |-> "Status", id |-> conn.id] \in Commands
    BY IdsAre DEF TypeOK, Commands
  <2>2. sent' \in [Sessions -> Seq(Commands)]
    BY <1>1, <2>1, SendAppends DEF ExecuteStatus
  <2> QED
    BY <1>1, <2>2 DEF TypeOK, ExecuteStatus, guard
<1>2. CASE Admit
  <2>1. opened' \in 0..MaxSessions /\ session' = opened' /\ last_sequence' = 0 /\ 0 \in 0..MaxSequence
    BY <1>2, Bounds DEF TypeOK, Admit
  <2>2. accepted' \in Seq(Commands)
    BY <1>2 DEF Admit
  <2> QED
    BY <1>2, <2>1, <2>2 DEF TypeOK, Admit, client
<1>3. CASE TunnelMoves
  <2>1. tunnel \in [at : Observables, id : 0..ids]
    BY DEF TypeOK
  <2>2. PICK at \in Observables : tunnel' = [tunnel EXCEPT !.at = at]
    BY <1>3 DEF TunnelMoves, Observables
  <2>3. tunnel' \in [at : Observables, id : 0..ids]
    BY <2>1, <2>2
  <2> QED
    BY <1>3, <2>3 DEF TypeOK, TunnelMoves, client, guard
<1>4. CASE HelperRestarts
  <2>1. Down \in [at : Observables, id : 0..ids] /\ 0 \in 0..MaxSequence
    BY Bounds, IdsAre DEF Down, Observables
  <2>2. accepted' \in Seq(Commands)
    BY <1>4 DEF HelperRestarts
  <2> QED
    BY <1>4, <2>1, <2>2 DEF TypeOK, HelperRestarts, client
<1>5. CASE RightChanges
  BY <1>5 DEF TypeOK, RightChanges, client, guard
<1>6. CASE UNCHANGED vars
  BY <1>6 DEF TypeOK, vars, client, guard
<1> QED
  BY <1>1, <1>2, <1>3, <1>4, <1>5, <1>6

-----------------------------------------------------------------------------
\* What sending a command does to what was sent.

Sound == TypeOK /\ Short /\ SentIds /\ Unopened

LEMMA Lengths ==
  ASSUME TypeOK, NEW s \in Sessions
  PROVE  /\ sent[s] \in Seq(Commands) /\ DOMAIN sent[s] = 1..Len(sent[s])
         /\ Len(sent[s]) \in Nat /\ opened \in Nat /\ ids \in Nat /\ last_sequence \in Nat
         /\ MaxSequence \in Nat
BY Bounds DEF TypeOK, Ids

\* A position that was filled keeps its command; a new one is the last of the session in use.
LEMMA SendAt ==
  ASSUME Sound, NEW c \in Commands, Send(c), NEW s \in Sessions, NEW p \in DOMAIN sent'[s]
  PROVE  \/ p \in DOMAIN sent[s] /\ sent'[s][p] = sent[s][p]
         \/ /\ s = opened /\ p = Len(sent[s]) + 1 /\ sent'[s][p] = c
            /\ sent'[s] = Append(sent[s], c) /\ \A n \in DOMAIN sent'[s] : n <= p
<1>1. sent'[s] = sent[s] \/ (s = opened /\ sent'[s] = Append(sent[s], c))
  BY SendAppends DEF Sound
<1>2. sent[s] \in Seq(Commands)
  BY Lengths DEF Sound
<1>3. CASE sent'[s] = sent[s]
  BY <1>3
<1>4. CASE s = opened /\ sent'[s] = Append(sent[s], c)
  BY <1>2, <1>4
<1> QED
  BY <1>1, <1>3, <1>4

LEMMA SendShort ==
  ASSUME Sound, NEW c \in Commands, Send(c)
  PROVE  Short'
<1>1. SUFFICES ASSUME NEW s \in Sessions PROVE Len(sent'[s]) <= MaxSequence
  BY DEF Short
<1>2. Len(sent[s]) \in Nat /\ Len(sent[s]) <= MaxSequence /\ MaxSequence \in Nat /\ sent[s] \in Seq(Commands)
  BY Lengths DEF Sound, Short
<1>3. CASE sent' = sent
  BY <1>2, <1>3
<1>4. CASE Len(sent[opened]) # MaxSequence /\ sent' = [sent EXCEPT ![opened] = Append(@, c)]
  <2>1. CASE s = opened
    <3>1. sent'[s] = Append(sent[s], c)
      BY <1>4, <2>1 DEF Sound, TypeOK
    <3> QED
      BY <1>2, <1>4, <2>1, <3>1
  <2>2. CASE s # opened
    BY <1>2, <1>4, <2>2 DEF Sound, TypeOK
  <2> QED
    BY <2>1, <2>2
<1> QED
  BY <1>3, <1>4 DEF Send

LEMMA SendUnopened ==
  ASSUME Sound, NEW c \in Commands, Send(c), opened' = opened
  PROVE  Unopened'
<1>1. SUFFICES ASSUME NEW s \in Sessions, s > opened PROVE sent'[s] = <<>>
  BY DEF Unopened
<1>2. s # opened
  BY <1>1, Lengths DEF Sound, Sessions
<1> QED
  BY <1>1, <1>2, SendAppends DEF Sound, Unopened

LEMMA SendIds ==
  ASSUME Sound, NEW c \in Commands, Send(c), ids' \in Nat, ids <= ids', c.id \in 0..ids'
  PROVE  SentIds'
<1>1. SUFFICES ASSUME NEW s \in Sessions, NEW p \in DOMAIN sent'[s] PROVE sent'[s][p].id \in 0..ids'
  BY DEF SentIds
<1>2. CASE p \in DOMAIN sent[s] /\ sent'[s][p] = sent[s][p]
  <2>1. sent[s][p].id \in 0..ids /\ ids \in Nat
    BY <1>2, Lengths DEF Sound, SentIds
  <2> QED
    BY <1>2, <2>1
<1>3. CASE sent'[s][p] = c
  BY <1>3
<1> QED
  BY <1>2, <1>3, SendAt

LEMMA SendAwaits ==
  ASSUME Sound, NEW c \in Commands, Send(c), UNCHANGED guard,
         NEW p \in 1..MaxSequence, Awaits(p)'
  PROVE  (Awaits(p) /\ sent'[session][p] = sent[session][p]) \/ sent'[session][p] = c
<1>1. session \in Sessions /\ session' = session /\ last_sequence' = last_sequence
  BY Bounds DEF Sound, TypeOK, Awaits, guard, Sessions
<1>2. p \in DOMAIN sent'[session]
  BY <1>1 DEF Awaits
<1> QED
  BY <1>1, <1>2, SendAt DEF Awaits

\* A command that prepares no tunnel leaves things quiet; one that is no operation
\* leaves them settled.
LEMMA SendQuiet ==
  ASSUME Sound, NEW c \in Commands, Send(c), UNCHANGED <<guard, tunnel>>,
         Quiet, c.kind # "PrepareTunnel"
  PROVE  Quiet'
<1>1. ASSUME NEW p \in 1..MaxSequence, Awaits(p)' PROVE sent'[session][p].kind # "PrepareTunnel"
  BY <1>1, SendAwaits DEF Quiet
<1>2. session' = session /\ tunnel' = tunnel
  BY DEF guard
<1> QED
  BY <1>1, <1>2 DEF Quiet

-----------------------------------------------------------------------------
\* The client's steps.

\* Nothing was said yet under an id that was not used.
LEMMA NothingSaid ==
  ASSUME TypeOK, NEW i, i = ids + 1
  PROVE  \A r \in replies : r.id # i
BY Bounds DEF TypeOK, Ids

LEMMA ExecuteStep ==
  ASSUME IInv, NEW kind \in Operations, Execute(kind)
  PROVE  IInv'
<1> DEFINE c == [kind |-> kind, id |-> ids + 1]
<1>1. ids \in Nat /\ ids' = ids + 1 /\ ids' \in Ids
  BY Bounds DEF IInv, TypeOK, Execute, Ids
<1>2. Sound /\ c \in Commands /\ Send(c)
  BY <1>1 DEF IInv, Sound, Commands, Execute
<1>3. UNCHANGED <<guard, tunnel, replies>> /\ opened' = opened
  BY DEF Execute, guard
<1>4. conn' = [at |-> Entered(kind), id |-> ids + 1]
  BY <1>1 DEF Execute
<1>5. TypeOK'
  BY ClientTyped DEF IInv
<1> HIDE DEF c
<1>6. Short' /\ Unopened'
  BY <1>2, <1>3, SendShort, SendUnopened
<1>7. SentIds'
  <2>1. c.id \in 0..ids'
    BY <1>1 DEF c
  <2> QED
    BY <1>1, <1>2, <2>1, SendIds
<1>8. OperationsFirst'
  <2>1. SUFFICES ASSUME NEW s \in Sessions, NEW p \in DOMAIN sent'[s], NEW n \in DOMAIN sent'[s],
                        sent'[s][n].id = ids + 1
                 PROVE  p <= n
    BY <1>4 DEF OperationsFirst
  <2>2. CASE n \in DOMAIN sent[s] /\ sent'[s][n] = sent[s][n]
    <3>1. sent[s][n].id \in 0..ids
      BY <2>2, <1>2 DEF Sound, SentIds
    <3> QED
      BY <2>1, <2>2, <3>1, <1>1
  <2> QED
    BY <2>1, <2>2, <1>2, SendAt
<1>9. ~Said("Idle")' /\ ~Said("Failed")' /\ ~Said("Connected")'
  BY <1>3, <1>4, NothingSaid DEF Said, IInv
<1>10. conn'.at \in Active /\ conn'.at # "Connected"
  BY <1>4 DEF Entered, Active, Operations
<1>11. Connects' => Own'
  <2>1. SUFFICES ASSUME kind = "PrepareTunnel" PROVE Own'
    BY <1>4 DEF Connects, Entered, Operations
  <2>2. Quiet
    BY <2>1 DEF IInv, Execute, Allowed, Active
  <2>3. ASSUME NEW p \in 1..MaxSequence, Awaits(p)', sent'[session][p].kind = "PrepareTunnel"
        PROVE  sent'[session][p].id = ids + 1
    BY <2>2, <2>3, <1>2, <1>3, SendAwaits DEF Quiet, c
  <2> QED
    BY <2>2, <2>3, <1>3, <1>4 DEF Own, Quiet, guard
<1> QED
  BY <1>5, <1>6, <1>7, <1>8, <1>9, <1>10, <1>11 DEF IInv

LEMMA StatusStep ==
  ASSUME IInv, ExecuteStatus
  PROVE  IInv'
<1> DEFINE c == [kind |-> "Status", id |-> conn.id]
<1>1. ids \in Nat /\ ids' = ids /\ conn.id \in 0..ids /\ 0..ids \subseteq Ids
  BY IdsAre DEF IInv, TypeOK, ExecuteStatus
<1>2. Sound /\ c \in Commands /\ Send(c)
  BY <1>1 DEF IInv, Sound, Commands, ExecuteStatus
<1>3. UNCHANGED <<guard, tunnel, replies, conn>> /\ opened' = opened /\ session' = session
  BY DEF ExecuteStatus, guard
<1>4. TypeOK'
  BY OtherTyped DEF IInv
<1>5. c.kind = "Status" /\ c.kind \notin Operations /\ c.id \in 0..ids'
  BY <1>1 DEF Operations
<1> HIDE DEF c
<1>6. Short' /\ Unopened' /\ SentIds'
  BY <1>1, <1>2, <1>3, <1>5, SendShort, SendUnopened, SendIds
<1>7. OperationsFirst'
  <2>1. SUFFICES ASSUME NEW s \in Sessions, NEW p \in DOMAIN sent'[s], NEW n \in DOMAIN sent'[s],
                        conn.at \in Active, sent'[s][p].kind \in Operations, sent'[s][n].id = conn.id
                 PROVE  p <= n
    BY <1>3 DEF OperationsFirst
  <2>2. p \in DOMAIN sent[s] /\ sent'[s][p] = sent[s][p]
    BY <2>1, <1>2, <1>5, SendAt
  <2>3. CASE n \in DOMAIN sent[s] /\ sent'[s][n] = sent[s][n]
    BY <2>1, <2>2, <2>3 DEF IInv, OperationsFirst
  <2> QED
    BY <2>3, <1>2, SendAt
<1>8. Quiet => Quiet'
  BY <1>2, <1>3, <1>5, SendQuiet
<1>9. \A p \in 1..MaxSequence : Awaits(p)' /\ sent'[session][p].kind \in Operations =>
        Awaits(p) /\ sent'[session][p] = sent[session][p]
  BY <1>2, <1>3, <1>5, SendAwaits
<1>10. Own => Own'
  BY <1>3, <1>9 DEF Own, Operations
<1>11. Settled => Settled'
  BY <1>3, <1>9 DEF Settled
<1>12. Connects' = Connects /\ \A at \in {"Idle", "Failed", "Connected"} : Said(at)' = Said(at)
  BY <1>3 DEF Connects, Said
<1> QED
  BY <1>3, <1>4, <1>6, <1>7, <1>8, <1>10, <1>11, <1>12 DEF IInv

LEMMA ObserveStep ==
  ASSUME IInv, NEW r \in replies, Observe(r)
  PROVE  IInv'
<1>1. UNCHANGED <<ids, sent, guard, tunnel, replies>> /\ UNCHANGED <<opened, session, last_sequence>>
  BY DEF Observe, guard
<1>2. TypeOK'
  BY ObserveTyped DEF IInv
<1>3. Short' /\ SentIds' /\ Unopened' /\ (Quiet => Quiet')
  BY <1>1 DEF IInv, Short, SentIds, Unopened, Quiet, Awaits
<1>4. Said(r.at) /\ conn.at \in Active
  BY DEF Said, Observe
<1>5. CASE conn' = conn
  BY <1>1, <1>2, <1>3, <1>5 DEF IInv, OperationsFirst, Own, Settled, Connects, Said, Awaits
<1>6. CASE conn' = [conn EXCEPT !.at = "Connected"] /\ conn.at = "Connecting" /\ r.at = "Connected"
  <2>1. conn'.at = "Connected" /\ conn'.id = conn.id
    BY <1>6 DEF IInv, TypeOK
  <2>2. Own /\ Settled
    BY <1>4, <1>6 DEF IInv, Connects
  <2>3. Own' /\ Settled'
    BY <1>1, <2>1, <2>2 DEF Own, Settled, Awaits
  <2>4. OperationsFirst'
    BY <1>1, <1>4, <2>1 DEF IInv, OperationsFirst
  <2>5. (Said("Idle") \/ Said("Failed"))' => Quiet'
    BY <1>1, <1>3, <1>4, <2>1 DEF IInv, Said
  <2> QED
    BY <1>2, <1>3, <2>1, <2>3, <2>4, <2>5 DEF IInv, Active
<1>7. CASE conn' \in {[at |-> "Disconnected", id |-> 0], [at |-> "Failed", id |-> 0]} /\ r.at \in {"Idle", "Failed"}
  <2>1. Quiet'
    BY <1>3, <1>4, <1>7 DEF IInv
  <2>2. conn'.at \notin Active /\ ~Connects'
    BY <1>7 DEF Active, Connects
  <2>3. conn'.at \notin {"Connecting", "Connected"}
    BY <1>7
  <2> QED
    BY <1>2, <1>3, <2>1, <2>2, <2>3 DEF IInv, OperationsFirst
<1> QED
  BY <1>5, <1>6, <1>7 DEF Observe

-----------------------------------------------------------------------------
\* The helper's steps.

\* What an accepted command makes of the tunnel.
LEMMA HandleTunnel ==
  ASSUME NEW c \in Commands, Handle(c)
  PROVE  /\ c.kind = "PrepareTunnel" => tunnel' = [at |-> "Preparing", id |-> c.id]
         /\ c.kind \in {"Disconnect", "Recover"} =>
              tunnel'.at \in {"Idle", "Disconnecting", "Recovering"} /\ tunnel'.id = c.id
         /\ c.kind = "Status" => tunnel' = tunnel
         /\ c.kind \in {"PrepareTunnel", "Disconnect", "Recover", "Status"}
<1>1. c.kind \in {"PrepareTunnel", "Disconnect", "Recover", "Status"}
  BY DEF Commands, Operations
<1>2. CASE c.kind = "PrepareTunnel"
  BY <1>2 DEF Handle
<1>3. CASE c.kind = "Disconnect"
  BY <1>3 DEF Handle
<1>4. CASE c.kind = "Recover"
  BY <1>4 DEF Handle
<1>5. CASE c.kind = "Status"
  BY <1>5 DEF Handle
<1> QED
  BY <1>1, <1>2, <1>3, <1>4, <1>5

LEMMA AcceptStep ==
  ASSUME IInv, NEW s \in Sessions, NEW n \in DOMAIN sent[s], AcceptCommand(s, n)
  PROVE  IInv'
<1> DEFINE c == sent[s][n]
<1>1. /\ UNCHANGED <<conn, ids, sent, opened, session>> /\ s = session /\ last_sequence' = n
      /\ n = last_sequence + 1 /\ Handle(c)
  BY DEF AcceptCommand, Expected, client
<1>2. session \in Sessions /\ session # 0 /\ n \in Nat /\ n \in 1..MaxSequence /\ last_sequence \in Nat
  BY <1>1, Lengths DEF IInv, Sessions, Short
<1>3. c \in Commands
  BY Lengths DEF IInv
<1>4. TypeOK'
  BY AcceptTyped DEF IInv
<1>5. Short' /\ SentIds' /\ Unopened' /\ OperationsFirst'
  BY <1>1 DEF IInv, Short, SentIds, Unopened, OperationsFirst
<1>6. Awaits(n) /\ \A p \in 1..MaxSequence : Awaits(p)' => Awaits(p) /\ p > n
  BY <1>1, <1>2 DEF Awaits
<1>7. replies' = replies \cup {[at |-> tunnel'.at, id |-> c.id]}
  BY <1>1 DEF Handle
<1> HIDE DEF c
<1>8. \A at \in Observables : Said(at)' => Said(at) \/ (tunnel'.at = at /\ c.id = conn.id)
  BY <1>1, <1>7 DEF Said
<1>9. Quiet => Quiet'
  <2>1. SUFFICES ASSUME Quiet PROVE Quiet'
    OBVIOUS
  <2>2. c.kind # "PrepareTunnel"
    BY <1>1, <1>2, <1>6, <2>1 DEF Quiet, c
  <2>3. tunnel'.at \notin {"Preparing", "Connected"}
    BY <1>1, <1>3, <2>1, <2>2, HandleTunnel DEF Quiet
  <2> QED
    BY <1>1, <1>6, <2>1, <2>3 DEF Quiet
<1>10. ASSUME conn.at \in Active, c.id = conn.id
       PROVE  \A p \in 1..MaxSequence : Awaits(p)' => sent'[session][p].kind \notin Operations
  <2>1. SUFFICES ASSUME NEW p \in 1..MaxSequence, Awaits(p)', sent[session][p].kind \in Operations
                 PROVE  FALSE
    BY <1>1
  <2>2. p \in DOMAIN sent[s] /\ n \in DOMAIN sent[s] /\ sent[s][n].id = conn.id
    BY <1>1, <1>6, <1>10, <2>1 DEF Awaits, c
  <2>3. p <= n
    BY <1>1, <1>10, <2>1, <2>2 DEF IInv, OperationsFirst
  <2> QED
    BY <1>2, <1>6, <2>1, <2>3
<1>11. ASSUME conn.at \in Active, Said("Idle")' \/ Said("Failed")' PROVE Quiet'
  <2>1. CASE Said("Idle") \/ Said("Failed")
    BY <1>9, <1>11, <2>1 DEF IInv
  <2>2. CASE tunnel'.at \in {"Idle", "Failed"} /\ c.id = conn.id
    BY <1>1, <1>10, <1>11, <2>2 DEF Quiet, Operations
  <2> QED
    BY <1>8, <1>11, <2>1, <2>2 DEF Observables
<1>12. ASSUME Connects PROVE Own'
  <2>1. Own
    BY <1>12 DEF IInv
  <2>2. c.kind = "PrepareTunnel" => c.id = conn.id
    BY <1>1, <1>2, <1>6, <2>1 DEF Own, c
  <2>3. tunnel'.at \in {"Preparing", "Connected"} => tunnel'.id = conn.id
    BY <1>1, <1>3, <2>1, <2>2, HandleTunnel DEF Own
  <2> QED
    BY <1>1, <1>6, <2>1, <2>3 DEF Own
<1>13. Settled => Settled'
  <2>1. SUFFICES ASSUME Settled PROVE Settled'
    OBVIOUS
  <2>2. c.kind \notin Operations
    BY <1>1, <1>2, <1>6, <2>1 DEF Settled, c
  <2>3. tunnel' = tunnel
    BY <1>1, <1>3, <2>2, HandleTunnel DEF Operations
  <2> QED
    BY <1>1, <1>6, <2>1, <2>3 DEF Settled
<1>14. ASSUME conn.at = "Connected" \/ (conn.at = "Connecting" /\ Said("Connected")') PROVE Settled'
  <2>1. CASE conn.at = "Connected" \/ Said("Connected")
    BY <1>13, <1>14, <2>1 DEF IInv
  <2>2. CASE conn.at = "Connecting" /\ tunnel'.at = "Connected" /\ c.id = conn.id
    <3>1. Connects /\ conn.at \in Active
      BY <2>2 DEF Connects, Active
    <3>2. tunnel'.id = conn.id
      BY <1>1, <1>12, <2>2, <3>1 DEF Own
    <3> QED
      BY <1>1, <1>10, <2>2, <3>1, <3>2 DEF Settled
  <2> QED
    BY <1>8, <1>14, <2>1, <2>2 DEF Observables
<1>15. conn.at \notin Active => Quiet'
  BY <1>9 DEF IInv
<1>16. conn' = conn /\ Connects' = Connects
  BY <1>1 DEF Connects
<1> QED
  BY <1>4, <1>5, <1>11, <1>12, <1>14, <1>15, <1>16 DEF IInv

\* A new session has nothing to accept yet.
LEMMA AdmitStep ==
  ASSUME IInv, Admit
  PROVE  IInv'
<1>1. UNCHANGED <<conn, ids, sent, tunnel, replies>> /\ opened' = opened + 1 /\ session' = opened'
  BY DEF Admit, client
<1>2. TypeOK'
  BY OtherTyped DEF IInv
<1>3. opened \in Nat /\ opened' \in Sessions /\ sent[opened'] = <<>>
  BY <1>1, Bounds DEF IInv, TypeOK, Admit, Sessions, Unopened
<1>4. \A p \in 1..MaxSequence : ~Awaits(p)'
  BY <1>1, <1>3 DEF Awaits
<1>5. Short' /\ SentIds' /\ OperationsFirst'
  BY <1>1 DEF IInv, Short, SentIds, OperationsFirst
<1>6. Unopened'
  <2>1. \A s \in Sessions : s > opened' => s > opened
    BY <1>1, <1>3 DEF Sessions
  <2> QED
    BY <1>1, <2>1 DEF IInv, Unopened
<1>7. (Quiet => Quiet') /\ (Own => Own') /\ (Settled => Settled')
  BY <1>1, <1>4 DEF Quiet, Own, Settled
<1>8. Connects' = Connects /\ \A at \in {"Idle", "Failed", "Connected"} : Said(at)' = Said(at)
  BY <1>1 DEF Connects, Said
<1> QED
  BY <1>1, <1>2, <1>5, <1>6, <1>7, <1>8 DEF IInv

LEMMA TunnelStep ==
  ASSUME IInv, TunnelMoves
  PROVE  IInv'
<1>1. UNCHANGED <<conn, ids, sent, opened, session, last_sequence, replies>>
  BY DEF TunnelMoves, client, guard
<1>2. TypeOK'
  BY OtherTyped DEF IInv
<1>3. Short' /\ SentIds' /\ OperationsFirst' /\ Unopened'
  BY <1>1 DEF IInv, Short, SentIds, OperationsFirst, Unopened
<1>4. PICK at \in CASE tunnel.at = "Preparing" -> {"Connected", "Failed"}
                    [] tunnel.at = "Connected" -> {"Failed"}
                    [] tunnel.at \in {"Disconnecting", "Recovering"} -> {"Idle", "Failed"}
                    [] OTHER -> {} : tunnel' = [tunnel EXCEPT !.at = at]
  BY DEF TunnelMoves
<1>5. tunnel'.at = at /\ tunnel'.id = tunnel.id
  BY <1>4 DEF IInv, TypeOK
<1>6. \A p \in 1..MaxSequence : Awaits(p)' = Awaits(p)
  BY <1>1 DEF Awaits
<1>7. Quiet => Quiet'
  BY <1>1, <1>4, <1>5, <1>6 DEF Quiet
<1>8. Own => Own'
  BY <1>1, <1>4, <1>5, <1>6 DEF Own
<1>9. Settled => Settled'
  BY <1>1, <1>4, <1>5, <1>6 DEF Settled, Down
<1>10. Connects' = Connects /\ \A w \in {"Idle", "Failed", "Connected"} : Said(w)' = Said(w)
  BY <1>1 DEF Connects, Said
<1> QED
  BY <1>1, <1>2, <1>3, <1>7, <1>8, <1>9, <1>10 DEF IInv

LEMMA RestartStep ==
  ASSUME IInv, HelperRestarts
  PROVE  IInv'
<1>1. UNCHANGED <<conn, ids, sent, opened, replies>> /\ session' = 0 /\ tunnel' = Down
  BY DEF HelperRestarts, client
<1>2. TypeOK'
  BY OtherTyped DEF IInv
<1>3. Short' /\ SentIds' /\ OperationsFirst' /\ Unopened'
  BY <1>1 DEF IInv, Short, SentIds, OperationsFirst, Unopened
<1>4. Quiet' /\ Own' /\ Settled'
  BY <1>1 DEF Quiet, Own, Settled, Awaits, Down
<1> QED
  BY <1>2, <1>3, <1>4 DEF IInv

LEMMA IdleStep ==
  ASSUME IInv, RightChanges \/ UNCHANGED vars
  PROVE  IInv'
<1>1. UNCHANGED <<conn, ids, sent, opened, session, last_sequence, tunnel, replies>>
  BY DEF RightChanges, vars, client, guard
<1>2. TypeOK'
  BY OtherTyped DEF IInv
<1>3. Short' /\ SentIds' /\ OperationsFirst' /\ Unopened'
  BY <1>1 DEF IInv, Short, SentIds, OperationsFirst, Unopened
<1>4. (Quiet => Quiet') /\ (Own => Own') /\ (Settled => Settled')
  BY <1>1 DEF Quiet, Own, Settled, Awaits
<1>5. Connects' = Connects /\ \A at \in {"Idle", "Failed", "Connected"} : Said(at)' = Said(at)
  BY <1>1 DEF Connects, Said
<1> QED
  BY <1>1, <1>2, <1>3, <1>4, <1>5 DEF IInv

-----------------------------------------------------------------------------
\* The theorems.

LEMMA Starts == Init => IInv
<1>1. SUFFICES ASSUME Init PROVE IInv
  OBVIOUS
<1>2. TypeOK
  BY <1>1, Bounds DEF Init, TypeOK, Ids, Down, Observables, Active
<1>3. Short /\ SentIds /\ Unopened /\ OperationsFirst
  BY <1>1, Bounds DEF Init, Short, SentIds, Unopened, OperationsFirst
<1>4. Quiet /\ conn.at \notin Active /\ ~Connects /\ conn.at \notin {"Connecting", "Connected"}
  BY <1>1 DEF Init, Quiet, Awaits, Down, Connects, Active
<1> QED
  BY <1>2, <1>3, <1>4 DEF IInv

LEMMA Inductive == IInv /\ [Next]_vars => IInv'
<1>1. SUFFICES ASSUME IInv, [Next]_vars PROVE IInv'
  OBVIOUS
<1>2. ASSUME NEW kind \in Operations, Execute(kind) PROVE IInv'
  BY <1>1, <1>2, ExecuteStep
<1>3. ASSUME NEW r \in replies, Observe(r) PROVE IInv'
  BY <1>1, <1>3, ObserveStep
<1>4. ASSUME NEW s \in Sessions, NEW n \in DOMAIN sent[s], AcceptCommand(s, n) PROVE IInv'
  BY <1>1, <1>4, AcceptStep
<1>5. CASE ExecuteStatus
  BY <1>1, <1>5, StatusStep
<1>6. CASE Admit
  BY <1>1, <1>6, AdmitStep
<1>7. CASE TunnelMoves
  BY <1>1, <1>7, TunnelStep
<1>8. CASE HelperRestarts
  BY <1>1, <1>8, RestartStep
<1>9. CASE RightChanges \/ UNCHANGED vars
  BY <1>1, <1>9, IdleStep
<1> QED
  BY <1>1, <1>2, <1>3, <1>4, <1>5, <1>6, <1>7, <1>8, <1>9 DEF Next, Deliver

\* Type correctness (connection.rs, platform_contract.rs): the client has an id exactly
\* while an operation is in force, and a helper's session is the last one admitted.
THEOREM TypeCorrect == Spec => []TypeOK
<1>1. IInv => TypeOK
  BY DEF IInv
<1> QED
  BY <1>1, Starts, Inductive, PTL DEF Spec

\* A client that says Disconnected has no tunnel up or coming up, whatever the transport
\* repeats, delays or loses (connection.rs, next_state_for_observed).
THEOREM DisconnectedHolds == Spec => []DisconnectedMeansDown
<1>1. IInv => DisconnectedMeansDown
  BY DEF IInv, Quiet, DisconnectedMeansDown, Active
<1> QED
  BY <1>1, Starts, Inductive, PTL DEF Spec

\* A client that says Connected means the tunnel the helper brought up under its id.
THEOREM ConnectedHolds == Spec => []ConnectedIsThis
<1>1. IInv => ConnectedIsThis
  BY DEF IInv, Settled, ConnectedIsThis
<1> QED
  BY <1>1, Starts, Inductive, PTL DEF Spec

\* Commands of a session are accepted once, in order and without a gap
\* (platform_contract.rs, HelperRuntimeReplayGuard::accept_command).
THEOREM OrderHolds == Spec => []AcceptedInOrder
<1>1. Init => AcceptedInOrder
  BY DEF Init, AcceptedInOrder
<1>2. ASSUME TypeOK, Short, SentIds, Unopened, AcceptedInOrder, [Next]_vars PROVE AcceptedInOrder'
  <2>1. accepted \in Seq(Commands) /\ last_sequence \in Nat
    BY <1>2, Bounds DEF TypeOK
  <2>2. ASSUME NEW c \in Commands, Send(c), UNCHANGED guard PROVE AcceptedInOrder'
    <3>1. UNCHANGED <<session, last_sequence, accepted>>
      BY <2>2 DEF guard
    <3>2. SUFFICES ASSUME session # 0
                   PROVE  /\ Len(accepted) <= Len(sent'[session])
                          /\ \A n \in DOMAIN accepted : accepted[n] = sent'[session][n]
      BY <1>2, <3>1 DEF AcceptedInOrder
    <3>3. session \in Sessions
      BY <1>2, <3>2, Bounds DEF TypeOK, Sessions
    <3>4. sent'[session] = sent[session] \/ sent'[session] = Append(sent[session], c)
      BY <1>2, <2>2, <3>3, SendAppends
    <3>5. sent[session] \in Seq(Commands) /\ Len(accepted) <= Len(sent[session])
          /\ \A n \in DOMAIN accepted : accepted[n] = sent[session][n]
      BY <1>2, <3>2, <3>3 DEF AcceptedInOrder, TypeOK
    <3>6. CASE sent'[session] = sent[session]
      BY <3>5, <3>6
    <3>7. CASE sent'[session] = Append(sent[session], c)
      BY <2>1, <3>5, <3>7
    <3> QED
      BY <3>4, <3>6, <3>7
  <2>3. ASSUME NEW kind \in Operations, Execute(kind) PROVE AcceptedInOrder'
    <3>1. ids' \in Ids /\ Send([kind |-> kind, id |-> ids']) /\ UNCHANGED guard
      BY <1>2, <2>3, Bounds DEF Execute, TypeOK, Ids, guard
    <3> QED
      BY <2>2, <3>1 DEF Commands
  <2>4. CASE ExecuteStatus
    <3>1. [kind |-> "Status", id |-> conn.id] \in Commands
      BY <1>2, IdsAre DEF TypeOK, Commands
    <3> QED
      BY <2>2, <2>4, <3>1 DEF ExecuteStatus, guard
  <2>5. ASSUME NEW s \in Sessions, NEW n \in DOMAIN sent[s], AcceptCommand(s, n) PROVE AcceptedInOrder'
    <3>1. /\ accepted' = Append(accepted, sent[s][n]) /\ last_sequence' = n /\ s = session
          /\ n = last_sequence + 1 /\ UNCHANGED <<session, sent>>
      BY <2>5 DEF AcceptCommand, Expected, client
    <3>2. sent[s] \in Seq(Commands) /\ n \in 1..Len(sent[s]) /\ sent[s][n] \in Commands
      BY <1>2 DEF TypeOK
    <3>3. session # 0 /\ Len(accepted) = last_sequence
      BY <1>2, <3>1 DEF AcceptedInOrder, Sessions
    <3>4. Len(accepted') = n /\ n <= Len(sent[s])
      BY <2>1, <3>1, <3>2, <3>3
    <3>5. ASSUME NEW m \in DOMAIN accepted' PROVE accepted'[m] = sent[session][m]
      <4>1. CASE m = n
        BY <2>1, <3>1, <3>2, <3>3, <4>1
      <4>2. CASE m # n
        <5>1. m \in DOMAIN accepted /\ accepted'[m] = accepted[m]
          BY <2>1, <3>1, <3>2, <3>3, <3>5, <4>2
        <5> QED
          BY <1>2, <3>3, <5>1 DEF AcceptedInOrder
      <4> QED
        BY <4>1, <4>2
    <3> QED
      BY <3>1, <3>4, <3>5 DEF AcceptedInOrder
  <2>6. CASE Admit \/ HelperRestarts
    <3>1. accepted' = <<>> /\ last_sequence' = 0 /\ UNCHANGED sent /\ session' \in {0, opened + 1}
      BY <2>6 DEF Admit, HelperRestarts, client
    <3>2. session' # 0 => Len(sent[session']) \in Nat
      BY <1>2, <2>6, <3>1, Bounds DEF TypeOK, Admit, HelperRestarts, Sessions
    <3> QED
      BY <3>1, <3>2 DEF AcceptedInOrder
  <2>7. ASSUME UNCHANGED <<sent, guard>> PROVE AcceptedInOrder'
    BY <1>2, <2>7 DEF AcceptedInOrder, guard
  <2>8. ASSUME NEW r \in replies, Observe(r) PROVE AcceptedInOrder'
    BY <2>7, <2>8 DEF Observe
  <2>9. CASE TunnelMoves \/ RightChanges \/ UNCHANGED vars
    BY <2>7, <2>9 DEF TunnelMoves, RightChanges, vars, client
  <2> QED
    BY <1>2, <2>3, <2>4, <2>5, <2>6, <2>8, <2>9 DEF Next, Deliver
<1>3. IInv => TypeOK /\ Short /\ SentIds /\ Unopened
  BY DEF IInv
<1> QED
  BY <1>1, <1>2, <1>3, Starts, Inductive, PTL DEF Spec
=============================================================================
