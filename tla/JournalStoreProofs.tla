------------------------- MODULE JournalStoreProofs -------------------------
(***************************************************************************)
(* The properties of JournalStore, proved for any number of processes,     *)
(* transactions, names and journals.                                       *)
(*                                                                         *)
(* NothingLost alone is not inductive: a quarantine may replace a file     *)
(* that has the chosen name by now, and a power loss brings back an        *)
(* earlier state.  What saves the journal is that whatever stands under    *)
(* the journal's own name is newer than all that is in quarantine, and     *)
(* that nothing is accepted where a damaged file could come back           *)
(* (StoreInv).  A writer between its rename and its sync has its journal   *)
(* in the directory (WriterInv); and a loader knows of every journal of    *)
(* another transaction but those it cannot have seen (LoaderInv).         *)
(***************************************************************************)
EXTENDS JournalStore, WellFoundedInduction, TLAPS

SlotInv(slot, t) ==
  /\ slot.json # None => slot.json <= puts
  /\ \A n \in Suffixes : slot.invalid[n] # None => slot.invalid[n] <= puts
  /\ slot.json \notin {0, None} =>
       \A n \in Suffixes : slot.invalid[n] # None => slot.invalid[n] <= slot.json
  /\ slot.json = 0 => accepted[t] = 0
  /\ accepted[t] > 0 => Holds(slot, accepted[t])

StoreInv == \A t \in Ids :
  accepted[t] <= puts /\ \A slot \in past[t] \cup {dir[t]} : SlotInv(slot, t)

WriterInv(p) == mine[p] > 0 =>
  /\ pc[p] = "syncWrite" /\ mine[p] <= puts
  /\ dir[id[p]].json # 0 /\ Holds(dir[id[p]], mine[p])

Listed == {"read", "suffix", "quarantine", "syncLoad", "opened"}

LoaderInv(p) ==
  /\ pc[p] \in {"read", "suffix", "quarantine"} => todo[p] # {}
  /\ pc[p] = "syncLoad" => todo[p] = {}
  /\ pc[p] \in {"idle", "opened"} => todo[p] = {} /\ found[p] = {}
  /\ pc[p] \in Listed =>
       \A t \in Ids \ ({id[p]} \cup unseen[p]) : t \in todo[p] \cup found[p] \/ dir[t].json = None

IInv == TypeOK /\ StoreInv /\ \A p \in Procs : WriterInv(p) /\ LoaderInv(p)

-----------------------------------------------------------------------------
(* Numbers and slots                                                       *)

\* A set of numbers has a least one, which Min names.
LEMMA MinIsLeast ==
  ASSUME NEW S, S \subseteq Nat, S # {}
  PROVE  Min(S) \in S
  <1> DEFINE R == OpToRel(<, Nat)
  <1>1. \A m, n \in Nat : <<m, n>> \in R <=> m < n
    BY DEF OpToRel
  <1>2. IsWellFoundedOn(R, Nat)
    BY NatLessThanWellFounded
  <1> HIDE DEF R
  <1>3. PICK m \in S : \A n \in S : ~(<<n, m>> \in R)
    BY <1>2, WFMin
  <1>4. ASSUME NEW n \in S PROVE m =< n
    <2>1. n \in Nat /\ m \in Nat
      OBVIOUS
    <2>2. ~(n < m)
      BY <1>1, <1>3, <2>1
    <2> QED
      BY <2>1, <2>2
  <1> QED
    BY <1>4 DEF Min

\* The first id and the first suffix are among them.
LEMMA Firsts == Min(Ids) \in Ids /\ Min(Suffixes) \in Suffixes
  <1>1. Suffixes \subseteq Nat
    BY StoreAssumption
  <1> QED
    BY <1>1, MinIsLeast, StoreAssumption

\* A file of a slot is none, or a number.
LEMMA FileTypes ==
  /\ \A f \in Files : f # None => f \in Nat
  /\ None \in Files /\ 0 \in Files /\ \A n \in 0..MaxPuts : n \in Files
  /\ None # 0 /\ \A n \in Nat : n # None
  BY StoreAssumption DEF Files

\* A slot is a slot whatever file gets the journal's name or a quarantined one.
LEMMA SlotTypes ==
  ASSUME NEW slot \in Slots, NEW f \in Files, NEW n \in Suffixes
  PROVE  /\ [slot EXCEPT !.json = f] \in Slots
         /\ [json |-> None, invalid |-> [slot.invalid EXCEPT ![n] = f]] \in Slots
         /\ slot.json \in Files /\ \A m \in Suffixes : slot.invalid[m] \in Files
  BY FileTypes DEF Slots

\* A quarantine keeps what is promised: what it moves is newer than whatever it
\* replaces.
LEMMA QuarantineKeeps ==
  ASSUME TypeOK, NEW t \in Ids, NEW slot \in Slots, SlotInv(slot, t), slot.json # None,
         NEW n \in Suffixes
  PROVE  LET moved == [json |-> None, invalid |-> [slot.invalid EXCEPT ![n] = slot.json]] IN
         /\ moved \in Slots /\ SlotInv(moved, t)
         /\ slot.json # 0 => \A v \in 1..MaxPuts : Holds(slot, v) => Holds(moved, v)
  <1> DEFINE moved == [json |-> None, invalid |-> [slot.invalid EXCEPT ![n] = slot.json]]
  <1>1. slot.json \in Nat /\ slot.json \in Files /\ slot.invalid \in [Suffixes -> Files]
    BY FileTypes DEF Slots
  <1>2. moved \in Slots
    BY SlotTypes, <1>1
  <1>3. /\ moved.json = None
        /\ \A m \in Suffixes : moved.invalid[m] = IF m = n THEN slot.json ELSE slot.invalid[m]
    BY <1>1
  <1> HIDE DEF moved
  <1>4. ASSUME slot.json # 0, NEW v \in 1..MaxPuts, Holds(slot, v) PROVE Holds(moved, v)
    <2>1. PICK f \in {slot.json} \cup {slot.invalid[m] : m \in Suffixes} : f # None /\ f >= v
      BY <1>4 DEF Holds
    <2>2. f \in Nat
      BY <1>1, <2>1, FileTypes
    <2>3. f <= slot.json
      BY <1>1, <1>4, <2>1, <2>2 DEF SlotInv
    <2>4. slot.json >= v /\ moved.invalid[n] = slot.json
      BY <1>1, <1>3, <2>1, <2>2, <2>3
    <2> QED
      BY <2>4 DEF Holds
  <1>5. SlotInv(moved, t)
    <2>1. accepted[t] > 0 => Holds(moved, accepted[t])
      <3>1. accepted[t] > 0 => slot.json # 0 /\ accepted[t] \in 1..MaxPuts /\ Holds(slot, accepted[t])
        BY StoreAssumption DEF SlotInv, TypeOK
      <3> QED
        BY <1>4, <3>1
    <2>2. \A m \in Suffixes : moved.invalid[m] # None => moved.invalid[m] <= puts
      BY <1>3 DEF SlotInv
    <2> QED
      BY <1>3, <2>1, <2>2, FileTypes DEF SlotInv
  <1> QED
    BY <1>2, <1>4, <1>5 DEF moved

-----------------------------------------------------------------------------
(* What a step leaves alone                                                *)

Same(q) == /\ pc'[q] = pc[q] /\ id'[q] = id[q]
           /\ todo'[q] = todo[q] /\ found'[q] = found[q]

\* The store is as sound as it was when no file changes; a sync only forgets.
LEMMA StoreFrame ==
  ASSUME TypeOK, StoreInv, dir' = dir, puts' = puts, accepted' = accepted, past' = past \/ Synced
  PROVE  StoreInv'
  <1> SUFFICES ASSUME NEW t \in Ids
               PROVE  /\ accepted[t] <= puts
                      /\ \A slot \in past'[t] \cup {dir[t]} : SlotInv(slot, t)'
    BY DEF StoreInv
  <1>1. past'[t] \subseteq past[t]
    BY DEF Synced
  <1>2. \A slot : SlotInv(slot, t) => SlotInv(slot, t)'
    BY DEF SlotInv
  <1> QED
    BY <1>1, <1>2 DEF StoreInv

\* It is when the files of one transaction change for sound ones.
LEMMA StoreChange ==
  ASSUME TypeOK, StoreInv, NEW t \in Ids, NEW slot \in Slots, NEW p, Change(t, slot, p),
         puts' \in Nat, puts <= puts', SlotInv(slot, t)',
         accepted' = accepted \/ accepted' = [accepted EXCEPT ![t] = 0]
  PROVE  StoreInv'
  <1> SUFFICES ASSUME NEW u \in Ids
               PROVE  /\ accepted'[u] <= puts'
                      /\ \A s \in past'[u] \cup {dir'[u]} : SlotInv(s, u)'
    BY DEF StoreInv
  <1>1. /\ accepted[u] \in Nat /\ puts \in Nat /\ accepted[u] <= puts
        /\ accepted'[u] \in {0, accepted[u]}
    BY StoreAssumption DEF TypeOK, StoreInv
  <1>2. /\ past'[u] \cup {dir'[u]} \subseteq past[u] \cup {dir[u], dir'[u]}
        /\ dir'[u] = IF u = t THEN slot ELSE dir[u]
    BY DEF Change, TypeOK
  <1>3. ASSUME NEW s \in past[u] \cup {dir[u]} PROVE SlotInv(s, u)'
    <2>1. s \in Slots
      BY <1>3 DEF TypeOK
    <2>2. s.json \in Files /\ \A n \in Suffixes : s.invalid[n] \in Files
      BY <2>1 DEF Slots
    <2>3. SlotInv(s, u)
      BY <1>3 DEF StoreInv
    <2> QED
      BY <1>1, <2>2, <2>3, FileTypes DEF SlotInv
  <1> QED
    BY <1>1, <1>2, <1>3

\* A process that does not move is where it was when no file changes.
LEMMA Frame ==
  ASSUME TypeOK, NEW q \in Procs, WriterInv(q), LoaderInv(q), Same(q),
         mine'[q] \in {0, mine[q]}, puts' = puts, dir' = dir, unseen'[q] = unseen[q]
  PROVE  WriterInv(q)' /\ LoaderInv(q)'
  BY DEF Same, WriterInv, LoaderInv, Listed, TypeOK

\* When files of t do, its loader is told, and its own journal must be kept.
LEMMA FrameChange ==
  ASSUME TypeOK, NEW q \in Procs, WriterInv(q), LoaderInv(q), Same(q),
         NEW t \in Ids, NEW slot \in Slots, NEW p, q # p, Change(t, slot, p),
         puts' \in Nat, puts <= puts',
         \/ mine'[q] = 0
         \/ /\ mine'[q] = mine[q]
            /\ mine[q] > 0 /\ id[q] = t => slot.json # 0 /\ Holds(slot, mine[q])
  PROVE  WriterInv(q)' /\ LoaderInv(q)'
  <1>0. \A u \in Ids : dir'[u] = IF u = t THEN slot ELSE dir[u]
    BY DEF Change, TypeOK
  <1>1. WriterInv(q)'
    <2> SUFFICES ASSUME mine'[q] > 0
                 PROVE  /\ pc'[q] = "syncWrite" /\ mine'[q] <= puts'
                        /\ dir'[id'[q]].json # 0 /\ Holds(dir'[id'[q]], mine'[q])
      BY DEF WriterInv, Holds
    <2>1. mine'[q] = mine[q] /\ mine[q] \in Nat /\ puts \in Nat /\ id[q] \in Ids
      BY StoreAssumption DEF TypeOK
    <2> QED
      BY <1>0, <2>1 DEF Same, WriterInv
  <1>2. LoaderInv(q)'
    <2>1. pc[q] \in Listed => unseen'[q] = unseen[q] \cup ({t} \ {id[q]})
      BY DEF Change, Listed, Loading
    <2> QED
      BY <1>0, <2>1 DEF Same, LoaderInv, Listed
  <1> QED
    BY <1>1, <1>2

\* A call that has returned claims nothing.
LEMMA Returned ==
  ASSUME TypeOK, NEW p \in Procs, Return(p)
  PROVE  /\ WriterInv(p)' /\ LoaderInv(p)'
         /\ \A q \in Procs \ {p} : /\ Same(q) /\ mine'[q] = mine[q] /\ unseen'[q] = unseen[q]
         /\ pc' \in [Procs -> Steps] /\ id' \in [Procs -> Ids] /\ mine' \in [Procs -> 0..MaxPuts]
         /\ todo' \in [Procs -> SUBSET Ids] /\ found' \in [Procs -> SUBSET Ids]
         /\ suffix' \in [Procs -> Suffixes] /\ dirty' \in [Procs -> BOOLEAN]
         /\ unseen' \in [Procs -> SUBSET Ids]
  <1>1. 0 \in 0..MaxPuts
    BY StoreAssumption
  <1>2. /\ pc'[p] = "idle" /\ mine'[p] = 0
    BY DEF Return, TypeOK
  <1> QED
    BY <1>1, <1>2, Firsts DEF Return, TypeOK, Same, WriterInv, LoaderInv, Listed, Steps

\* The actions that move one process and no file.
LEMMA StandingStep ==
  ASSUME TypeOK, StoreInv, NEW p \in Procs, \A q \in Procs : WriterInv(q) /\ LoaderInv(q),
         dir' = dir, puts' = puts, accepted' = accepted, past' = past \/ Synced,
         \A q \in Procs \ {p} : Same(q) /\ mine'[q] = mine[q] /\ unseen'[q] = unseen[q],
         WriterInv(p)' /\ LoaderInv(p)', TypeOK'
  PROVE  IInv'
  <1>1. StoreInv'
    BY StoreFrame
  <1>2. ASSUME NEW q \in Procs \ {p} PROVE WriterInv(q)' /\ LoaderInv(q)'
    BY <1>2, Frame
  <1> QED
    BY <1>1, <1>2 DEF IInv

\* The actions that return from a call and change no file.
LEMMA ReturningStep ==
  ASSUME IInv, NEW p \in Procs, Return(p), dir' = dir, puts' = puts, accepted' = accepted,
         past' = past \/ Synced, temps' \subseteq Procs \cup {None}
  PROVE  IInv'
  <1>1. TypeOK'
    BY Returned DEF IInv, TypeOK, Synced
  <1> QED
    BY <1>1, Returned, StandingStep DEF IInv

-----------------------------------------------------------------------------
(* The steps                                                               *)

LEMMA InitHolds == Init => IInv
  <1> SUFFICES ASSUME Init PROVE IInv
    OBVIOUS
  <1>1. /\ [json |-> None, invalid |-> [n \in Suffixes |-> None]] \in Slots
        /\ 0 \in 0..MaxPuts
    BY FileTypes, StoreAssumption DEF Slots
  <1>2. TypeOK
    BY <1>1, Firsts DEF Init, TypeOK, Steps
  <1>3. StoreInv
    BY FileTypes DEF Init, StoreInv, SlotInv
  <1>4. \A p \in Procs : WriterInv(p) /\ LoaderInv(p)
    BY DEF Init, WriterInv, LoaderInv, Listed
  <1> QED
    BY <1>2, <1>3, <1>4 DEF IInv

LEMMA WriteTempHolds == ASSUME IInv, NEW p \in Procs, NEW t \in Ids, WriteTemp(p, t) PROVE IInv'
  <1>1. TypeOK'
    BY DEF IInv, WriteTemp, TypeOK, Steps
  <1>2. \A q \in Procs \ {p} : Same(q)
    BY DEF IInv, TypeOK, WriteTemp, Same
  <1>3. WriterInv(p)' /\ LoaderInv(p)'
    BY DEF IInv, TypeOK, WriteTemp, WriterInv, LoaderInv, Listed
  <1> QED
    BY <1>1, <1>2, <1>3, StandingStep DEF IInv, WriteTemp

LEMMA WriteFailsHolds == ASSUME IInv, NEW p \in Procs, WriteFails(p) PROVE IInv'
  <1>1. temps' \subseteq Procs \cup {None}
    BY DEF IInv, TypeOK, WriteFails
  <1> QED
    BY <1>1, ReturningStep DEF WriteFails

LEMMA RenameHolds == ASSUME IInv, NEW p \in Procs, Rename(p) PROVE IInv'
  <1> SUFFICES ASSUME NEW t, t = id[p], NEW slot, slot = [dir[t] EXCEPT !.json = puts + 1]
               PROVE  IInv'
    OBVIOUS
  <1>1. /\ t \in Ids /\ puts \in Nat /\ puts + 1 \in 1..MaxPuts /\ dir[t] \in Slots
        /\ Change(t, slot, p) /\ puts' = puts + 1
    BY StoreAssumption DEF IInv, TypeOK, Rename
  <1>2. /\ slot \in Slots /\ slot.json = puts + 1 /\ slot.invalid = dir[t].invalid
        /\ \A n \in Suffixes : slot.invalid[n] \in Files
    BY <1>1, SlotTypes, FileTypes DEF Slots
  <1>3. SlotInv(dir[t], t) /\ accepted[t] <= puts /\ accepted[t] \in Nat
    BY <1>1, StoreAssumption DEF IInv, StoreInv, TypeOK
  <1>4. \A v \in 1..(puts + 1) : Holds(slot, v)
    BY <1>1, <1>2, FileTypes DEF Holds
  <1>5. SlotInv(slot, t)'
    <2>1. accepted' = accepted
      BY DEF Rename
    <2>2. \A n \in Suffixes : slot.invalid[n] # None => slot.invalid[n] <= puts /\ slot.invalid[n] \in Nat
      BY <1>2, <1>3, FileTypes DEF SlotInv
    <2> QED
      BY <1>1, <1>2, <1>3, <1>4, <2>1, <2>2 DEF SlotInv
  <1>6. StoreInv'
    BY <1>1, <1>2, <1>5, StoreChange DEF IInv, Rename
  <1>7. TypeOK'
    <2>1. dir' \in [Ids -> Slots] /\ past' \in [Ids -> SUBSET Slots] /\ unseen' \in [Procs -> SUBSET Ids]
      BY <1>1, <1>2 DEF IInv, TypeOK, Change
    <2>2. puts + 1 \in 0..MaxPuts
      BY <1>1
    <2>3. mine' \in [Procs -> 0..MaxPuts] /\ puts' \in 0..MaxPuts
      BY <2>2 DEF IInv, TypeOK, Rename
    <2>4. temps' \subseteq Procs \cup {None} /\ pc' \in [Procs -> Steps]
      BY DEF IInv, TypeOK, Rename, Steps
    <2> QED
      BY <2>1, <2>3, <2>4 DEF IInv, TypeOK, Rename
  <1>8. ASSUME NEW q \in Procs \ {p} PROVE WriterInv(q)' /\ LoaderInv(q)'
    <2>1. Same(q) /\ mine'[q] = mine[q]
      BY <1>8 DEF Rename, Same, IInv, TypeOK
    <2>2. mine[q] > 0 => mine[q] \in 1..(puts + 1)
      BY <1>1, <1>8 DEF IInv, WriterInv, TypeOK
    <2>3. mine[q] > 0 => slot.json # 0 /\ Holds(slot, mine[q])
      BY <1>1, <1>2, <1>4, <2>2
    <2>4. q \in Procs /\ q # p /\ WriterInv(q) /\ LoaderInv(q) /\ TypeOK
      BY DEF IInv
    <2>5. puts' \in Nat /\ puts <= puts'
      BY <1>1
    <2> QED
      BY <1>1, <1>2, <2>1, <2>3, <2>4, <2>5, FrameChange
  <1>9. WriterInv(p)' /\ LoaderInv(p)'
    <2>1. /\ pc'[p] = "syncWrite" /\ mine'[p] = puts + 1 /\ id'[p] = t /\ dir'[t] = slot
      BY <1>1 DEF Rename, Change, IInv, TypeOK
    <2> QED
      BY <1>1, <1>2, <1>4, <2>1 DEF WriterInv, LoaderInv, Listed
  <1> QED
    BY <1>6, <1>7, <1>8, <1>9 DEF IInv

LEMMA SyncWriteHolds == ASSUME IInv, NEW p \in Procs, SyncWrite(p) PROVE IInv'
  <1>1. CASE UNCHANGED <<past, accepted>>
    BY <1>1, ReturningStep DEF SyncWrite, IInv, TypeOK
  <1>2. CASE /\ Synced
             /\ accepted' = [accepted EXCEPT ![id[p]] = IF @ < mine[p] THEN mine[p] ELSE @]
    <2>1. TypeOK'
      BY <1>2, Returned DEF SyncWrite, Synced, IInv, TypeOK
    <2>2. StoreInv'
      <3> SUFFICES ASSUME NEW t \in Ids PROVE accepted'[t] <= puts /\ SlotInv(dir[t], t)'
        BY <1>2 DEF SyncWrite, Synced, StoreInv
      <3>0. dir' = dir /\ puts' = puts
        BY DEF SyncWrite
      <3>1. SlotInv(dir[t], t) /\ accepted[t] <= puts
        BY DEF IInv, StoreInv
      <3>2. CASE accepted'[t] = accepted[t]
        BY <3>0, <3>1, <3>2 DEF SlotInv
      <3>3. CASE t = id[p] /\ accepted'[t] = mine[p] /\ mine[p] > 0
        <4>1. mine[p] <= puts /\ dir[t].json # 0 /\ Holds(dir[t], mine[p])
          BY <3>3 DEF IInv, WriterInv
        <4> QED
          BY <3>0, <3>1, <3>3, <4>1 DEF SlotInv
      <3>4. /\ accepted[t] \in Nat /\ mine[p] \in Nat
            /\ accepted'[t] = IF t = id[p] /\ accepted[t] < mine[p] THEN mine[p] ELSE accepted[t]
        BY <1>2, StoreAssumption DEF IInv, TypeOK
      <3> QED
        BY <3>2, <3>3, <3>4
    <2>3. ASSUME NEW q \in Procs \ {p} PROVE WriterInv(q)' /\ LoaderInv(q)'
      BY <2>3, Returned, Frame DEF SyncWrite, IInv
    <2>4. WriterInv(p)' /\ LoaderInv(p)'
      BY Returned DEF SyncWrite, IInv
    <2> QED
      BY <2>1, <2>2, <2>3, <2>4 DEF IInv
  <1> QED
    BY <1>1, <1>2 DEF SyncWrite

LEMMA ClearHolds == ASSUME IInv, NEW p \in Procs, NEW t \in Ids, Clear(p, t) PROVE IInv'
  <1> SUFFICES ASSUME NEW slot, slot = [dir[t] EXCEPT !.json = None] PROVE IInv'
    OBVIOUS
  <1>1. /\ dir[t] \in Slots /\ slot \in Slots /\ slot.json = None
        /\ slot.invalid = dir[t].invalid /\ puts' = puts /\ puts \in Nat
        /\ puts <= puts' /\ Change(t, slot, p) /\ Void(t)
    <2>1. Change(t, slot, p) /\ Void(t) /\ puts' = puts
      BY DEF Clear
    <2>2. dir[t] \in Slots /\ puts \in Nat
      BY DEF IInv, TypeOK
    <2>3. slot \in Slots /\ slot.json = None /\ slot.invalid = dir[t].invalid
      BY <2>2, FileTypes, SlotTypes DEF Slots
    <2> QED
      BY <2>1, <2>2, <2>3
  <1>2. accepted' = [accepted EXCEPT ![t] = 0] /\ accepted'[t] = 0
    BY <1>1 DEF Void, IInv, TypeOK
  <1>3. SlotInv(slot, t)'
    <2>1. SlotInv(dir[t], t)
      BY DEF IInv, StoreInv
    <2> QED
      BY <1>1, <1>2, <2>1, FileTypes DEF SlotInv
  <1>4. StoreInv'
    BY <1>1, <1>2, <1>3, StoreChange DEF IInv
  <1>5. TypeOK'
    <2>1. dir' \in [Ids -> Slots] /\ past' \in [Ids -> SUBSET Slots] /\ unseen' \in [Procs -> SUBSET Ids]
      BY <1>1 DEF IInv, TypeOK, Change
    <2>2. accepted' \in [Ids -> 0..MaxPuts] /\ mine' \in [Procs -> 0..MaxPuts]
      BY <1>1, StoreAssumption DEF IInv, TypeOK, Void
    <2> QED
      BY <2>1, <2>2 DEF IInv, TypeOK, Clear, memory, Steps
  <1>6. ASSUME NEW q \in Procs \ {p} PROVE WriterInv(q)' /\ LoaderInv(q)'
    <2>1. Same(q)
      BY <1>6 DEF Clear, memory, Same, IInv, TypeOK
    <2>2. mine'[q] = 0 \/ (mine'[q] = mine[q] /\ id[q] # t)
      BY <1>1, <1>6 DEF Void
    <2>3. q \in Procs /\ q # p /\ WriterInv(q) /\ LoaderInv(q) /\ TypeOK
      BY <1>6 DEF IInv
    <2>4. puts' \in Nat
      BY <1>1
    <2>5. CASE mine'[q] = 0
      BY <1>1, <2>1, <2>3, <2>4, <2>5, FrameChange
    <2>6. CASE mine'[q] = mine[q] /\ id[q] # t
      BY <1>1, <2>1, <2>3, <2>4, <2>6, FrameChange
    <2> QED
      BY <2>2, <2>5, <2>6
  <1>7. WriterInv(p)' /\ LoaderInv(p)'
    <2>1. pc[p] = "idle" /\ pc'[p] = "syncClear" /\ mine'[p] \in {0, mine[p]} /\ mine[p] \in Nat
      BY <1>1 DEF Clear, Void, IInv, TypeOK
    <2> QED
      BY <2>1 DEF IInv, WriterInv, LoaderInv, Listed
  <1> QED
    BY <1>4, <1>5, <1>6, <1>7 DEF IInv

LEMMA SyncClearHolds == ASSUME IInv, NEW p \in Procs, SyncClear(p) PROVE IInv'
  BY ReturningStep DEF SyncClear, IInv, TypeOK

LEMMA LoadHolds == ASSUME IInv, NEW p \in Procs, NEW t \in Ids, Load(p, t) PROVE IInv'
  <1>1. TypeOK'
    <2>1. dirty' \in [Procs -> BOOLEAN] /\ temps' \subseteq Procs \cup {None}
      BY DEF IInv, Load, TypeOK
    <2> QED
      BY <2>1 DEF IInv, Load, TypeOK, Steps
  <1>2. \A q \in Procs \ {p} : Same(q) /\ unseen'[q] = unseen[q]
    BY DEF IInv, TypeOK, Load, Same
  <1>3. WriterInv(p)' /\ LoaderInv(p)'
    BY DEF IInv, TypeOK, Load, WriterInv, LoaderInv, Listed
  <1> QED
    BY <1>1, <1>2, <1>3, StandingStep DEF IInv, Load

LEMMA LoadNothingHolds ==
  ASSUME IInv, NEW p \in Procs, NEW t \in Ids, LoadNothing(p, t) PROVE IInv'
  <1>1. TypeOK'
    BY DEF IInv, LoadNothing, Present, TypeOK, Steps
  <1>2. \A q \in Procs \ {p} : Same(q) /\ unseen'[q] = unseen[q]
    BY DEF IInv, TypeOK, LoadNothing, Same
  <1>3. WriterInv(p)' /\ LoaderInv(p)'
    <2>1. /\ pc[p] = "idle" /\ pc'[p] = "opened" /\ id'[p] = t /\ dir' = dir
          /\ unseen'[p] = {u \in Ids : dir[u].json # None} \ {t}
          /\ found'[p] = found[p] /\ todo'[p] = todo[p]
          /\ mine'[p] = mine[p] /\ mine[p] \in Nat
      BY DEF IInv, TypeOK, LoadNothing, Present
    <2>2. ~(mine[p] > 0) /\ todo[p] = {} /\ found[p] = {}
      BY <2>1 DEF IInv, WriterInv, LoaderInv
    <2> QED
      BY <2>1, <2>2 DEF WriterInv, LoaderInv, Listed
  <1> QED
    BY <1>1, <1>2, <1>3, StandingStep DEF IInv, LoadNothing

LEMMA CleanupFailsHolds == ASSUME IInv, NEW p \in Procs, CleanupFails(p) PROVE IInv'
  <1>1. TypeOK'
    BY DEF IInv, CleanupFails, memory, TypeOK
  <1>2. \A q \in Procs : Same(q)
    BY DEF CleanupFails, memory, Same
  <1>3. WriterInv(p)' /\ LoaderInv(p)'
    BY <1>2, Frame DEF IInv, CleanupFails
  <1> QED
    BY <1>1, <1>2, <1>3, StandingStep DEF IInv, CleanupFails

LEMMA ListHolds == ASSUME IInv, NEW p \in Procs, List(p) PROVE IInv'
  <1>1. PICK files \in SUBSET Present :
          /\ todo' = [todo EXCEPT ![p] = files]
          /\ pc' = [pc EXCEPT ![p] = NextFile(files)]
          /\ unseen' = [unseen EXCEPT ![p] = @ \cup (Present \ (files \cup {id[p]}))]
    BY DEF List
  <1>2. TypeOK'
    BY <1>1 DEF IInv, List, NextFile, Present, TypeOK, Steps
  <1>3. \A q \in Procs \ {p} : Same(q) /\ unseen'[q] = unseen[q]
    BY <1>1 DEF IInv, TypeOK, List, Same
  <1>4. WriterInv(p)' /\ LoaderInv(p)'
    <2>1. mine'[p] = mine[p] /\ mine[p] \in Nat /\ ~(mine[p] > 0) /\ dir' = dir /\ id' = id
      BY DEF List, IInv, WriterInv, TypeOK
    <2>2. todo'[p] = files /\ pc'[p] = NextFile(files)
          /\ unseen'[p] = unseen[p] \cup (Present \ (files \cup {id[p]}))
      BY <1>1 DEF IInv, TypeOK
    <2>3. \A t \in Ids \ ({id[p]} \cup unseen'[p]) : t \in files \/ dir[t].json = None
      BY <2>2 DEF Present
    <2> QED
      BY <2>1, <2>2, <2>3 DEF WriterInv, LoaderInv, Listed, NextFile
  <1> QED
    BY <1>2, <1>3, <1>4, StandingStep DEF IInv, List

\* The file a loader is at is one of those it has still to read.
LEMMA CurrentFile ==
  ASSUME IInv, NEW p \in Procs, pc[p] \in {"read", "suffix", "quarantine"}
  PROVE  Min(todo[p]) \in todo[p] /\ Min(todo[p]) \in Ids
  <1>1. todo[p] \subseteq Ids /\ todo[p] # {} /\ Ids \subseteq Nat
    BY StoreAssumption DEF IInv, TypeOK, LoaderInv
  <1> QED
    BY <1>1, MinIsLeast

LEMMA ReadHolds == ASSUME IInv, NEW p \in Procs, Read(p) PROVE IInv'
  <1> SUFFICES ASSUME NEW t, t = Min(todo[p]) PROVE IInv'
    OBVIOUS
  <1>1. pc[p] = "read" /\ t \in todo[p] /\ t \in Ids /\ dir' = dir
    BY CurrentFile DEF Read
  <1>2. \/ /\ found' = [found EXCEPT ![p] = @ \cup ({t} \ {id[p]})] /\ todo' = [todo EXCEPT ![p] = @ \ {t}]
           /\ pc' = [pc EXCEPT ![p] = NextFile(todo[p] \ {t})]
        \/ pc' = [pc EXCEPT ![p] = "suffix"] /\ UNCHANGED <<todo, found>>
    BY DEF Read
  <1>3. TypeOK'
    BY <1>1, <1>2 DEF IInv, Read, NextFile, TypeOK, Steps
  <1>4. \A q \in Procs \ {p} : Same(q)
    BY <1>2 DEF IInv, TypeOK, Read, Same
  <1>5. WriterInv(p)' /\ LoaderInv(p)'
    <2>1. mine'[p] = mine[p] /\ mine[p] \in Nat /\ ~(mine[p] > 0) /\ unseen' = unseen /\ id' = id
      BY <1>1 DEF Read, IInv, WriterInv, TypeOK
    <2>2. LoaderInv(p) /\ pc \in [Procs -> Steps] /\ todo \in [Procs -> SUBSET Ids]
          /\ found \in [Procs -> SUBSET Ids]
      BY DEF IInv, TypeOK
    <2>3. LoaderInv(p)'
      BY <1>1, <1>2, <2>1, <2>2 DEF LoaderInv, Listed, NextFile
    <2> QED
      BY <2>1, <2>3 DEF WriterInv
  <1> QED
    BY <1>3, <1>4, <1>5, StandingStep DEF IInv, Read

LEMMA NextQuarantinePathHolds ==
  ASSUME IInv, NEW p \in Procs, NextQuarantinePath(p) PROVE IInv'
  <1>1. PICK n \in Suffixes : suffix' = [suffix EXCEPT ![p] = n]
    BY DEF NextQuarantinePath
  <1>3. TypeOK'
    BY <1>1 DEF IInv, NextQuarantinePath, TypeOK, Steps
  <1>4. \A q \in Procs \ {p} : Same(q)
    BY DEF IInv, TypeOK, NextQuarantinePath, Same
  <1>5. WriterInv(p)' /\ LoaderInv(p)'
    BY DEF IInv, TypeOK, NextQuarantinePath, WriterInv, LoaderInv, Listed
  <1> QED
    BY <1>3, <1>4, <1>5, StandingStep DEF IInv, NextQuarantinePath

LEMMA QuarantineHolds == ASSUME IInv, NEW p \in Procs, Quarantine(p) PROVE IInv'
  <1> SUFFICES ASSUME NEW t, t = Min(todo[p]), NEW slot,
                      slot = [json |-> None,
                              invalid |-> [dir[t].invalid EXCEPT ![suffix[p]] = dir[t].json]]
               PROVE  IInv'
    OBVIOUS
  <1>1. /\ pc[p] = "quarantine" /\ t \in todo[p] /\ t \in Ids /\ dir[t] \in Slots
        /\ dir[t].json # None /\ suffix[p] \in Suffixes /\ SlotInv(dir[t], t)
    BY CurrentFile DEF Quarantine, IInv, TypeOK, StoreInv
  <1>2. Change(t, slot, p) /\ accepted' = accepted /\ puts' = puts /\ mine' = mine
    BY DEF Quarantine
  <1>3. /\ slot \in Slots /\ SlotInv(slot, t) /\ slot.json = None
        /\ dir[t].json # 0 => \A v \in 1..MaxPuts : Holds(dir[t], v) => Holds(slot, v)
    BY <1>1, QuarantineKeeps DEF IInv
  <1>4. puts' \in Nat /\ puts <= puts'
    BY <1>2 DEF IInv, TypeOK
  <1>5. SlotInv(slot, t)'
    BY <1>2, <1>3 DEF SlotInv
  <1>6. StoreInv'
    BY <1>1, <1>2, <1>3, <1>4, <1>5, StoreChange DEF IInv
  <1>7. TypeOK'
    <2>1. dir' \in [Ids -> Slots] /\ past' \in [Ids -> SUBSET Slots] /\ unseen' \in [Procs -> SUBSET Ids]
      BY <1>1, <1>2, <1>3 DEF IInv, TypeOK, Change
    <2>2. todo' \in [Procs -> SUBSET Ids] /\ pc' \in [Procs -> Steps] /\ dirty' \in [Procs -> BOOLEAN]
      BY <1>1 DEF IInv, TypeOK, Quarantine, NextFile, Steps
    <2> QED
      BY <2>1, <2>2 DEF IInv, TypeOK, Quarantine
  <1>8. ASSUME NEW q \in Procs \ {p} PROVE WriterInv(q)' /\ LoaderInv(q)'
    <2>1. Same(q)
      BY <1>8 DEF Quarantine, Same, IInv, TypeOK
    <2>2. mine[q] > 0 => mine[q] \in 1..MaxPuts
      BY <1>8 DEF IInv, TypeOK
    <2>3. q \in Procs /\ q # p /\ WriterInv(q) /\ LoaderInv(q) /\ TypeOK
      BY <1>8 DEF IInv
    <2>4. mine[q] > 0 /\ id[q] = t => slot.json # 0 /\ Holds(slot, mine[q])
      BY <1>3, <2>2, <2>3, FileTypes DEF WriterInv
    <2> QED
      BY <1>1, <1>2, <1>3, <1>4, <2>1, <2>3, <2>4, FrameChange
  <1>9. WriterInv(p)' /\ LoaderInv(p)'
    <2>1. mine[p] \in Nat /\ ~(mine[p] > 0) /\ mine'[p] = mine[p]
      BY <1>1, <1>2 DEF IInv, WriterInv, TypeOK
    <2>2. /\ todo'[p] = todo[p] \ {t} /\ pc'[p] = NextFile(todo[p] \ {t}) /\ found'[p] = found[p]
          /\ unseen'[p] = unseen[p] /\ id' = id /\ \A u \in Ids : dir'[u] = IF u = t THEN slot ELSE dir[u]
      BY <1>1, <1>2 DEF Quarantine, Change, IInv, TypeOK
    <2>3. LoaderInv(p)
      BY DEF IInv
    <2>4. LoaderInv(p)'
      BY <1>1, <1>3, <2>2, <2>3 DEF LoaderInv, Listed, NextFile
    <2> QED
      BY <2>1, <2>4 DEF WriterInv
  <1> QED
    BY <1>6, <1>7, <1>8, <1>9 DEF IInv

LEMMA LoadFailsHolds == ASSUME IInv, NEW p \in Procs, LoadFails(p) PROVE IInv'
  BY ReturningStep DEF LoadFails, IInv, TypeOK

LEMMA SyncLoadHolds == ASSUME IInv, NEW p \in Procs, SyncLoad(p) PROVE IInv'
  <1>1. past' = past \/ Synced
    BY DEF SyncLoad
  <1>2. CASE Return(p)
    BY <1>1, <1>2, ReturningStep DEF SyncLoad, IInv, TypeOK
  <1>3. CASE /\ GateOpens(p) /\ pc' = [pc EXCEPT ![p] = "opened"]
             /\ dirty' = [dirty EXCEPT ![p] = FALSE]
             /\ suffix' = [suffix EXCEPT ![p] = Min(Suffixes)]
             /\ UNCHANGED <<mine, id, todo, found, unseen>>
    <2>1. TypeOK'
      BY <1>1, <1>3, Firsts DEF IInv, SyncLoad, Synced, TypeOK, Steps
    <2>2. \A q \in Procs \ {p} : Same(q)
      BY <1>3 DEF IInv, TypeOK, Same
    <2>3. WriterInv(p)' /\ LoaderInv(p)'
      <3>1. WriterInv(p) /\ LoaderInv(p) /\ pc[p] = "syncLoad" /\ dir' = dir /\ pc'[p] = "opened"
        BY <1>3 DEF IInv, SyncLoad, TypeOK
      <3> QED
        BY <1>3, <3>1 DEF GateOpens, WriterInv, LoaderInv, Listed
    <2> QED
      BY <1>1, <1>3, <2>1, <2>2, <2>3, StandingStep DEF IInv, SyncLoad
  <1> QED
    BY <1>2, <1>3 DEF SyncLoad

LEMMA AnsweredHolds == ASSUME IInv, NEW p \in Procs, Answered(p) PROVE IInv'
  BY ReturningStep DEF Answered, IInv, TypeOK

LEMMA KilledHolds == ASSUME IInv, NEW p \in Procs, Killed(p) PROVE IInv'
  <1>1. temps' \subseteq Procs \cup {None}
    BY DEF IInv, TypeOK, Killed, Orphaned
  <1> QED
    BY <1>1, ReturningStep DEF Killed

LEMMA DamageHolds == ASSUME IInv, NEW t \in Ids, Damage(t) PROVE IInv'
  <1> SUFFICES ASSUME NEW slot, slot = [dir[t] EXCEPT !.json = 0] PROVE IInv'
    OBVIOUS
  <1>1. /\ Change(t, slot, None) /\ Void(t) /\ puts' = puts + 1
        /\ puts \in Nat /\ puts' \in Nat /\ puts <= puts' /\ puts' \in 0..MaxPuts
    BY StoreAssumption DEF Damage, IInv, TypeOK
  <1>2. /\ slot \in Slots /\ slot.json = 0 /\ slot.invalid = dir[t].invalid
        /\ \A n \in Suffixes : slot.invalid[n] \in Files
    <2>1. dir[t] \in Slots
      BY DEF IInv, TypeOK
    <2> QED
      BY <2>1, FileTypes, SlotTypes DEF Slots
  <1>3. accepted' = [accepted EXCEPT ![t] = 0] /\ accepted'[t] = 0
    BY <1>1 DEF Void, IInv, TypeOK
  <1>4. SlotInv(slot, t)'
    <2>1. SlotInv(dir[t], t)
      BY DEF IInv, StoreInv
    <2>2. \A n \in Suffixes : slot.invalid[n] # None => slot.invalid[n] <= puts /\ slot.invalid[n] \in Nat
      BY <1>2, <2>1, FileTypes DEF SlotInv
    <2> QED
      BY <1>1, <1>2, <1>3, <2>2 DEF SlotInv
  <1>5. StoreInv'
    BY <1>1, <1>2, <1>3, <1>4, StoreChange DEF IInv
  <1>6. TypeOK'
    <2>1. dir' \in [Ids -> Slots] /\ past' \in [Ids -> SUBSET Slots] /\ unseen' \in [Procs -> SUBSET Ids]
      BY <1>1, <1>2 DEF IInv, TypeOK, Change
    <2>2. accepted' \in [Ids -> 0..MaxPuts] /\ mine' \in [Procs -> 0..MaxPuts]
      BY <1>1, StoreAssumption DEF IInv, TypeOK, Void
    <2> QED
      BY <1>1, <2>1, <2>2 DEF IInv, TypeOK, Damage, memory
  <1>7. ASSUME NEW q \in Procs PROVE WriterInv(q)' /\ LoaderInv(q)'
    <2>1. Same(q) /\ q # None
      BY StoreAssumption DEF Damage, memory, Same
    <2>2. mine'[q] = 0 \/ (mine'[q] = mine[q] /\ id[q] # t)
      BY <1>1 DEF Void
    <2>3. WriterInv(q) /\ LoaderInv(q) /\ TypeOK
      BY DEF IInv
    <2>4. CASE mine'[q] = 0
      BY <1>1, <1>2, <2>1, <2>3, <2>4, FrameChange
    <2>5. CASE mine'[q] = mine[q] /\ id[q] # t
      BY <1>1, <1>2, <2>1, <2>3, <2>5, FrameChange
    <2> QED
      BY <2>2, <2>4, <2>5
  <1> QED
    BY <1>5, <1>6, <1>7 DEF IInv

\* What the disk comes back with is one of the states it may have had.
LEMMA PowerLossHolds == ASSUME IInv, PowerLoss PROVE IInv'
  <1>1. PICK d \in [Ids -> UNION {past[t] \cup {dir[t]} : t \in Ids}] :
          (\A t \in Ids : d[t] \in past[t] \cup {dir[t]}) /\ dir' = d
    BY DEF PowerLoss
  <1>2. past' = [t \in Ids |-> {}] /\ accepted' = accepted /\ puts' = puts
    BY DEF PowerLoss, Synced
  <1>3. TypeOK'
    <2>1. dir' \in [Ids -> Slots] /\ past' \in [Ids -> SUBSET Slots]
      <3>1. \A t \in Ids : d[t] \in Slots
        BY <1>1 DEF IInv, TypeOK
      <3> QED
        BY <1>1, <1>2, <3>1
    <2>2. temps' \subseteq Procs \cup {None}
      BY DEF PowerLoss, Orphaned, IInv, TypeOK
    <2>3. 0 \in 0..MaxPuts
      BY StoreAssumption
    <2> QED
      BY <1>2, <2>1, <2>2, <2>3, Firsts DEF PowerLoss, IInv, TypeOK, Steps
  <1>4. StoreInv'
    <2> SUFFICES ASSUME NEW t \in Ids PROVE accepted[t] <= puts /\ SlotInv(d[t], t)'
      BY <1>1, <1>2 DEF StoreInv, SlotInv, Holds
    <2>1. accepted[t] <= puts /\ SlotInv(d[t], t)
      BY <1>1 DEF IInv, StoreInv
    <2> QED
      BY <1>2, <2>1 DEF SlotInv
  <1>5. ASSUME NEW q \in Procs PROVE WriterInv(q)' /\ LoaderInv(q)'
    BY DEF PowerLoss, WriterInv, LoaderInv, Listed
  <1> QED
    BY <1>3, <1>4, <1>5 DEF IInv

LEMMA StutterHolds == ASSUME IInv, UNCHANGED vars PROVE IInv'
  BY DEF vars, memory, IInv, TypeOK, StoreInv, SlotInv, WriterInv, LoaderInv

\* Every step of a writer, a loader or the world keeps the invariant.
LEMMA StepHolds == IInv /\ [Next]_vars => IInv'
  <1> SUFFICES ASSUME IInv, [Next]_vars PROVE IInv'
    OBVIOUS
  <1>1. ASSUME NEW p \in Procs, Writes(p) PROVE IInv'
    BY <1>1, WriteTempHolds, ClearHolds, WriteFailsHolds, RenameHolds, SyncWriteHolds,
       SyncClearHolds DEF Writes
  <1>2. ASSUME NEW p \in Procs, Loads(p) PROVE IInv'
    BY <1>2, LoadHolds, LoadNothingHolds, CleanupFailsHolds, ListHolds, ReadHolds, NextQuarantinePathHolds,
       QuarantineHolds, LoadFailsHolds, SyncLoadHolds, AnsweredHolds DEF Loads
  <1> QED
    BY <1>1, <1>2, KilledHolds, DamageHolds, PowerLossHolds, StutterHolds DEF Next

-----------------------------------------------------------------------------
(* The theorems                                                            *)

(* The inductive invariant holds of any number of processes and however    *)
(* often they fail, are killed or lose power.                              *)
THEOREM Invariance == Spec => []IInv
  BY InitHolds, StepHolds, PTL DEF Spec

(* The directory, its temp files and what each process remembers keep      *)
(* their shapes (recovery_journal.rs).                                     *)
THEOREM TypeCorrect == Spec => []TypeOK
  BY Invariance, PTL DEF IInv

(* A journal whose write_pending returned Ok, and that nobody cleared or   *)
(* damaged, is in the directory or in quarantine unless a later one took   *)
(* its place, now and after a power loss, whatever other processes do.     *)
THEOREM JournalsKept == Spec => []NothingLost
  <1>1. IInv => NothingLost
    BY DEF IInv, StoreInv, SlotInv, NothingLost
  <1> QED
    BY <1>1, Invariance, PTL

(* ensure_can_start_transaction overlooks an accepted journal of another   *)
(* transaction only after it was quarantined, changed by others under the  *)
(* gate, or hidden by a stat that failed.                                  *)
THEOREM GateHolds == Spec => []GateSees
  <1>1. IInv => GateSees
    <2> SUFFICES ASSUME IInv, NEW p \in Procs, pc[p] = "opened",
                        NEW t \in Ids \ ({id[p]} \cup unseen[p]), accepted[t] > 0
                 PROVE  \E n \in Suffixes :
                          dir[t].invalid[n] # None /\ dir[t].invalid[n] >= accepted[t]
      BY DEF GateSees
    <2>1. dir[t].json = None
      BY DEF IInv, LoaderInv, Listed
    <2>2. Holds(dir[t], accepted[t])
      BY DEF IInv, StoreInv, SlotInv
    <2> QED
      BY <2>1, <2>2 DEF Holds
  <1> QED
    BY <1>1, Invariance, PTL
=============================================================================
