---------------------------- MODULE JournalStore ----------------------------
(***************************************************************************)
(* The directory of pending recovery journals (recovery_journal.rs) under  *)
(* several NovaRay processes, which take no lock: write_pending and its    *)
(* temp file, clear_pending, the loader with its clean-up and quarantine,  *)
(* and the start gate that rests on the loader (network_executor.rs).      *)
(*                                                                         *)
(* A journal is a number that counts the journals put in place, so that a  *)
(* later one is larger; 0 is a file the loader cannot use: damaged, or of  *)
(* another version.  This is the Unix build: a rename replaces its target, *)
(* and what was renamed or unlinked is durable when the directory has been *)
(* synced, so "past" keeps what a power loss may bring back.               *)
(***************************************************************************)
EXTENDS Naturals, FiniteSetsExt, TLC

CONSTANTS
  Procs,     \* processes
  Ids,       \* transaction ids, in the order of their file names
  Suffixes,  \* 1..1000 in the code: names a quarantined file may take
  MaxPuts,   \* bound: journals put in place
  None

ASSUME StoreAssumption ==
  /\ Ids \subseteq Nat /\ Ids # {} /\ Suffixes \subseteq Nat \ {0} /\ Suffixes # {}
  /\ MaxPuts \in Nat \ {0} /\ None \notin Nat \cup Procs

Files == (0..MaxPuts) \cup {None}
\* What the directory holds for an id: t.json and t.json.invalid.n.
Slots == [json : Files, invalid : [Suffixes -> Files]]
Steps == {"idle", "rename", "syncWrite", "syncClear", "list", "read", "suffix",
          "quarantine", "syncLoad", "opened"}
Loading == {"list", "read", "suffix", "quarantine", "syncLoad"}

VARIABLES
  dir,       \* [Ids -> Slots]
  past,      \* [Ids -> SUBSET Slots]: earlier states that are not yet superseded
  temps,     \* whose temp files there are: processes', and None for those of the dead
  puts,      \* journals put in place so far
  accepted,  \* [Ids -> 0..MaxPuts]: the last write that returned Ok, 0 when cleared
  pc,        \* [Procs -> Steps]
  id,        \* [Procs -> Ids]: the transaction a process writes, clears or starts
  mine,      \* [Procs -> 0..MaxPuts]: the journal a writer put in place, until it is void
  todo,      \* [Procs -> SUBSET Ids]: files a loader has still to read
  found,     \* [Procs -> SUBSET Ids]: journals it has read, those the gate counts
  suffix,    \* [Procs -> Suffixes]: the name it has chosen for the current file
  dirty,     \* [Procs -> BOOLEAN]: it removed or moved a file
  unseen     \* history, [Procs -> SUBSET Ids]: what a gate has not seen: changes
             \* of others under it, and files whose stat failed

memory == <<id, todo, found, suffix, dirty>>
vars == <<dir, past, temps, puts, accepted, pc, mine, memory, unseen>>

Init ==
  /\ dir = [t \in Ids |-> [json |-> None, invalid |-> [n \in Suffixes |-> None]]]
  /\ past = [t \in Ids |-> {}]
  /\ temps = {} /\ puts = 0
  /\ accepted = [t \in Ids |-> 0]
  /\ pc = [p \in Procs |-> "idle"]
  /\ id \in [Procs -> {Min(Ids)}]
  /\ mine = [p \in Procs |-> 0]
  /\ todo = [p \in Procs |-> {}]
  /\ found = [p \in Procs |-> {}]
  /\ suffix \in [Procs -> {Min(Suffixes)}]
  /\ dirty = [p \in Procs |-> FALSE]
  /\ unseen = [p \in Procs |-> {}]

\* The call of p returns: what it remembered is gone.
Return(p) ==
  /\ pc' = [pc EXCEPT ![p] = "idle"]
  /\ id' = [id EXCEPT ![p] = Min(Ids)]
  /\ mine' = [mine EXCEPT ![p] = 0]
  /\ todo' = [todo EXCEPT ![p] = {}]
  /\ found' = [found EXCEPT ![p] = {}]
  /\ suffix' = [suffix EXCEPT ![p] = Min(Suffixes)]
  /\ dirty' = [dirty EXCEPT ![p] = FALSE]
  /\ unseen' = [unseen EXCEPT ![p] = {}]

\* The files of t change under the directory's name; loaders did not see it.
Change(t, slot, p) ==
  /\ dir' = [dir EXCEPT ![t] = slot]
  /\ past' = [past EXCEPT ![t] = @ \cup {dir[t]}]
  /\ unseen' = [q \in Procs |->
       IF q # p /\ pc[q] \in Loading \cup {"opened"} THEN unseen[q] \cup ({t} \ {id[q]})
       ELSE unseen[q]]

\* The journals of t are cleared or damaged: they need not be kept any more.
Void(t) ==
  /\ accepted' = [accepted EXCEPT ![t] = 0]
  /\ mine' = [p \in Procs |-> IF id[p] = t THEN 0 ELSE mine[p]]

\* sync_parent_dir
Synced == past' = [t \in Ids |-> {}]

-----------------------------------------------------------------------------
(* write_pending and clear_pending                                         *)

\* The temp file has a name of its own and is synced before the rename.
WriteTemp(p, t) ==
  /\ pc[p] = "idle" /\ puts < MaxPuts
  /\ temps' = temps \cup {p}
  /\ id' = [id EXCEPT ![p] = t]
  /\ pc' = [pc EXCEPT ![p] = "rename"]
  /\ UNCHANGED <<dir, past, puts, accepted, mine, todo, found, suffix, dirty, unseen>>

\* The disk is full, or the loader of another process removed the temp file.
WriteFails(p) ==
  /\ pc[p] = "rename"
  /\ Return(p)
  /\ temps' \in {temps \ {p}, (temps \ {p}) \cup {None}}
  /\ UNCHANGED <<dir, past, puts, accepted>>

Rename(p) ==
  /\ pc[p] = "rename" /\ p \in temps /\ puts < MaxPuts
  /\ temps' = temps \ {p}
  /\ puts' = puts + 1
  /\ Change(id[p], [dir[id[p]] EXCEPT !.json = puts + 1], p)
  /\ mine' = [mine EXCEPT ![p] = puts + 1]
  /\ pc' = [pc EXCEPT ![p] = "syncWrite"]
  /\ UNCHANGED <<accepted, id, todo, found, suffix, dirty>>

\* (mutated: the directory is not synced)
SyncWrite_Skipped(p) ==
  /\ pc[p] = "syncWrite"
  /\ accepted' = [accepted EXCEPT ![id[p]] = IF @ < mine[p] THEN mine[p] ELSE @]
  /\ Return(p)
  /\ UNCHANGED <<dir, past, temps, puts>>

SyncWrite(p) ==
  /\ pc[p] = "syncWrite"
  /\ \/ /\ Synced
        /\ accepted' = [accepted EXCEPT ![id[p]] = IF @ < mine[p] THEN mine[p] ELSE @]
     \/ UNCHANGED <<past, accepted>>
  /\ Return(p)
  /\ UNCHANGED <<dir, temps, puts>>

\* Whoever clears a transaction has recovered or completed it.
Clear(p, t) ==
  /\ pc[p] = "idle" /\ dir[t].json # None
  /\ Change(t, [dir[t] EXCEPT !.json = None], p)
  /\ Void(t)
  /\ pc' = [pc EXCEPT ![p] = "syncClear"]
  /\ UNCHANGED <<temps, puts, memory>>

SyncClear(p) ==
  /\ pc[p] = "syncClear"
  /\ Synced \/ UNCHANGED past
  /\ Return(p)
  /\ UNCHANGED <<dir, temps, puts, accepted>>

-----------------------------------------------------------------------------
(* ensure_can_start_transaction and load_pending_report                    *)

\* What is there and what a stat says is there differ when the stat fails, which
\* exists() and is_file() report as absence.

Present == {t \in Ids : dir[t].json # None}

\* The stat of the directory fails: an empty report, and the gate opens.
LoadNothing(p, t) ==
  /\ pc[p] = "idle"
  /\ id' = [id EXCEPT ![p] = t]
  /\ unseen' = [unseen EXCEPT ![p] = Present \ {t}]
  /\ pc' = [pc EXCEPT ![p] = "opened"]
  /\ UNCHANGED <<dir, past, temps, puts, accepted, mine, todo, found, suffix, dirty>>

\* cleanup_temp_candidates removes the temp files, those of live writers too, but
\* for those whose stat fails.
Load(p, t) ==
  /\ pc[p] = "idle"
  /\ temps' \in SUBSET temps
  /\ \E removed \in BOOLEAN :
       /\ temps' # temps => removed
       /\ removed => temps' # temps \/ None \in temps
       /\ dirty' = [dirty EXCEPT ![p] = removed]
  /\ id' = [id EXCEPT ![p] = t]
  /\ pc' = [pc EXCEPT ![p] = "list"]
  /\ unseen' = [unseen EXCEPT ![p] = {}]
  /\ UNCHANGED <<dir, past, puts, accepted, mine, todo, found, suffix>>

CleanupFails(p) ==
  /\ pc[p] = "idle"
  /\ temps' \in SUBSET temps \ {temps}
  /\ UNCHANGED <<dir, past, puts, accepted, pc, mine, memory, unseen>>

NextFile(files) == IF files = {} THEN "syncLoad" ELSE "read"

List(p) ==
  /\ pc[p] = "list"
  /\ \E files \in SUBSET Present :
       /\ todo' = [todo EXCEPT ![p] = files]
       /\ pc' = [pc EXCEPT ![p] = NextFile(files)]
       /\ unseen' = [unseen EXCEPT ![p] = @ \cup (Present \ (files \cup {id[p]}))]
  /\ UNCHANGED <<dir, past, temps, puts, accepted, id, mine, found, suffix, dirty>>

\* load_one_journal: a file that is gone, or cannot be read now, is as bad as
\* one whose content is.
Usable(file) == file \notin {0, None}
\* (mutated: a file that cannot be read is skipped)
Read_Skips(p) ==
  /\ pc[p] = "read"
  /\ LET t == Min(todo[p]) IN
       /\ found' \in {[found EXCEPT ![p] = @ \cup ({t} \ {id[p]})], found}
       /\ todo' = [todo EXCEPT ![p] = @ \ {t}]
       /\ pc' = [pc EXCEPT ![p] = NextFile(todo[p] \ {t})]
  /\ UNCHANGED <<dir, past, temps, puts, accepted, id, mine, suffix, dirty, unseen>>

Read(p) ==
  /\ pc[p] = "read"
  /\ LET t == Min(todo[p]) IN
       \/ /\ Usable(dir[t].json)
          /\ found' = [found EXCEPT ![p] = @ \cup ({t} \ {id[p]})]
          /\ todo' = [todo EXCEPT ![p] = @ \ {t}]
          /\ pc' = [pc EXCEPT ![p] = NextFile(todo[p] \ {t})]
       \/ /\ pc' = [pc EXCEPT ![p] = "suffix"]
          /\ UNCHANGED <<todo, found>>
  /\ UNCHANGED <<dir, past, temps, puts, accepted, id, mine, suffix, dirty, unseen>>

\* next_quarantine_path: the first name that is free now, or whose stat fails.
NextQuarantinePath(p) ==
  /\ pc[p] = "suffix"
  /\ LET free == {n \in Suffixes : dir[Min(todo[p])].invalid[n] = None} IN
       \E n \in Suffixes :
         /\ \A m \in free : n <= m
         /\ suffix' = [suffix EXCEPT ![p] = n]
  /\ pc' = [pc EXCEPT ![p] = "quarantine"]
  /\ UNCHANGED <<dir, past, temps, puts, accepted, id, mine, todo, found, dirty, unseen>>

\* The rename takes whatever has the file's name by now, and replaces whatever
\* has the chosen one.
Quarantine(p) ==
  /\ pc[p] = "quarantine"
  /\ LET t == Min(todo[p]) IN
       /\ dir[t].json # None
       /\ Change(t, [json |-> None,
                     invalid |-> [dir[t].invalid EXCEPT ![suffix[p]] = dir[t].json]], p)
       /\ todo' = [todo EXCEPT ![p] = @ \ {t}]
       /\ pc' = [pc EXCEPT ![p] = NextFile(todo[p] \ {t})]
  /\ dirty' = [dirty EXCEPT ![p] = TRUE]
  /\ UNCHANGED <<temps, puts, accepted, id, mine, found, suffix>>

\* Any call of the loader fails, for want of a free name or of the file too:
\* the whole load does, and what it has quarantined is reported to nobody.
LoadFails(p) ==
  /\ pc[p] \in Loading
  /\ Return(p)
  /\ UNCHANGED <<dir, past, temps, puts, accepted>>

\* Only the journals of other transactions keep the gate shut.
GateOpens(p) == found[p] = {}

SyncLoad(p) ==
  /\ pc[p] = "syncLoad"
  /\ IF dirty[p] THEN Synced ELSE UNCHANGED past
  /\ \/ /\ GateOpens(p)
        /\ pc' = [pc EXCEPT ![p] = "opened"]
        /\ dirty' = [dirty EXCEPT ![p] = FALSE]
        /\ suffix' = [suffix EXCEPT ![p] = Min(Suffixes)]
        /\ UNCHANGED <<mine, id, todo, found, unseen>>
     \/ ~GateOpens(p) /\ Return(p)
  /\ UNCHANGED <<dir, temps, puts, accepted>>

Answered(p) ==
  /\ pc[p] = "opened"
  /\ Return(p)
  /\ UNCHANGED <<dir, past, temps, puts, accepted>>

-----------------------------------------------------------------------------
(* Damage, kills and power losses                                          *)

\* A journal in place is damaged, or another version of NovaRay puts its own.
Damage(t) ==
  /\ dir[t].json # 0 /\ puts < MaxPuts
  /\ puts' = puts + 1
  /\ Change(t, [dir[t] EXCEPT !.json = 0], None)
  /\ Void(t)
  /\ UNCHANGED <<temps, pc, memory>>

Orphaned(P) == {IF x \in P THEN None ELSE x : x \in temps}

Killed(p) ==
  /\ pc[p] # "idle"
  /\ Return(p)
  /\ temps' = Orphaned({p})
  /\ UNCHANGED <<dir, past, puts, accepted>>

PowerLoss ==
  /\ \E d \in [Ids -> UNION {past[t] \cup {dir[t]} : t \in Ids}] :
       (\A t \in Ids : d[t] \in past[t] \cup {dir[t]}) /\ dir' = d
  /\ Synced
  /\ temps' = Orphaned(Procs)
  /\ pc' = [p \in Procs |-> "idle"]
  /\ id' = [p \in Procs |-> Min(Ids)]
  /\ mine' = [p \in Procs |-> 0]
  /\ todo' = [p \in Procs |-> {}]
  /\ found' = [p \in Procs |-> {}]
  /\ suffix' = [p \in Procs |-> Min(Suffixes)]
  /\ dirty' = [p \in Procs |-> FALSE]
  /\ unseen' = [p \in Procs |-> {}]
  /\ UNCHANGED <<puts, accepted>>

Writes(p) ==
  \/ \E t \in Ids : WriteTemp(p, t) \/ Clear(p, t)
  \/ WriteFails(p) \/ Rename(p) \/ SyncWrite(p) \/ SyncClear(p)
Loads(p) ==
  \/ \E t \in Ids : Load(p, t) \/ LoadNothing(p, t)
  \/ CleanupFails(p) \/ List(p) \/ Read(p) \/ NextQuarantinePath(p) \/ Quarantine(p)
  \/ LoadFails(p) \/ SyncLoad(p) \/ Answered(p)

Next ==
  \/ \E p \in Procs : Writes(p) \/ Loads(p) \/ Killed(p)
  \/ \E t \in Ids : Damage(t)
  \/ PowerLoss

Spec == Init /\ [][Next]_vars

Symmetry == Permutations(Procs)

-----------------------------------------------------------------------------
(* Properties                                                              *)

TypeOK ==
  /\ dir \in [Ids -> Slots] /\ past \in [Ids -> SUBSET Slots]
  /\ temps \subseteq Procs \cup {None} /\ puts \in 0..MaxPuts
  /\ accepted \in [Ids -> 0..MaxPuts]
  /\ pc \in [Procs -> Steps] /\ id \in [Procs -> Ids] /\ mine \in [Procs -> 0..MaxPuts]
  /\ todo \in [Procs -> SUBSET Ids] /\ found \in [Procs -> SUBSET Ids]
  /\ suffix \in [Procs -> Suffixes] /\ dirty \in [Procs -> BOOLEAN]
  /\ unseen \in [Procs -> SUBSET Ids]

Holds(slot, v) == \E f \in {slot.json} \cup {slot.invalid[n] : n \in Suffixes} :
                    f # None /\ f >= v

\* A journal whose write returned Ok and that nobody cleared or damaged is in
\* the directory, under its name or in quarantine, unless a later one took its
\* place, and stays there after a power loss, whatever other writers and loaders
\* do meanwhile and whatever fails.
NothingLost == \A t \in Ids : accepted[t] > 0 =>
  \A slot \in past[t] \cup {dir[t]} : Holds(slot, accepted[t])

\* The gate opens over an accepted journal of another transaction only if that
\* journal has been quarantined, was changed by others while the gate was reading,
\* or a stat of it or of the directory failed, which the loader takes for its
\* absence (recovery_journal.rs:302, 314).
GateSees == \A p \in Procs : pc[p] = "opened" =>
  \A t \in Ids \ ({id[p]} \cup unseen[p]) : accepted[t] > 0 =>
    \E n \in Suffixes : dir[t].invalid[n] # None /\ dir[t].invalid[n] >= accepted[t]
=============================================================================
