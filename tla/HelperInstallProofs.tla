------------------------- MODULE HelperInstallProofs -------------------------
(***************************************************************************)
(* The invariants of HelperInstall, for every set of contents. The         *)
(* inductive invariant says what a plan has done by the time it is in a    *)
(* given call (Shape, Progress), what a plan begun on an empty machine can *)
(* have left by then (CleanRun), and, unless a helper was written over or  *)
(* an error about the definition or the job ignored, that a definition has *)
(* a whole helper and that a plan touches files only while there is no job *)
(* (Backing, Busy).                                                        *)
(***************************************************************************)
EXTENDS HelperInstall, TLAPS

Whole == [data |-> "whole", set |-> TRUE]

Shape ==
    /\ pc \in {"idle", "preflight", "authorize"} => done = 0
    /\ pc = "copying" => plan = InstallOrder /\ done = 0
    /\ pc = "writing" => plan = InstallOrder /\ done = 1
    /\ pc = "undo" => plan = InstallOrder

Progress ==
    /\ plan = InstallOrder /\ pc \in {"authorize", "apply", "copying", "writing"} =>
           fd = expected
    /\ plan = InstallOrder /\ done >= 1 => helper = [data |-> expected, set |-> TRUE]
    /\ plan = InstallOrder /\ done = 2 => plist = Whole
    /\ plan = UninstallOrder /\ done >= 1 => ~loaded
    /\ plan = UninstallOrder /\ done = 2 => plist = Absent

CleanRun ==
    clean /\ plan = InstallOrder /\ pc # "idle" =>
        /\ helper # Absent => pc = "copying" \/ done >= 1 \/ "helper" \in slips
        /\ plist # Absent => pc = "writing" \/ done = 2 \/ "plist" \in slips
        /\ loaded => "job" \in slips

Excused == over \/ "plist" \in slips \/ "job" \in slips

Backing ==
    ~Excused =>
        /\ loaded => plist.data = "whole" /\ helper.data \in Contents
        /\ plist # Absent => helper.data \in Contents

Busy ==
    ~Excused /\ plan = InstallOrder =>
        /\ pc \in {"copying", "writing", "undo"} \/ done >= 1 => ~loaded
        /\ pc = "copying" => plist = Absent
        /\ done = 1 /\ pc \in {"apply", "undo"} => plist = Absent

IInv ==
    /\ TypeOK /\ Shape /\ Progress /\ CompletedMeansDone
    /\ CleanRun /\ FailureAccounted /\ Backing /\ Busy

(***************************************************************************)
(* Where in its plan an executor is that makes a given call.               *)
(***************************************************************************)
LEMMA Orders ==
    /\ InstallOrder # UninstallOrder /\ InstallOrder # <<>> /\ UninstallOrder # <<>>
    /\ InstallOrder[1] = "copy" /\ InstallOrder[2] = "plist" /\ InstallOrder[3] = "load"
    /\ UninstallOrder[1] = "unload" /\ UninstallOrder[2] = "remove_plist"
    /\ UninstallOrder[3] = "remove_helper"
<1>1. InstallOrder[1] = "copy" /\ UninstallOrder[1] = "unload"
    BY DEF InstallOrder, UninstallOrder
<1>2. InstallOrder # UninstallOrder
    BY <1>1
<1>3. InstallOrder # <<>> /\ UninstallOrder # <<>>
    BY DEF InstallOrder, UninstallOrder
<1> QED
    BY <1>1, <1>2, <1>3 DEF InstallOrder, UninstallOrder

LEMMA Calls ==
    ASSUME TypeOK, Shape
    PROVE  /\ At("copy") => plan = InstallOrder /\ done = 0
           /\ At("plist") => plan = InstallOrder /\ done = 1
           /\ At("load") => plan = InstallOrder /\ done = 2
           /\ At("unload") => plan = UninstallOrder /\ done = 0
           /\ At("remove_plist") => plan = UninstallOrder /\ done = 1
           /\ At("remove_helper") => plan = UninstallOrder /\ done = 2
           /\ Undone("copy") => plan = InstallOrder /\ done = 1
           /\ Undone("plist") => plan = InstallOrder /\ done = 2
<1>1. done \in 0 .. 2
    BY DEF TypeOK, ControlTypes
<1>2. pc = "apply" => plan = InstallOrder \/ plan = UninstallOrder
    BY DEF TypeOK, PlanTypes, ControlTypes
<1>3. pc = "undo" => plan = InstallOrder /\ done \in 1 .. 2
    BY DEF TypeOK, ControlTypes, Shape
<1> QED
    BY <1>1, <1>2, <1>3, Orders DEF Undone, At

LEMMA ExecuteStep ==
    ASSUME IInv, NEW ops \in Plans, NEW digest \in Contents, NEW asRoot \in BOOLEAN,
           Execute(ops, digest, asRoot)
    PROVE  IInv'
<1>1. pc = "idle"
    BY Calls DEF IInv, Execute
<1>2. TypeOK'
  <2>1. MachineTypes'
    BY <1>1 DEF IInv, TypeOK, MachineTypes, Execute, Valid, machine
  <2>2. PlanTypes'
    BY <1>1 DEF IInv, TypeOK, PlanTypes, Execute, Return, Valid
  <2>3. ControlTypes'
    BY <1>1, Orders DEF IInv, TypeOK, ControlTypes, Execute, Return, Valid
  <2>4. HistoryTypes'
    BY <1>1 DEF IInv, TypeOK, HistoryTypes, Nothing, Execute, Valid
  <2> QED
    BY <2>1, <2>2, <2>3, <2>4 DEF TypeOK
<1>3. Shape'
    BY <1>1
    DEF IInv, TypeOK, Shape, Execute, Return, Valid
<1>4. Progress'
    BY <1>1
    DEF IInv, TypeOK, Shape, Progress, Execute, Return, Valid
<1>5. CompletedMeansDone'
    BY <1>1
    DEF IInv, TypeOK, CompletedMeansDone, Execute, Return, Valid
<1>6. CleanRun'
    BY <1>1
    DEF IInv, TypeOK, CleanRun, Nothing, Execute, Valid, machine
<1>7. FailureAccounted'
    BY <1>1
    DEF IInv, TypeOK, FailureAccounted, Execute, Return, Valid
<1>8. Backing'
    BY <1>1
    DEF IInv, TypeOK, Backing, Excused, Nothing, Execute, Valid, machine
<1>9. Busy'
    BY <1>1
    DEF IInv, TypeOK, Shape, Backing, Busy, Excused, Execute, Return, Valid
<1> QED
    BY <1>2, <1>3, <1>4, <1>5, <1>6, <1>7, <1>8, <1>9 DEF IInv

LEMMA PreflightStep ==
    ASSUME IInv, Preflight
    PROVE  IInv'
<1>2. TypeOK'
  <2>1. MachineTypes'
    BY DEF IInv, TypeOK, MachineTypes, Preflight, SourceVerified, machine
  <2>2. PlanTypes'
    BY DEF IInv, TypeOK, PlanTypes, Preflight, SourceVerified, Return
  <2>3. ControlTypes'
    BY DEF IInv, TypeOK, ControlTypes, Preflight, SourceVerified, Return
  <2>4. HistoryTypes'
    BY DEF IInv, TypeOK, HistoryTypes, Preflight, SourceVerified, history
  <2> QED
    BY <2>1, <2>2, <2>3, <2>4 DEF TypeOK
<1>3. Shape'
    BY
    DEF IInv, TypeOK, PlanTypes, ControlTypes, Shape, Preflight, SourceVerified,
       Return, machine, history
<1>4. Progress'
    BY Orders
    DEF IInv, TypeOK, Progress, Preflight, SourceVerified, Return, machine
<1>5. CompletedMeansDone'
    BY
    DEF IInv, TypeOK, MachineTypes, PlanTypes, ControlTypes, HistoryTypes, Shape,
       Progress, CompletedMeansDone, Nothing, Whole, Preflight, SourceVerified,
       Return, machine, history
<1>6. CleanRun'
    BY
    DEF IInv, TypeOK, MachineTypes, PlanTypes, ControlTypes, HistoryTypes, Shape,
       CleanRun, Nothing, Preflight, SourceVerified, Return, machine, history
<1>7. FailureAccounted'
    BY
    DEF IInv, TypeOK, MachineTypes, PlanTypes, ControlTypes, HistoryTypes, Shape,
       CleanRun, FailureAccounted, Preflight, SourceVerified, Return, machine, history
<1>8. Backing'
    BY
    DEF IInv, TypeOK, MachineTypes, PlanTypes, ControlTypes, HistoryTypes, Shape,
       Progress, Backing, Busy, Excused, Nothing, Whole, Absent, Preflight,
       SourceVerified, Return, machine, history
<1>9. Busy'
    BY
    DEF IInv, TypeOK, MachineTypes, PlanTypes, ControlTypes, HistoryTypes, Shape,
       Progress, Backing, Busy, Excused, Nothing, Preflight, SourceVerified, Return,
       machine, history
<1> QED
    BY <1>2, <1>3, <1>4, <1>5, <1>6, <1>7, <1>8, <1>9 DEF IInv

LEMMA EnsureAuthorizedStep ==
    ASSUME IInv, EnsureAuthorized
    PROVE  IInv'
<1>2. TypeOK'
  <2>1. MachineTypes'
    BY DEF IInv, TypeOK, MachineTypes, EnsureAuthorized, machine
  <2>2. PlanTypes'
    BY DEF IInv, TypeOK, PlanTypes, EnsureAuthorized, Return
  <2>3. ControlTypes'
    BY DEF IInv, TypeOK, ControlTypes, EnsureAuthorized, Return
  <2>4. HistoryTypes'
    BY DEF IInv, TypeOK, HistoryTypes, EnsureAuthorized, history
  <2> QED
    BY <2>1, <2>2, <2>3, <2>4 DEF TypeOK
<1>3. Shape'
    BY
    DEF IInv, TypeOK, PlanTypes, ControlTypes, Shape, EnsureAuthorized, Return,
       machine, history
<1>4. Progress'
    BY
    DEF IInv, TypeOK, PlanTypes, ControlTypes, Shape, Progress, EnsureAuthorized,
       Return, machine, history
<1>5. CompletedMeansDone'
    BY
    DEF IInv, TypeOK, MachineTypes, PlanTypes, ControlTypes, HistoryTypes, Shape,
       Progress, CompletedMeansDone, Nothing, Whole, EnsureAuthorized, Return,
       machine, history
<1>6. CleanRun'
    BY
    DEF IInv, TypeOK, MachineTypes, PlanTypes, ControlTypes, HistoryTypes, Shape,
       CleanRun, Nothing, EnsureAuthorized, Return, machine, history
<1>7. FailureAccounted'
    BY
    DEF IInv, TypeOK, MachineTypes, PlanTypes, ControlTypes, HistoryTypes, Shape,
       CleanRun, FailureAccounted, EnsureAuthorized, Return, machine, history
<1>8. Backing'
    BY
    DEF IInv, TypeOK, MachineTypes, PlanTypes, ControlTypes, HistoryTypes, Shape,
       Progress, Backing, Busy, Excused, Nothing, Whole, Absent, EnsureAuthorized,
       Return, machine, history
<1>9. Busy'
    BY
    DEF IInv, TypeOK, MachineTypes, PlanTypes, ControlTypes, HistoryTypes, Shape,
       Progress, Backing, Busy, Excused, Nothing, EnsureAuthorized, Return, machine,
       history
<1> QED
    BY <1>2, <1>3, <1>4, <1>5, <1>6, <1>7, <1>8, <1>9 DEF IInv

LEMMA OpenHelperStep ==
    ASSUME IInv, OpenHelper
    PROVE  IInv'
<1>1. pc = "apply" /\ plan = InstallOrder /\ done = 0
    BY Calls DEF IInv, OpenHelper, At
<1>2. TypeOK'
  <2>1. MachineTypes'
    BY <1>1 DEF IInv, TypeOK, MachineTypes, OpenHelper, Emptied
  <2>2. PlanTypes'
    BY <1>1 DEF IInv, TypeOK, PlanTypes, OpenHelper, Emptied
  <2>3. ControlTypes'
    BY <1>1 DEF IInv, TypeOK, ControlTypes, OpenHelper, Emptied
  <2>4. HistoryTypes'
    BY <1>1 DEF IInv, TypeOK, HistoryTypes, OpenHelper, Emptied
  <2> QED
    BY <2>1, <2>2, <2>3, <2>4 DEF TypeOK
<1>3. Shape'
    BY <1>1
    DEF IInv, TypeOK, Shape, OpenHelper, Emptied
<1>4. Progress'
    BY <1>1
    DEF IInv, TypeOK, Progress, OpenHelper, Emptied
<1>5. CompletedMeansDone'
    BY <1>1
    DEF IInv, TypeOK, CompletedMeansDone, OpenHelper, Emptied
<1>6. CleanRun'
    BY <1>1
    DEF IInv, TypeOK, CleanRun, OpenHelper, Emptied
<1>7. FailureAccounted'
    BY <1>1
    DEF IInv, TypeOK, FailureAccounted, OpenHelper, Emptied
<1>8. Backing'
    BY <1>1
    DEF IInv, TypeOK, Backing, Excused, OpenHelper, Emptied
<1>9. Busy'
    BY <1>1
    DEF IInv, TypeOK, Backing, Busy, Excused, OpenHelper, Emptied
<1> QED
    BY <1>2, <1>3, <1>4, <1>5, <1>6, <1>7, <1>8, <1>9 DEF IInv

LEMMA CopyHelperStep ==
    ASSUME IInv, CopyHelper
    PROVE  IInv'
<1>1. pc = "copying" /\ plan = InstallOrder /\ done = 0
    BY DEF IInv, Shape, CopyHelper
<1>2. TypeOK'
  <2>1. MachineTypes'
    BY <1>1 DEF IInv, TypeOK, MachineTypes, PlanTypes, CopyHelper
  <2>2. PlanTypes'
    BY <1>1 DEF IInv, TypeOK, PlanTypes, CopyHelper, Applied
  <2>3. ControlTypes'
    BY <1>1 DEF IInv, TypeOK, ControlTypes, CopyHelper, Applied
  <2>4. HistoryTypes'
    BY <1>1 DEF IInv, TypeOK, HistoryTypes, CopyHelper, history
  <2> QED
    BY <2>1, <2>2, <2>3, <2>4 DEF TypeOK
<1>3. Shape'
    BY <1>1
    DEF IInv, TypeOK, Shape, CopyHelper, Applied
<1>4. Progress'
    BY <1>1, Orders
    DEF IInv, TypeOK, Progress, CopyHelper, Applied
<1>5. CompletedMeansDone'
    BY <1>1
    DEF IInv, TypeOK, CompletedMeansDone, CopyHelper, Applied
<1>6. CleanRun'
    BY <1>1
    DEF IInv, TypeOK, CleanRun, CopyHelper, Applied, history
<1>7. FailureAccounted'
    BY <1>1
    DEF IInv, TypeOK, FailureAccounted, CopyHelper, Applied
<1>8. Backing'
    BY <1>1
    DEF IInv, TypeOK, Backing, Busy, Excused, CopyHelper, history
<1>9. Busy'
    BY <1>1
    DEF IInv, TypeOK, Backing, Busy, Excused, CopyHelper, history
<1> QED
    BY <1>2, <1>3, <1>4, <1>5, <1>6, <1>7, <1>8, <1>9 DEF IInv

LEMMA CopyHelperFailsStep ==
    ASSUME IInv, CopyHelperFails
    PROVE  IInv'
<1>1. pc = "copying" /\ plan = InstallOrder /\ done = 0
    BY DEF IInv, Shape, CopyHelperFails
<1>2. TypeOK'
  <2>1. MachineTypes'
    <3>1. helper \in [data : Contents \cup {"none", "partial"}, set : BOOLEAN]
        BY DEF IInv, TypeOK, MachineTypes
    <3>2. fd \in Contents \cup {"none", "partial"}
        BY DEF IInv, TypeOK, PlanTypes
    <3>3. helper' \in [data : Contents \cup {"none", "partial"}, set : BOOLEAN]
      <4>1. CASE helper' = Absent
        BY <4>1 DEF Absent
      <4>2. CASE \E data \in {"partial", fd} : helper' = [helper EXCEPT !.data = data]
        <5>1. PICK data \in Contents \cup {"none", "partial"} : helper' = [helper EXCEPT !.data = data]
            BY <4>2, <3>2
        <5> QED
            BY <5>1, <3>1
      <4> QED
        BY <4>1, <4>2 DEF CopyHelperFails
    <3> QED
        BY <3>3 DEF IInv, TypeOK, MachineTypes, CopyHelperFails
  <2>2. PlanTypes'
    BY <1>1 DEF IInv, TypeOK, PlanTypes, CopyHelperFails, Failed, Return
  <2>3. ControlTypes'
    BY <1>1 DEF IInv, TypeOK, ControlTypes, CopyHelperFails, Failed, Return
  <2>4. HistoryTypes'
    BY <1>1 DEF IInv, TypeOK, HistoryTypes, CopyHelperFails
  <2> QED
    BY <2>1, <2>2, <2>3, <2>4 DEF TypeOK
<1>3. Shape'
    BY <1>1
    DEF IInv, TypeOK, Shape, CopyHelperFails, Failed, Return
<1>4. Progress'
    BY <1>1
    DEF IInv, TypeOK, Progress, CopyHelperFails, Failed, Return
<1>5. CompletedMeansDone'
    BY <1>1
    DEF IInv, TypeOK, CompletedMeansDone, CopyHelperFails, Failed, Return
<1>6. CleanRun'
    BY <1>1
    DEF IInv, TypeOK, CleanRun, CopyHelperFails
<1>7. FailureAccounted'
    BY <1>1
    DEF IInv, TypeOK, CleanRun, FailureAccounted, CopyHelperFails
<1>8. Backing'
    BY <1>1
    DEF IInv, TypeOK, Backing, Busy, Excused, CopyHelperFails
<1>9. Busy'
    BY <1>1
    DEF IInv, TypeOK, Backing, Busy, Excused, CopyHelperFails
<1> QED
    BY <1>2, <1>3, <1>4, <1>5, <1>6, <1>7, <1>8, <1>9 DEF IInv

LEMMA OpenPlistStep ==
    ASSUME IInv, OpenPlist
    PROVE  IInv'
<1>1. pc = "apply" /\ plan = InstallOrder /\ done = 1
    BY Calls DEF IInv, OpenPlist, At
<1>2. TypeOK'
  <2>1. MachineTypes'
    BY <1>1 DEF IInv, TypeOK, MachineTypes, OpenPlist, Emptied
  <2>2. PlanTypes'
    BY <1>1 DEF IInv, TypeOK, PlanTypes, OpenPlist, Emptied
  <2>3. ControlTypes'
    BY <1>1 DEF IInv, TypeOK, ControlTypes, OpenPlist, Emptied
  <2>4. HistoryTypes'
    BY <1>1 DEF IInv, TypeOK, HistoryTypes, OpenPlist, Emptied, history
  <2> QED
    BY <2>1, <2>2, <2>3, <2>4 DEF TypeOK
<1>3. Shape'
    BY <1>1
    DEF IInv, TypeOK, Shape, OpenPlist, Emptied
<1>4. Progress'
    BY <1>1
    DEF IInv, TypeOK, Progress, OpenPlist, Emptied
<1>5. CompletedMeansDone'
    BY <1>1
    DEF IInv, TypeOK, CompletedMeansDone, OpenPlist, Emptied
<1>6. CleanRun'
    BY <1>1
    DEF IInv, TypeOK, CleanRun, OpenPlist, Emptied, history
<1>7. FailureAccounted'
    BY <1>1
    DEF IInv, TypeOK, FailureAccounted, OpenPlist, Emptied
<1>8. Backing'
    BY <1>1
    DEF IInv, TypeOK, PlanTypes, Progress, Backing, Busy, Excused, OpenPlist, Emptied,
       history
<1>9. Busy'
    BY <1>1
    DEF IInv, TypeOK, Backing, Busy, Excused, OpenPlist, Emptied, history
<1> QED
    BY <1>2, <1>3, <1>4, <1>5, <1>6, <1>7, <1>8, <1>9 DEF IInv

LEMMA WriteLaunchdPlistStep ==
    ASSUME IInv, WriteLaunchdPlist
    PROVE  IInv'
<1>1. pc = "writing" /\ plan = InstallOrder /\ done = 1
    BY DEF IInv, Shape, WriteLaunchdPlist
<1>2. TypeOK'
  <2>1. MachineTypes'
    BY <1>1 DEF IInv, TypeOK, MachineTypes, WriteLaunchdPlist
  <2>2. PlanTypes'
    BY <1>1 DEF IInv, TypeOK, PlanTypes, WriteLaunchdPlist, Applied
  <2>3. ControlTypes'
    BY <1>1 DEF IInv, TypeOK, ControlTypes, WriteLaunchdPlist, Applied
  <2>4. HistoryTypes'
    BY <1>1 DEF IInv, TypeOK, HistoryTypes, WriteLaunchdPlist, history
  <2> QED
    BY <2>1, <2>2, <2>3, <2>4 DEF TypeOK
<1>3. Shape'
    BY <1>1
    DEF IInv, TypeOK, Shape, WriteLaunchdPlist, Applied
<1>4. Progress'
  <2>1. pc = "writing" /\ plan = InstallOrder /\ done = 1
      BY DEF IInv, Shape, WriteLaunchdPlist
  <2>2. done' = 2 /\ pc' = "apply" /\ fd' = fd
      BY <2>1 DEF WriteLaunchdPlist, Applied
  <2>3. fd = expected /\ helper = [data |-> expected, set |-> TRUE]
      BY <2>1 DEF IInv, Progress
  <2> QED
      BY <2>1, <2>2, <2>3, Orders DEF Progress, WriteLaunchdPlist, Whole
<1>5. CompletedMeansDone'
    BY <1>1
    DEF IInv, TypeOK, CompletedMeansDone, WriteLaunchdPlist, Applied
<1>6. CleanRun'
    BY <1>1
    DEF IInv, TypeOK, CleanRun, WriteLaunchdPlist, Applied, history
<1>7. FailureAccounted'
    BY <1>1
    DEF IInv, TypeOK, FailureAccounted, WriteLaunchdPlist, Applied
<1>8. Backing'
    BY <1>1
    DEF IInv, TypeOK, PlanTypes, Progress, Backing, Excused, WriteLaunchdPlist
<1>9. Busy'
    BY <1>1
    DEF IInv, TypeOK, Backing, Busy, Excused, WriteLaunchdPlist, Applied, history
<1> QED
    BY <1>2, <1>3, <1>4, <1>5, <1>6, <1>7, <1>8, <1>9 DEF IInv

LEMMA WriteLaunchdPlistFailsStep ==
    ASSUME IInv, WriteLaunchdPlistFails
    PROVE  IInv'
<1>1. pc = "writing" /\ plan = InstallOrder /\ done = 1
    BY DEF IInv, Shape, WriteLaunchdPlistFails
<1>2. TypeOK'
  <2>1. MachineTypes'
    <3>1. plist' \in [data : {"none", "partial", "whole"}, set : BOOLEAN]
      <4>1. CASE plist' = Absent
        BY <4>1 DEF Absent
      <4>2. CASE \E data \in {"partial", "whole"} : plist' = [plist EXCEPT !.data = data]
        BY <4>2 DEF IInv, TypeOK, MachineTypes
      <4> QED
        BY <4>1, <4>2 DEF WriteLaunchdPlistFails
    <3> QED
        BY <3>1 DEF IInv, TypeOK, MachineTypes, WriteLaunchdPlistFails
  <2>2. PlanTypes'
    BY <1>1 DEF IInv, TypeOK, PlanTypes, WriteLaunchdPlistFails, Failed
  <2>3. ControlTypes'
    BY <1>1 DEF IInv, TypeOK, ControlTypes, WriteLaunchdPlistFails, Failed
  <2>4. HistoryTypes'
    BY <1>1 DEF IInv, TypeOK, HistoryTypes, WriteLaunchdPlistFails
  <2> QED
    BY <2>1, <2>2, <2>3, <2>4 DEF TypeOK
<1>3. Shape'
    BY <1>1
    DEF IInv, TypeOK, Shape, WriteLaunchdPlistFails, Failed
<1>4. Progress'
    BY <1>1
    DEF IInv, TypeOK, Progress, WriteLaunchdPlistFails, Failed
<1>5. CompletedMeansDone'
    BY <1>1
    DEF IInv, TypeOK, CompletedMeansDone, WriteLaunchdPlistFails, Failed
<1>6. CleanRun'
    BY <1>1
    DEF IInv, TypeOK, CleanRun, WriteLaunchdPlistFails, Failed
<1>7. FailureAccounted'
    BY <1>1
    DEF IInv, TypeOK, FailureAccounted, WriteLaunchdPlistFails, Failed
<1>8. Backing'
    BY <1>1
    DEF IInv, TypeOK, Backing, Busy, Excused, WriteLaunchdPlistFails
<1>9. Busy'
    BY <1>1
    DEF IInv, TypeOK, Backing, Busy, Excused, WriteLaunchdPlistFails
<1> QED
    BY <1>2, <1>3, <1>4, <1>5, <1>6, <1>7, <1>8, <1>9 DEF IInv

LEMMA CallRefusedStep ==
    ASSUME IInv, CallRefused
    PROVE  IInv'
<1>1. pc = "apply" /\ (plan = InstallOrder => done \in 0 .. 1)
  <2>1. pc = "apply"
      BY DEF CallRefused, At
  <2>2. done \in 0 .. 1 \/ plan = UninstallOrder
      BY Calls DEF IInv, CallRefused
  <2> QED
      BY <2>1, <2>2, Orders
<1>2. TypeOK'
  <2>1. MachineTypes'
    BY <1>1 DEF IInv, TypeOK, MachineTypes, CallRefused, machine
  <2>2. PlanTypes'
    BY <1>1 DEF IInv, TypeOK, PlanTypes, CallRefused, Failed, Return
  <2>3. ControlTypes'
    BY <1>1 DEF IInv, TypeOK, ControlTypes, CallRefused, Failed, Return
  <2>4. HistoryTypes'
    BY <1>1 DEF IInv, TypeOK, HistoryTypes, CallRefused, history
  <2> QED
    BY <2>1, <2>2, <2>3, <2>4 DEF TypeOK
<1>3. Shape'
    BY <1>1
    DEF IInv, TypeOK, Shape, CallRefused, Failed, Return
<1>4. Progress'
    BY <1>1
    DEF IInv, TypeOK, Progress, CallRefused, Failed, Return, machine
<1>5. CompletedMeansDone'
    BY <1>1
    DEF IInv, TypeOK, CompletedMeansDone, CallRefused, Failed, Return
<1>6. CleanRun'
    BY <1>1
    DEF IInv, TypeOK, CleanRun, CallRefused, Failed, machine, history
<1>7. FailureAccounted'
    BY <1>1
    DEF IInv, TypeOK, CleanRun, FailureAccounted, CallRefused, Failed, Return,
       machine, history
<1>8. Backing'
    BY <1>1
    DEF IInv, TypeOK, Backing, Excused, CallRefused, machine, history
<1>9. Busy'
    BY <1>1
    DEF IInv, TypeOK, Backing, Busy, Excused, CallRefused, Failed, Return, machine,
       history
<1> QED
    BY <1>2, <1>3, <1>4, <1>5, <1>6, <1>7, <1>8, <1>9 DEF IInv

LEMMA LoadLaunchDaemonStep ==
    ASSUME IInv, LoadLaunchDaemon
    PROVE  IInv'
<1>1. pc = "apply" /\ plan = InstallOrder /\ done = 2
    BY Calls DEF IInv, LoadLaunchDaemon, At
<1>2. TypeOK'
  <2>1. MachineTypes'
    BY <1>1 DEF IInv, TypeOK, MachineTypes, LoadLaunchDaemon
  <2>2. PlanTypes'
    BY <1>1 DEF IInv, TypeOK, PlanTypes, LoadLaunchDaemon, Applied, Return
  <2>3. ControlTypes'
    BY <1>1 DEF IInv, TypeOK, ControlTypes, LoadLaunchDaemon, Applied, Return
  <2>4. HistoryTypes'
    BY <1>1 DEF IInv, TypeOK, HistoryTypes, LoadLaunchDaemon, history
  <2> QED
    BY <2>1, <2>2, <2>3, <2>4 DEF TypeOK
<1>3. Shape'
    BY <1>1
    DEF IInv, TypeOK, Shape, LoadLaunchDaemon, Applied, Return
<1>4. Progress'
    BY <1>1
    DEF IInv, TypeOK, Progress, LoadLaunchDaemon, Applied, Return
<1>5. CompletedMeansDone'
    BY <1>1
    DEF IInv, TypeOK, Progress, CompletedMeansDone, Whole, LoadLaunchDaemon
<1>6. CleanRun'
    BY <1>1
    DEF IInv, TypeOK, CleanRun, LoadLaunchDaemon, Applied, Return
<1>7. FailureAccounted'
    BY <1>1
    DEF IInv, TypeOK, FailureAccounted, LoadLaunchDaemon, Applied, Return
<1>8. Backing'
    BY <1>1
    DEF IInv, TypeOK, Progress, Backing, Excused, Whole, Absent, LoadLaunchDaemon,
       history
<1>9. Busy'
    BY <1>1
    DEF IInv, TypeOK, Backing, Busy, Excused, LoadLaunchDaemon, Applied, Return
<1> QED
    BY <1>2, <1>3, <1>4, <1>5, <1>6, <1>7, <1>8, <1>9 DEF IInv

LEMMA LoadLaunchDaemonFailsStep ==
    ASSUME IInv, LoadLaunchDaemonFails
    PROVE  IInv'
<1>1. pc = "apply" /\ plan = InstallOrder /\ done = 2
    BY Calls DEF IInv, LoadLaunchDaemonFails, At
<1>2. TypeOK'
  <2>1. MachineTypes'
    BY <1>1 DEF IInv, TypeOK, MachineTypes, LoadLaunchDaemonFails
  <2>2. PlanTypes'
    BY <1>1 DEF IInv, TypeOK, PlanTypes, LoadLaunchDaemonFails, Failed
  <2>3. ControlTypes'
    BY <1>1 DEF IInv, TypeOK, ControlTypes, LoadLaunchDaemonFails, Failed
  <2>4. HistoryTypes'
    BY <1>1 DEF IInv, TypeOK, HistoryTypes, LoadLaunchDaemonFails
  <2> QED
    BY <2>1, <2>2, <2>3, <2>4 DEF TypeOK
<1>3. Shape'
    BY <1>1
    DEF IInv, TypeOK, Shape, LoadLaunchDaemonFails, Failed
<1>4. Progress'
    BY <1>1, Orders
    DEF IInv, TypeOK, Progress, LoadLaunchDaemonFails, Failed
<1>5. CompletedMeansDone'
    BY <1>1
    DEF IInv, TypeOK, CompletedMeansDone, LoadLaunchDaemonFails, Failed
<1>6. CleanRun'
    BY <1>1
    DEF IInv, TypeOK, CleanRun, LoadLaunchDaemonFails, Failed
<1>7. FailureAccounted'
    BY <1>1
    DEF IInv, TypeOK, FailureAccounted, LoadLaunchDaemonFails, Failed
<1>8. Backing'
    BY <1>1
    DEF IInv, TypeOK, Backing, Excused, LoadLaunchDaemonFails
<1>9. Busy'
    BY <1>1
    DEF IInv, TypeOK, Backing, Busy, Excused, LoadLaunchDaemonFails, Failed
<1> QED
    BY <1>2, <1>3, <1>4, <1>5, <1>6, <1>7, <1>8, <1>9 DEF IInv

LEMMA UnloadLaunchDaemonStep ==
    ASSUME IInv, UnloadLaunchDaemon
    PROVE  IInv'
<1>1. pc = "apply" /\ plan = UninstallOrder /\ done = 0
    BY Calls DEF IInv, UnloadLaunchDaemon, At
<1>2. TypeOK'
  <2>1. MachineTypes'
    BY <1>1 DEF IInv, TypeOK, MachineTypes, UnloadLaunchDaemon
  <2>2. PlanTypes'
    BY <1>1 DEF IInv, TypeOK, PlanTypes, UnloadLaunchDaemon, Applied
  <2>3. ControlTypes'
    BY <1>1 DEF IInv, TypeOK, ControlTypes, UnloadLaunchDaemon, Applied
  <2>4. HistoryTypes'
    BY <1>1 DEF IInv, TypeOK, HistoryTypes, UnloadLaunchDaemon, history
  <2> QED
    BY <2>1, <2>2, <2>3, <2>4 DEF TypeOK
<1>3. Shape'
    BY <1>1
    DEF IInv, TypeOK, Shape, UnloadLaunchDaemon, Applied
<1>4. Progress'
    BY <1>1, Orders
    DEF IInv, TypeOK, Progress, UnloadLaunchDaemon, Applied
<1>5. CompletedMeansDone'
    BY <1>1
    DEF IInv, TypeOK, CompletedMeansDone, UnloadLaunchDaemon, Applied
<1>6. CleanRun'
    BY <1>1
    DEF IInv, TypeOK, CleanRun, UnloadLaunchDaemon, history
<1>7. FailureAccounted'
    BY <1>1
    DEF IInv, TypeOK, FailureAccounted, UnloadLaunchDaemon, Applied
<1>8. Backing'
    BY <1>1
    DEF IInv, TypeOK, Backing, Excused, UnloadLaunchDaemon, history
<1>9. Busy'
    BY <1>1, Orders
    DEF IInv, TypeOK, Backing, Busy, Excused, UnloadLaunchDaemon
<1> QED
    BY <1>2, <1>3, <1>4, <1>5, <1>6, <1>7, <1>8, <1>9 DEF IInv

LEMMA UnloadLaunchDaemonFailsStep ==
    ASSUME IInv, UnloadLaunchDaemonFails
    PROVE  IInv'
<1>1. pc = "apply" /\ plan = UninstallOrder /\ done = 0
    BY Calls DEF IInv, UnloadLaunchDaemonFails, At
<1>2. TypeOK'
  <2>1. MachineTypes'
    BY <1>1 DEF IInv, TypeOK, MachineTypes, UnloadLaunchDaemonFails
  <2>2. PlanTypes'
    BY <1>1 DEF IInv, TypeOK, PlanTypes, UnloadLaunchDaemonFails, Failed, Return
  <2>3. ControlTypes'
    BY <1>1 DEF IInv, TypeOK, ControlTypes, UnloadLaunchDaemonFails, Failed, Return
  <2>4. HistoryTypes'
    BY <1>1 DEF IInv, TypeOK, HistoryTypes, UnloadLaunchDaemonFails, history
  <2> QED
    BY <2>1, <2>2, <2>3, <2>4 DEF TypeOK
<1>3. Shape'
    BY <1>1
    DEF IInv, TypeOK, Shape, UnloadLaunchDaemonFails, Failed, Return
<1>4. Progress'
    BY <1>1
    DEF IInv, TypeOK, Progress, UnloadLaunchDaemonFails, Failed, Return
<1>5. CompletedMeansDone'
    BY <1>1
    DEF IInv, TypeOK, CompletedMeansDone, UnloadLaunchDaemonFails, Failed, Return
<1>6. CleanRun'
    BY <1>1
    DEF IInv, TypeOK, CleanRun, UnloadLaunchDaemonFails, Failed, Return
<1>7. FailureAccounted'
    BY <1>1, Orders
    DEF IInv, TypeOK, FailureAccounted, UnloadLaunchDaemonFails, Failed, Return
<1>8. Backing'
    BY <1>1
    DEF IInv, TypeOK, Backing, Excused, UnloadLaunchDaemonFails, history
<1>9. Busy'
    BY <1>1
    DEF IInv, TypeOK, Backing, Busy, Excused, UnloadLaunchDaemonFails, Failed, Return
<1> QED
    BY <1>2, <1>3, <1>4, <1>5, <1>6, <1>7, <1>8, <1>9 DEF IInv

LEMMA RemovePlistStep ==
    ASSUME IInv, RemovePlist
    PROVE  IInv'
<1>1. pc = "apply" /\ plan = UninstallOrder /\ done = 1
    BY Calls DEF IInv, RemovePlist, At
<1>2. TypeOK'
  <2>1. MachineTypes'
    BY <1>1 DEF IInv, TypeOK, MachineTypes, Absent, RemovePlist
  <2>2. PlanTypes'
    BY <1>1 DEF IInv, TypeOK, PlanTypes, RemovePlist, Applied
  <2>3. ControlTypes'
    BY <1>1 DEF IInv, TypeOK, ControlTypes, RemovePlist, Applied
  <2>4. HistoryTypes'
    BY <1>1 DEF IInv, TypeOK, HistoryTypes, RemovePlist, history
  <2> QED
    BY <2>1, <2>2, <2>3, <2>4 DEF TypeOK
<1>3. Shape'
    BY <1>1
    DEF IInv, TypeOK, Shape, RemovePlist, Applied
<1>4. Progress'
    BY <1>1, Orders
    DEF IInv, TypeOK, Progress, RemovePlist
<1>5. CompletedMeansDone'
    BY <1>1
    DEF IInv, TypeOK, CompletedMeansDone, RemovePlist, Applied
<1>6. CleanRun'
    BY <1>1
    DEF IInv, TypeOK, CleanRun, RemovePlist, Applied, history
<1>7. FailureAccounted'
    BY <1>1
    DEF IInv, TypeOK, FailureAccounted, RemovePlist, Applied
<1>8. Backing'
    BY <1>1
    DEF IInv, TypeOK, Progress, Backing, Excused, RemovePlist
<1>9. Busy'
    BY <1>1
    DEF IInv, TypeOK, Progress, Backing, Busy, Excused, RemovePlist
<1> QED
    BY <1>2, <1>3, <1>4, <1>5, <1>6, <1>7, <1>8, <1>9 DEF IInv

LEMMA RemoveHelperStep ==
    ASSUME IInv, RemoveHelper
    PROVE  IInv'
<1>1. pc = "apply" /\ plan = UninstallOrder /\ done = 2
    BY Calls DEF IInv, RemoveHelper, At
<1>2. TypeOK'
  <2>1. MachineTypes'
    BY <1>1 DEF IInv, TypeOK, MachineTypes, Absent, RemoveHelper
  <2>2. PlanTypes'
    BY <1>1 DEF IInv, TypeOK, PlanTypes, RemoveHelper, Applied, Return
  <2>3. ControlTypes'
    BY <1>1 DEF IInv, TypeOK, ControlTypes, RemoveHelper, Applied, Return
  <2>4. HistoryTypes'
    BY <1>1 DEF IInv, TypeOK, HistoryTypes, RemoveHelper, history
  <2> QED
    BY <2>1, <2>2, <2>3, <2>4 DEF TypeOK
<1>3. Shape'
    BY <1>1
    DEF IInv, TypeOK, Shape, RemoveHelper, Applied, Return
<1>4. Progress'
    BY <1>1
    DEF IInv, TypeOK, Progress, RemoveHelper, Applied, Return
<1>5. CompletedMeansDone'
    BY <1>1, Orders
    DEF IInv, TypeOK, Progress, CompletedMeansDone, Nothing, RemoveHelper
<1>6. CleanRun'
    BY <1>1
    DEF IInv, TypeOK, CleanRun, RemoveHelper, Applied, Return
<1>7. FailureAccounted'
    BY <1>1
    DEF IInv, TypeOK, FailureAccounted, RemoveHelper, Applied, Return
<1>8. Backing'
    BY <1>1
    DEF IInv, TypeOK, Progress, Backing, Excused, RemoveHelper
<1>9. Busy'
    BY <1>1
    DEF IInv, TypeOK, Backing, Busy, Excused, RemoveHelper, Applied, Return
<1> QED
    BY <1>2, <1>3, <1>4, <1>5, <1>6, <1>7, <1>8, <1>9 DEF IInv

LEMMA RollbackStep ==
    ASSUME IInv, Rollback
    PROVE  IInv'
<1>1. /\ pc = "undo" /\ plan = InstallOrder
      /\ \/ done = 1 /\ helper' = Absent /\ plist' = plist
         \/ done = 2 /\ plist' = Absent /\ helper' = helper
    BY Calls DEF IInv, Rollback, Undone
<1>2. TypeOK'
  <2>1. MachineTypes'
    <3>1. Absent \in [data : Contents \cup {"none", "partial"}, set : BOOLEAN]
        BY DEF Absent
    <3>2. Absent \in [data : {"none", "partial", "whole"}, set : BOOLEAN]
        BY DEF Absent
    <3>3. (helper' = Absent \/ helper' = helper) /\ (plist' = Absent \/ plist' = plist)
        BY DEF Rollback
    <3>4. loaded' = loaded
        BY DEF Rollback
    <3> QED
        BY <3>1, <3>2, <3>3, <3>4 DEF IInv, TypeOK, MachineTypes
  <2>2. PlanTypes'
    BY <1>1 DEF IInv, TypeOK, PlanTypes, Rollback, Return
  <2>3. ControlTypes'
    BY <1>1 DEF IInv, TypeOK, ControlTypes, Rollback, Return
  <2>4. HistoryTypes'
    BY <1>1 DEF IInv, TypeOK, HistoryTypes, Rollback, history
  <2> QED
    BY <2>1, <2>2, <2>3, <2>4 DEF TypeOK
<1>3. Shape'
    BY <1>1
    DEF IInv, TypeOK, Shape, Rollback, Return
<1>4. Progress'
    BY <1>1
    DEF IInv, TypeOK, Progress, Rollback, Return
<1>5. CompletedMeansDone'
    BY <1>1
    DEF IInv, TypeOK, CompletedMeansDone, Rollback, Return
<1>6. CleanRun'
    BY <1>1
    DEF IInv, TypeOK, CleanRun, Rollback, history
<1>7. FailureAccounted'
    BY <1>1
    DEF IInv, TypeOK, CleanRun, FailureAccounted, Rollback, history
<1>8. Backing'
    BY <1>1
    DEF IInv, TypeOK, Backing, Busy, Excused, Rollback, history
<1>9. Busy'
    BY <1>1
    DEF IInv, TypeOK, Backing, Busy, Excused, Rollback, history
<1> QED
    BY <1>2, <1>3, <1>4, <1>5, <1>6, <1>7, <1>8, <1>9 DEF IInv

LEMMA RollbackFailsStep ==
    ASSUME IInv, RollbackFails
    PROVE  IInv'
<1>1. pc = "undo" /\ plan = InstallOrder
    BY DEF IInv, Shape, RollbackFails
<1>2. TypeOK'
  <2>1. MachineTypes'
    BY <1>1 DEF IInv, TypeOK, MachineTypes, RollbackFails, machine
  <2>2. PlanTypes'
    BY <1>1 DEF IInv, TypeOK, PlanTypes, RollbackFails, Return
  <2>3. ControlTypes'
    BY <1>1 DEF IInv, TypeOK, ControlTypes, RollbackFails, Return
  <2>4. HistoryTypes'
    BY <1>1 DEF IInv, TypeOK, HistoryTypes, RollbackFails, history
  <2> QED
    BY <2>1, <2>2, <2>3, <2>4 DEF TypeOK
<1>3. Shape'
    BY <1>1
    DEF IInv, TypeOK, Shape, RollbackFails, Return
<1>4. Progress'
    BY <1>1
    DEF IInv, TypeOK, Progress, RollbackFails, Return
<1>5. CompletedMeansDone'
    BY <1>1
    DEF IInv, TypeOK, CompletedMeansDone, RollbackFails, Return
<1>6. CleanRun'
    BY <1>1
    DEF IInv, TypeOK, CleanRun, RollbackFails, Return
<1>7. FailureAccounted'
    BY <1>1
    DEF IInv, TypeOK, FailureAccounted, RollbackFails, Return
<1>8. Backing'
    BY <1>1
    DEF IInv, TypeOK, Backing, Excused, RollbackFails, machine, history
<1>9. Busy'
    BY <1>1
    DEF IInv, TypeOK, Backing, Busy, Excused, RollbackFails, Return
<1> QED
    BY <1>2, <1>3, <1>4, <1>5, <1>6, <1>7, <1>8, <1>9 DEF IInv

LEMMA SourceReplacedStep ==
    ASSUME IInv, SourceReplaced
    PROVE  IInv'
<1>2. TypeOK'
  <2>1. MachineTypes'
    BY DEF IInv, TypeOK, MachineTypes, SourceReplaced, machine
  <2>2. PlanTypes'
    BY DEF IInv, TypeOK, PlanTypes, SourceReplaced
  <2>3. ControlTypes'
    BY DEF IInv, TypeOK, ControlTypes, SourceReplaced
  <2>4. HistoryTypes'
    BY DEF IInv, TypeOK, HistoryTypes, SourceReplaced, history
  <2> QED
    BY <2>1, <2>2, <2>3, <2>4 DEF TypeOK
<1>3. Shape'
    BY
    DEF IInv, TypeOK, PlanTypes, ControlTypes, Shape, SourceReplaced, machine, history
<1>4. Progress'
    BY
    DEF IInv, TypeOK, PlanTypes, ControlTypes, Shape, Progress, SourceReplaced,
       machine, history
<1>5. CompletedMeansDone'
    BY
    DEF IInv, TypeOK, MachineTypes, PlanTypes, ControlTypes, HistoryTypes, Shape,
       Progress, CompletedMeansDone, Nothing, Whole, SourceReplaced, machine, history
<1>6. CleanRun'
    BY
    DEF IInv, TypeOK, MachineTypes, PlanTypes, ControlTypes, HistoryTypes, Shape,
       CleanRun, Nothing, SourceReplaced, machine, history
<1>7. FailureAccounted'
    BY
    DEF IInv, TypeOK, MachineTypes, PlanTypes, ControlTypes, HistoryTypes, Shape,
       CleanRun, FailureAccounted, SourceReplaced, machine, history
<1>8. Backing'
    BY
    DEF IInv, TypeOK, MachineTypes, PlanTypes, ControlTypes, HistoryTypes, Shape,
       Progress, Backing, Busy, Excused, Nothing, Whole, Absent, SourceReplaced,
       machine, history
<1>9. Busy'
    BY
    DEF IInv, TypeOK, MachineTypes, PlanTypes, ControlTypes, HistoryTypes, Shape,
       Progress, Backing, Busy, Excused, Nothing, SourceReplaced, machine, history
<1> QED
    BY <1>2, <1>3, <1>4, <1>5, <1>6, <1>7, <1>8, <1>9 DEF IInv

LEMMA KilledStep ==
    ASSUME IInv, Killed
    PROVE  IInv'
<1>2. TypeOK'
  <2>1. MachineTypes'
    BY DEF IInv, TypeOK, MachineTypes, Killed, machine
  <2>2. PlanTypes'
    BY DEF IInv, TypeOK, PlanTypes, Killed, Return
  <2>3. ControlTypes'
    BY DEF IInv, TypeOK, ControlTypes, Killed, Return
  <2>4. HistoryTypes'
    BY DEF IInv, TypeOK, HistoryTypes, Killed, history
  <2> QED
    BY <2>1, <2>2, <2>3, <2>4 DEF TypeOK
<1>3. Shape'
    BY
    DEF IInv, TypeOK, PlanTypes, ControlTypes, Shape, Killed, Return, machine, history
<1>4. Progress'
    BY
    DEF IInv, TypeOK, PlanTypes, ControlTypes, Shape, Progress, Killed, Return,
       machine, history
<1>5. CompletedMeansDone'
    BY
    DEF IInv, TypeOK, MachineTypes, PlanTypes, ControlTypes, HistoryTypes, Shape,
       Progress, CompletedMeansDone, Nothing, Whole, Killed, Return, machine, history
<1>6. CleanRun'
    BY
    DEF IInv, TypeOK, MachineTypes, PlanTypes, ControlTypes, HistoryTypes, Shape,
       CleanRun, Nothing, Killed, Return, machine, history
<1>7. FailureAccounted'
    BY
    DEF IInv, TypeOK, MachineTypes, PlanTypes, ControlTypes, HistoryTypes, Shape,
       CleanRun, FailureAccounted, Killed, Return, machine, history
<1>8. Backing'
    BY
    DEF IInv, TypeOK, MachineTypes, PlanTypes, ControlTypes, HistoryTypes, Shape,
       Progress, Backing, Busy, Excused, Nothing, Whole, Absent, Killed, Return,
       machine, history
<1>9. Busy'
    BY
    DEF IInv, TypeOK, MachineTypes, PlanTypes, ControlTypes, HistoryTypes, Shape,
       Progress, Backing, Busy, Excused, Nothing, Killed, Return, machine, history
<1> QED
    BY <1>2, <1>3, <1>4, <1>5, <1>6, <1>7, <1>8, <1>9 DEF IInv

LEMMA RestartStep ==
    ASSUME IInv, Restart
    PROVE  IInv'
<1>a. /\ plist = Whole => loaded'
      /\ plist = Absent => ~loaded'
    BY DEF Restart, Whole, Absent
<1>b. UNCHANGED <<helper, plist, plan, expected, clean, slips>>
    BY DEF Restart, history
<1>c. pc' = "idle" /\ result' # "killed" => pc = "idle" /\ result' = result
    BY DEF Restart, Return
<1>2. TypeOK'
  <2>1. MachineTypes'
    BY DEF IInv, TypeOK, MachineTypes, Restart
  <2>2. PlanTypes'
    BY DEF IInv, TypeOK, PlanTypes, Restart, Return
  <2>3. ControlTypes'
    BY DEF IInv, TypeOK, ControlTypes, Restart, Return
  <2>4. HistoryTypes'
    BY DEF IInv, TypeOK, HistoryTypes, Restart, history
  <2> QED
    BY <2>1, <2>2, <2>3, <2>4 DEF TypeOK
<1>3. Shape'
    BY
    DEF IInv, TypeOK, PlanTypes, ControlTypes, Shape, Restart, Return, history
<1>4. Progress'
    BY
    DEF IInv, TypeOK, PlanTypes, ControlTypes, Shape, Progress, Restart, Return, history
<1>5. CompletedMeansDone'
  <2> SUFFICES ASSUME pc' = "idle", result' = "completed"
               PROVE  IF plan = InstallOrder
                      THEN /\ helper = [data |-> expected, set |-> TRUE]
                           /\ plist = Whole
                           /\ loaded'
                      ELSE helper = Absent /\ plist = Absent /\ ~loaded'
    BY <1>b DEF CompletedMeansDone, Nothing, Whole
  <2>1. pc = "idle" /\ result = "completed"
    BY <1>c
  <2> QED
    BY <2>1, <1>a DEF IInv, CompletedMeansDone, Nothing, Whole
<1>6. CleanRun'
    BY
    DEF IInv, TypeOK, MachineTypes, PlanTypes, ControlTypes, HistoryTypes, Shape,
       CleanRun, Nothing, Restart, Return, history
<1>7. FailureAccounted'
  <2> SUFFICES ASSUME pc' = "idle", result' = "failed", clean
               PROVE  /\ helper # Absent => "helper" \in slips
                      /\ plist # Absent => "plist" \in slips
                      /\ loaded' => slips \cap {"plist", "job"} # {}
    BY <1>b DEF FailureAccounted
  <2>1. pc = "idle" /\ result = "failed"
    BY <1>c
  <2> QED
    BY <2>1, <1>a DEF IInv, FailureAccounted
<1>8. Backing'
    BY
    DEF IInv, TypeOK, MachineTypes, PlanTypes, ControlTypes, HistoryTypes, Shape,
       Progress, Backing, Busy, Excused, Nothing, Whole, Absent, Restart, Return,
       history
<1>9. Busy'
    BY
    DEF IInv, TypeOK, MachineTypes, PlanTypes, ControlTypes, HistoryTypes, Shape,
       Progress, Backing, Busy, Excused, Nothing, Restart, Return, history
<1> QED
    BY <1>2, <1>3, <1>4, <1>5, <1>6, <1>7, <1>8, <1>9 DEF IInv

LEMMA Inductive == IInv /\ [Next]_vars => IInv'
<1> SUFFICES ASSUME IInv, [Next]_vars PROVE IInv'
    OBVIOUS
<1>1. CASE UNCHANGED vars
    BY <1>1 DEF IInv, TypeOK, MachineTypes, PlanTypes, ControlTypes, HistoryTypes,
       Shape, Progress, CompletedMeansDone, CleanRun,
       FailureAccounted, Backing, Busy, Excused, Nothing, vars
<1>2. CASE \E ops \in Plans, digest \in Contents, asRoot \in BOOLEAN :
              Execute(ops, digest, asRoot)
    BY <1>2, ExecuteStep
<1> QED
    BY <1>1, <1>2, PreflightStep, EnsureAuthorizedStep, OpenHelperStep,
       CopyHelperStep, CopyHelperFailsStep, OpenPlistStep, WriteLaunchdPlistStep,
       WriteLaunchdPlistFailsStep, CallRefusedStep, LoadLaunchDaemonStep,
       LoadLaunchDaemonFailsStep, UnloadLaunchDaemonStep, UnloadLaunchDaemonFailsStep,
       RemovePlistStep, RemoveHelperStep, RollbackStep, RollbackFailsStep,
       SourceReplacedStep, KilledStep, RestartStep DEF Next

LEMMA Initial == Init => IInv
<1> SUFFICES ASSUME Init PROVE IInv
    OBVIOUS
<1>1. TypeOK
  <2>1. MachineTypes
      BY DEF Init, MachineTypes, Absent
  <2>2. PlanTypes
      BY DEF Init, PlanTypes
  <2>3. ControlTypes
      BY DEF Init, ControlTypes
  <2>4. HistoryTypes
      BY DEF Init, HistoryTypes
  <2> QED
      BY <2>1, <2>2, <2>3, <2>4 DEF TypeOK
<1>2. Shape /\ Progress
    BY DEF Init, Shape, Progress
<1>3. CompletedMeansDone /\ CleanRun /\ FailureAccounted
    BY DEF Init, CompletedMeansDone, CleanRun, FailureAccounted
<1>4. Backing /\ Busy
    BY DEF Init, Backing, Busy
<1> QED
    BY <1>1, <1>2, <1>3, <1>4 DEF IInv

LEMMA Invariance == Spec => []IInv
    BY Initial, Inductive, PTL DEF Spec

(* Every state has its type; done stays within the plan, also while a      *)
(* rollback counts it down.                                                *)
THEOREM TypeCorrect == Spec => []TypeOK
<1>1. IInv => TypeOK
    BY DEF IInv
<1> QED
    BY <1>1, Invariance, PTL

(* What execute() reports as completed is there, or gone, as a whole.      *)
THEOREM CompletedHolds == Spec => []CompletedMeansDone
<1>1. IInv => CompletedMeansDone
    BY DEF IInv
<1> QED
    BY <1>1, Invariance, PTL

(* A failed, rolled back install on an empty machine leaves only what an   *)
(* ignored error left.                                                     *)
THEOREM AccountedHolds == Spec => []FailureAccounted
<1>1. IInv => FailureAccounted
    BY DEF IInv
<1> QED
    BY <1>1, Invariance, PTL

(* A loaded job has its definition and a whole helper wherever a plan      *)
(* stops.                                                                  *)
THEOREM BackedHolds == Spec => []JobBacked
<1>1. IInv => JobBacked
    BY DEF IInv, Backing, Excused, JobBacked
<1> QED
    BY <1>1, Invariance, PTL
=============================================================================
