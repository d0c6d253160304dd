---------------------------- MODULE WorkloadProofs ----------------------------
(***************************************************************************)
(* Proofs about Workload, for every set of targets and configs and every   *)
(* bound: the type invariant, and that the primary has pods, refers to     *)
(* copies that exist, and is what was promoted.                            *)
(***************************************************************************)
EXTENDS Workload, TLAPS

-----------------------------------------------------------------------------
(* Types. *)

Tracked == Checked \cup {Absent}
Copies  == [Configs -> Versions \cup {Absent}]
Statuses == [phase : Phases, applied : Hashes \cup {Absent},
             promoted : Hashes \cup {Absent}, tracked : Tracked]
Primaries == [rev : Versions, zero : BOOLEAN, refs : SUBSET Configs,
              own : SUBSET Configs, with : Copies]
Ops == [at : {"idle", "scale", "target", "configs", "copy", "phase"}, to : Phases,
        seen : Targets, refs : SUBSET Configs, todo : SUBSET Configs]

Types ==
  /\ target \in Targets /\ config \in Copies /\ copies \in Copies
  /\ primary \in {Absent} \cup Primaries
  /\ status \in Statuses /\ op \in Ops
  /\ edits \in 0..MaxEdits /\ faults \in 0..MaxFaults
  /\ workload \in Workloads

\* The type invariant is the one of the module, and a workload that was chosen.
LEMMA TypesAreOK == Types => TypeOK
BY DEF TypeOK, Types, Copies, Primaries, Statuses, Tracked, Ops

\* The user's versions are numbered by the edits.
LEMMA VersionsAreEdits ==
  /\ 0 \in Versions /\ Versions \subseteq Int /\ Absent \notin Versions
  /\ \A e \in 0..MaxEdits : e < MaxEdits => e + 1 \in Versions /\ e + 1 \in 0..MaxEdits
BY ConstantsAssumption DEF Versions

\* A primary is not the absence of one, nor is a hash.
LEMMA ObjectsAreNotAbsent == Absent \notin Primaries /\ Absent \notin Hashes
<1>1. Versions \subseteq Int
  BY VersionsAreEdits
<1>2. Copies \subseteq [Configs -> Int \cup {Absent}]
  BY <1>1 DEF Copies
<1>3. Primaries \subseteq [rev : Int, zero : BOOLEAN, refs : SUBSET Configs,
                           own : SUBSET Configs, with : [Configs -> Int \cup {Absent}]]
  BY <1>1, <1>2 DEF Primaries
<1>4. Hashes \subseteq [rev : Int, selector : BOOLEAN]
  BY <1>1 DEF Hashes
<1>5. QED
  BY <1>3, <1>4, ConstantsAssumption

\* The tracker finds configs of the target, at versions they have.
LEMMA RefsType ==
  ASSUME Types, NEW failed
  PROVE  /\ Refs(failed) \subseteq Configs
         /\ \A c \in Refs(failed) : config[c] \in Versions
         /\ Checksums(failed) \in Tracked
<1>1. Refs(failed) \subseteq Configs /\ \A c \in Refs(failed) : config[c] \in Versions
  BY DEF Types, Targets, Copies, Refs
<1>2. Checksums(failed) \in [Refs(failed) -> Versions]
  BY <1>1 DEF Checksums
<1>3. QED
  BY <1>1, <1>2 DEF Tracked, Checked

\* The hash of a spec has its revision and no selector.
LEMMA HashType ==
  ASSUME NEW spec \in Targets
  PROVE  Hash(spec) \in Hashes /\ Hash(spec).rev = spec.rev
BY DEF Hash, Hashes, Targets

\* To scale the target changes nothing else of it.
LEMMA ScaledType ==
  ASSUME Types, NEW zero \in BOOLEAN
  PROVE  Scaled(zero) \in Targets /\ Scaled(zero).rev = target.rev
BY DEF Types, Scaled, HasPods, Targets

\* A call that fails is counted.
LEMMA FaultsType ==
  ASSUME Types
  PROVE  /\ CallFails => faults' \in 0..MaxFaults
         /\ \A failed : Read(failed) => faults' \in 0..MaxFaults
BY ConstantsAssumption DEF Types, CallFails, Read

\* The status of a new canary, and no operation.
LEMMA NewType ==
  /\ New \in Statuses /\ New.phase = "" /\ New.applied = Absent /\ New.tracked = Absent
  /\ Idle \in Ops /\ Idle.at = "idle" /\ Idle.to = ""
  /\ Idle.seen.rev = 0 /\ Idle.refs = {} /\ Idle.todo = {}
<1>1. Absent \in Tracked
  BY DEF Tracked
<1>2. New \in Statuses
  BY <1>1 DEF New, Statuses, Phases
<1>3. Idle \in Ops
  BY VersionsAreEdits DEF Idle, Ops, Targets, Phases
<1>4. QED
  BY <1>2, <1>3 DEF New, Idle

\* The types hold in the beginning.
LEMMA TypesInit == Init => Types
<1> SUFFICES ASSUME Init PROVE Types
  OBVIOUS
<1>1. PICK uses \in workload.uses : target = [rev |-> 0, uses |-> uses, zero |-> FALSE]
  BY DEF Init
<1>2. target \in Targets
  BY <1>1, VersionsAreEdits, ConstantsAssumption DEF Init, Targets
<1>3. config \in Copies /\ copies \in Copies
  BY VersionsAreEdits DEF Init, Copies
<1>4. edits \in 0..MaxEdits /\ faults \in 0..MaxFaults
  BY ConstantsAssumption DEF Init
<1>5. QED
  BY <1>2, <1>3, <1>4, NewType DEF Init, Types

-----------------------------------------------------------------------------
(* What the steps do. *)

\* The steps with which an operation begins.
Begins == \/ CreatePrimary \/ Initialized \/ StartRollout \/ Advance
          \/ ShiftTraffic \/ Succeed

\* An operation begins with nothing read, where and when its phases have it.
LEMMA BeginsAre ==
  ASSUME Types, Begins
  PROVE  /\ UNCHANGED <<workload, target, config, primary, copies, status, edits>>
         /\ faults' \in 0..MaxFaults
         /\ op = Idle /\ op' \in Ops
         /\ op'.seen = Idle.seen /\ op'.refs = {} /\ op'.todo = {}
         /\ \/ primary = Absent /\ op'.to = "" /\ op'.at = "target"
            \/ /\ status.phase = "" /\ primary # Absent
               /\ op'.to = "Initialized" /\ op'.at = "target"
            \/ /\ status.phase \in {"Initialized", "Succeeded", "Failed", "Progressing"}
               /\ op'.to \in {"Progressing", "Failed"} /\ op'.at \in {"scale", "target"}
            \/ /\ status.phase = "Progressing"
               /\ op'.to = "Promoting" /\ op'.at = "target"
            \/ /\ status.phase = "Promoting"
               /\ op'.to = "Finalising" /\ op'.at = "phase"
            \/ /\ status.phase = "Finalising"
               /\ op'.to = "Succeeded" /\ op'.at = "scale"
<1>b. ASSUME NEW to \in Phases, NEW call \in {"scale", "target", "phase"}, Begin(to, call)
      PROVE  /\ UNCHANGED <<workload, target, config, primary, copies, status, edits>>
             /\ op = Idle /\ op' \in Ops /\ op'.to = to /\ op'.at = call
             /\ op'.seen = Idle.seen /\ op'.refs = {} /\ op'.todo = {}
  BY <1>b, NewType DEF Begin, Ops
<1>f. Changed \/ Unchanged \/ UNCHANGED faults => faults' \in 0..MaxFaults
  BY FaultsType DEF Changed, Unchanged, Types
<1>1. CASE CreatePrimary
  BY <1>b, <1>f, <1>1 DEF CreatePrimary, Phases
<1>2. CASE Initialized
  BY <1>b, <1>f, <1>2 DEF Initialized, Phases
<1>3. CASE StartRollout
  BY <1>b, <1>f, <1>3 DEF StartRollout, Phases
<1>4. CASE RestartRollout
  BY <1>b, <1>f, <1>4 DEF RestartRollout, Phases
<1>5. CASE Promote
  BY <1>b, <1>f, <1>5 DEF Promote, Phases
<1>6. CASE Rollback
  BY <1>b, <1>f, <1>6 DEF Rollback, Phases
<1>7. CASE ShiftTraffic
  BY <1>b, <1>f, <1>7 DEF ShiftTraffic, Phases
<1>8. CASE Succeed
  BY <1>b, <1>f, <1>8 DEF Succeed, Phases
<1>9. QED
  BY <1>1, <1>2, <1>3, <1>4, <1>5, <1>6, <1>7, <1>8 DEF Begins, Advance

\* The target is scaled; its revision is the same.
LEMMA ScaleIs ==
  ASSUME Types, ScaleTarget
  PROVE  /\ UNCHANGED <<workload, config, primary, copies, status, edits, faults>>
         /\ target' \in Targets /\ target'.rev = target.rev
         /\ op.at = "scale" /\ op' \in Ops
         /\ op'.at = IF op.to = "Succeeded" THEN "phase" ELSE "target"
         /\ op'.to = op.to /\ op'.seen = op.seen
         /\ op'.refs = op.refs /\ op'.todo = op.todo
BY ScaledType DEF ScaleTarget, Types, Ops

\* So it is before the canary is initialized.
LEMMA InitializeIs ==
  ASSUME Types, InitializeTarget
  PROVE  /\ UNCHANGED <<workload, config, primary, copies, status, op, edits, faults>>
         /\ target' \in Targets /\ target'.rev = target.rev
         /\ primary # Absent /\ op = Idle
BY ScaledType DEF InitializeTarget

\* The target is read.
LEMMA ReadTargetIs ==
  ASSUME Types, ReadTarget
  PROVE  /\ UNCHANGED <<workload, target, config, primary, copies, status, edits, faults>>
         /\ op.at = "target" /\ op' \in Ops /\ op'.at = "configs" /\ op'.to = op.to
         /\ op'.seen = target /\ op'.refs = op.refs /\ op'.todo = op.todo
BY DEF ReadTarget, Types, Ops

\* Its configs are read, and all of them are to be copied.
LEMMA ReadConfigsIs ==
  ASSUME Types, ReadConfigs
  PROVE  /\ UNCHANGED <<workload, target, config, primary, copies, status, edits>>
         /\ faults' \in 0..MaxFaults
         /\ op.at = "configs" /\ op.to \in {"", "Promoting"}
         /\ op' \in Ops /\ op'.at = "copy" /\ op'.to = op.to /\ op'.seen = op.seen
         /\ op'.refs = op'.todo
<1>1. PICK failed \in Reads :
        /\ Read(failed)
        /\ op' = [op EXCEPT !.at = "copy", !.refs = Refs(failed), !.todo = Refs(failed)]
  BY DEF ReadConfigs
<1>2. Refs(failed) \subseteq Configs
  BY RefsType
<1>3. QED
  BY <1>1, <1>2, FaultsType DEF ReadConfigs, Types, Ops

\* The status is written for the spec and the configs that were read.
LEMMA SyncIs ==
  ASSUME Types, SyncStatus
  PROVE  /\ UNCHANGED <<workload, target, config, primary, copies, edits>>
         /\ faults' \in 0..MaxFaults
         /\ op.at = "configs" /\ op.to \notin {"", "Promoting"} /\ op' = Idle
         /\ status' \in Statuses /\ status'.phase = op.to
         /\ status'.applied \in Hashes /\ status'.applied.rev = op.seen.rev
         /\ status'.tracked = status.tracked \/
              \E failed : status'.tracked = Checksums(failed)
<1>1. PICK failed \in Reads :
        /\ Read(failed)
        /\ status' = [status EXCEPT !.phase = op.to, !.applied = Hash(op.seen),
                        !.tracked = IF HasPods THEN Checksums(failed) ELSE @]
  BY DEF SyncStatus
<1>2. Hash(op.seen) \in Hashes /\ Hash(op.seen).rev = op.seen.rev
  BY HashType DEF Types, Ops
<1>3. Checksums(failed) \in Tracked
  BY RefsType
<1>4. op.to \in Phases
  BY DEF Types, Ops
<1> HIDE DEF Hash, Checksums
<1>5. /\ status' \in Statuses /\ status'.phase = op.to /\ status'.applied = Hash(op.seen)
      /\ status'.tracked = IF HasPods THEN Checksums(failed) ELSE status.tracked
  BY <1>1, <1>2, <1>3, <1>4 DEF Types, Statuses
<1>6. QED
  BY <1>1, <1>2, <1>5, FaultsType DEF SyncStatus

\* One config is copied, and no longer to do.
LEMMA CopyIs ==
  ASSUME Types, CopyConfig
  PROVE  /\ UNCHANGED <<workload, target, config, primary, status, edits, faults>>
         /\ op.at = "copy" /\ op' \in Ops
         /\ op'.at = "copy" /\ op'.to = op.to /\ op'.seen = op.seen /\ op'.refs = op.refs
         /\ copies' \in Copies
         /\ \E c \in op.todo :
              /\ c \in Configs /\ op'.todo = op.todo \ {c}
              /\ config[c] # Absent /\ copies'[c] = config[c]
              /\ \A d \in Configs \ {c} : copies'[d] = copies[d]
<1>1. PICK c \in op.todo : /\ config[c] # Absent
                           /\ copies' = [copies EXCEPT ![c] = config[c]]
                           /\ op' = [op EXCEPT !.todo = @ \ {c}]
  BY DEF CopyConfig
<1>2. /\ c \in Configs /\ op' \in Ops /\ op'.todo = op.todo \ {c}
      /\ op'.at = op.at /\ op'.to = op.to /\ op'.seen = op.seen /\ op'.refs = op.refs
  BY <1>1 DEF Types, Ops
<1>3. /\ copies' \in Copies /\ copies'[c] = config[c]
      /\ \A d \in Configs \ {c} : copies'[d] = copies[d]
  BY <1>1, <1>2 DEF Types, Copies
<1>4. QED
  BY <1>1, <1>2, <1>3 DEF CopyConfig

\* The primary is written as the target was read.
LEMMA WriteIs ==
  ASSUME Types, WritePrimary
  PROVE  /\ UNCHANGED <<workload, target, config, copies, status, edits, faults>>
         /\ op.at = "copy" /\ op.todo = {}
         /\ primary' \in Primaries /\ primary' # Absent
         /\ primary'.rev = op.seen.rev /\ primary'.own \subseteq op.refs
         /\ primary'.zero = (IsKind("DaemonSet") /\ op.seen.zero /\ op.to = "")
         /\ op' \in Ops
         /\ op.to = "" => op' = Idle
         /\ op.to # "" => op'.at = "phase"
         /\ op'.to = op.to /\ op'.refs \subseteq op.refs /\ op'.todo = {}
<1>1. /\ primary' \in Primaries /\ primary'.rev = op.seen.rev
      /\ primary'.own \subseteq op.refs
      /\ primary'.zero = (IsKind("DaemonSet") /\ op.seen.zero /\ op.to = "")
  BY DEF WritePrimary, Types, Ops, Targets, Primaries, IsKind, Renamed
<1>2. primary' # Absent
  BY <1>1, ObjectsAreNotAbsent
<1>3. CASE op.to = ""
  BY <1>1, <1>2, <1>3, NewType DEF WritePrimary
<1>4. CASE op.to # ""
  <2>1. op' = [op EXCEPT !.at = "phase"]
    BY <1>4 DEF WritePrimary
  <2>2. QED
    BY <1>1, <1>2, <1>4, <2>1 DEF WritePrimary, Types, Ops
<1>5. QED
  BY <1>3, <1>4

\* The phase is written, and when it is the last one, what was promoted.
LEMMA PhaseIs ==
  ASSUME Types, SetPhase
  PROVE  /\ UNCHANGED <<workload, target, config, primary, copies, edits, faults>>
         /\ op.at = "phase" /\ op' = Idle
         /\ status' \in Statuses /\ status'.phase = op.to
         /\ status'.applied = status.applied /\ status'.tracked = status.tracked
         /\ op.to = "Succeeded" => status'.promoted = status.applied
BY DEF SetPhase, Types, Statuses, Ops

\* A call that fails changes nothing, and ends the operation.
LEMMA FailIs ==
  ASSUME Types, OperationFails
  PROVE  /\ UNCHANGED <<workload, target, config, primary, copies, status, edits>>
         /\ faults' \in 0..MaxFaults /\ op' = Idle
BY FaultsType DEF OperationFails, Types

\* The user's edits are counted.
LEMMA EditIs ==
  ASSUME Types
  PROVE  /\ EditTarget =>
              /\ UNCHANGED <<workload, config, primary, copies, status, op, faults>>
              /\ target' \in Targets /\ target'.rev = edits + 1
              /\ target'.zero = target.zero
         /\ EditConfig =>
              /\ UNCHANGED <<workload, target, primary, copies, status, op, faults>>
              /\ config' \in Copies
              /\ \A c \in Configs : config'[c] \in {config[c], edits + 1, Absent}
         /\ Recreate =>
              /\ UNCHANGED <<workload, target, config, faults>>
              /\ primary' = Absent /\ op' = Idle /\ status' = New /\ copies' \in Copies
         /\ EditTarget \/ EditConfig \/ Recreate =>
              /\ edits' = edits + 1 /\ edits + 1 \in Versions
              /\ edits' \in 0..MaxEdits
<1>1. Edit => edits' = edits + 1 /\ edits + 1 \in Versions /\ edits' \in 0..MaxEdits
  BY VersionsAreEdits DEF Edit, Types
<1>2. ASSUME EditTarget
      PROVE  /\ target' \in Targets /\ target'.rev = edits + 1
             /\ target'.zero = target.zero
  <2>1. PICK uses \in workload.uses :
          target' = [target EXCEPT !.rev = edits + 1, !.uses = uses]
    BY <1>2 DEF EditTarget
  <2>2. uses \subseteq Configs
    BY <2>1, ConstantsAssumption DEF Types
  <2>3. QED
    BY <1>1, <1>2, <2>1, <2>2 DEF EditTarget, Types, Targets
<1>3. ASSUME EditConfig
      PROVE  /\ config' \in Copies
             /\ \A c \in Configs : config'[c] \in {config[c], edits + 1, Absent}
  BY <1>1, <1>3 DEF EditConfig, Types, Copies
<1>4. Recreate => copies' \in Copies
  BY DEF Recreate, Copies
<1>5. QED
  BY <1>1, <1>2, <1>3, <1>4 DEF EditTarget, EditConfig, Recreate

\* The cases of a step.
LEMMA StepCases ==
  [Next]_vars <=>
    \/ Begins \/ InitializeTarget \/ ScaleTarget \/ ReadTarget \/ ReadConfigs
    \/ SyncStatus \/ CopyConfig \/ WritePrimary \/ SetPhase \/ OperationFails
    \/ EditTarget \/ EditConfig \/ Recreate \/ UNCHANGED vars
BY DEF Next, Call, Begins

\* Every step keeps the types.
LEMMA TypesNext == Types /\ [Next]_vars => Types'
<1> SUFFICES ASSUME Types, [Next]_vars PROVE Types'
  OBVIOUS
<1>1. CASE Begins
  BY <1>1, BeginsAre DEF Types
<1>2. CASE InitializeTarget
  BY <1>2, InitializeIs DEF Types
<1>3. CASE ScaleTarget
  BY <1>3, ScaleIs DEF Types
<1>4. CASE ReadTarget
  BY <1>4, ReadTargetIs DEF Types
<1>5. CASE ReadConfigs
  BY <1>5, ReadConfigsIs DEF Types
<1>6. CASE SyncStatus
  BY <1>6, SyncIs, NewType DEF Types
<1>7. CASE CopyConfig
  BY <1>7, CopyIs DEF Types
<1>8. CASE WritePrimary
  BY <1>8, WriteIs DEF Types
<1>9. CASE SetPhase
  BY <1>9, PhaseIs, NewType DEF Types
<1>10. CASE OperationFails
  BY <1>10, FailIs, NewType DEF Types
<1>11. CASE EditTarget
  BY <1>11, EditIs DEF Types
<1>12. CASE EditConfig
  BY <1>12, EditIs DEF Types
<1>13. CASE Recreate
  BY <1>13, EditIs, NewType DEF Types
<1>14. CASE UNCHANGED vars
  BY <1>14 DEF Types, vars
<1>15. QED
  BY <1>1, <1>2, <1>3, <1>4, <1>5, <1>6, <1>7, <1>8, <1>9, <1>10, <1>11, <1>12, <1>13,
     <1>14, StepCases

\* Revisions, versions and the status keep their types through every creation,
\* promotion, rollout and edit.
THEOREM TypeCorrect == Spec => []TypeOK
BY TypesInit, TypesNext, TypesAreOK, PTL DEF Spec

-----------------------------------------------------------------------------
(* The operations. *)

\* Where an operation is, what it ends in, and the phase it began in.
Control ==
  /\ op.at # "idle" /\ op.to = "" => primary = Absent
  /\ op.at # "idle" /\ primary = Absent => op.to = ""
  /\ primary = Absent => status.phase = ""
  /\ op.at = "scale" => op.to \in {"Progressing", "Failed", "Succeeded"}
  /\ op.at = "target" => op.to \notin {"Finalising", "Succeeded"}
  /\ op.at = "configs" => op.to \notin {"Finalising", "Succeeded"}
  /\ op.at = "copy" => op.to \in {"", "Promoting"}
  /\ op.at = "phase" => op.to \in {"Promoting", "Finalising", "Succeeded"}
  /\ op.to = "Promoting" => status.phase = "Progressing"
  /\ op.to = "Finalising" => status.phase = "Promoting"
  /\ op.to = "Succeeded" => status.phase = "Finalising"

\* It holds of no operation.
LEMMA ControlInit == Init => Control
BY NewType DEF Init, Control

\* Every step keeps it.
LEMMA ControlNext == Types /\ Control /\ [Next]_vars => Control'
<1> SUFFICES ASSUME Types, Control, [Next]_vars PROVE Control'
  OBVIOUS
<1>1. CASE Begins
  BY <1>1, BeginsAre DEF Control
<1>2. CASE InitializeTarget
  BY <1>2, InitializeIs DEF Control
<1>3. CASE ScaleTarget
  BY <1>3, ScaleIs DEF Control
<1>4. CASE ReadTarget
  BY <1>4, ReadTargetIs DEF Control
<1>5. CASE ReadConfigs
  BY <1>5, ReadConfigsIs DEF Control
<1>6. CASE SyncStatus
  BY <1>6, SyncIs, NewType DEF Control
<1>7. CASE CopyConfig
  BY <1>7, CopyIs DEF Control
<1>8. CASE WritePrimary
  BY <1>8, WriteIs, NewType DEF Control
<1>9. CASE SetPhase
  BY <1>9, PhaseIs, NewType DEF Control
<1>10. CASE OperationFails
  BY <1>10, FailIs, NewType DEF Control
<1>11. CASE EditTarget
  BY <1>11, EditIs DEF Control
<1>12. CASE EditConfig
  BY <1>12, EditIs DEF Control
<1>13. CASE Recreate
  BY <1>13, EditIs, NewType DEF Control
<1>14. CASE UNCHANGED vars
  BY <1>14 DEF Control, vars
<1>15. QED
  BY <1>1, <1>2, <1>3, <1>4, <1>5, <1>6, <1>7, <1>8, <1>9, <1>10, <1>11, <1>12, <1>13,
     <1>14, StepCases

-----------------------------------------------------------------------------
(* Copies exist. *)

\* A copy that has been made by the operation in progress is there.
Copied == \A c \in op.refs \ op.todo : copies[c] # Absent

CopiesInv == CopiesExist /\ Copied

\* Every step leaves the copies there.
LEMMA CopiesNext == Types /\ CopiesInv /\ [Next]_vars => CopiesInv'
<1> SUFFICES ASSUME Types, CopiesInv, [Next]_vars PROVE CopiesInv'
  OBVIOUS
<1> USE DEF CopiesInv, CopiesExist, Copied
<1>1. CASE Begins
  BY <1>1, BeginsAre
<1>2. CASE InitializeTarget
  BY <1>2, InitializeIs
<1>3. CASE ScaleTarget
  BY <1>3, ScaleIs
<1>4. CASE ReadTarget
  BY <1>4, ReadTargetIs
<1>5. CASE ReadConfigs
  BY <1>5, ReadConfigsIs
<1>6. CASE SyncStatus
  BY <1>6, SyncIs, NewType
<1>7. CASE CopyConfig
  <2>1. UNCHANGED primary /\ op'.refs = op.refs
    BY <1>7, CopyIs
  <2>2. PICK c \in op.todo :
          /\ op'.todo = op.todo \ {c} /\ copies'[c] # Absent
          /\ \A d \in Configs \ {c} : copies'[d] = copies[d]
    BY <1>7, CopyIs
  <2>3. op.refs \subseteq Configs /\ (primary # Absent => primary.own \subseteq Configs)
    BY DEF Types, Ops, Primaries
  <2>4. QED
    BY <2>1, <2>2, <2>3
<1>8. CASE WritePrimary
  BY <1>8, WriteIs, NewType
<1>9. CASE SetPhase
  BY <1>9, PhaseIs, NewType
<1>10. CASE OperationFails
  BY <1>10, FailIs, NewType
<1>11. CASE EditTarget \/ EditConfig
  BY <1>11, EditIs
<1>12. CASE Recreate
  BY <1>12, EditIs, NewType
<1>13. CASE UNCHANGED vars
  BY <1>13 DEF vars
<1>14. QED
  BY <1>1, <1>2, <1>3, <1>4, <1>5, <1>6, <1>7, <1>8, <1>9, <1>10, <1>11, <1>12, <1>13,
     StepCases

\* The primary refers to no copy that was not made, however the copies and the
\* edits and failures come in between.
THEOREM PrimaryFindsItsCopies == Spec => []CopiesExist
<1>1. Init => CopiesInv
  BY NewType DEF Init, CopiesInv, CopiesExist, Copied
<1>2. CopiesInv => CopiesExist
  BY DEF CopiesInv
<1>3. QED
  BY TypesInit, TypesNext, CopiesNext, <1>1, <1>2, PTL DEF Spec

-----------------------------------------------------------------------------
(* The primary has pods. *)

\* A DaemonSet is not scaled to zero before it has a primary.
PodsInv ==
  /\ PrimaryHasPods
  /\ IsKind("DaemonSet") =>
       /\ primary = Absent => ~target.zero
       /\ op.to = "" /\ op.at \in {"configs", "copy"} => ~op.seen.zero

\* Every step keeps the pods, if no DaemonSet is left scaled to zero by a canary
\* that is deleted and created again.
LEMMA PodsNext ==
  ASSUME \A w \in Workloads : w.kind = "DaemonSet" => ~w.recreated,
         Types, Control, PodsInv, [Next]_vars
  PROVE  PodsInv'
<1> USE DEF PodsInv, PrimaryHasPods
<1>k. UNCHANGED workload => (IsKind("DaemonSet")' <=> IsKind("DaemonSet"))
  BY DEF IsKind
<1>1. CASE Begins
  BY <1>1, <1>k, BeginsAre
<1>2. CASE InitializeTarget
  BY <1>2, <1>k, InitializeIs, NewType
<1>3. CASE ScaleTarget
  BY <1>3, <1>k, ScaleIs DEF Control
<1>4. CASE ReadTarget
  BY <1>4, <1>k, ReadTargetIs DEF Control
<1>5. CASE ReadConfigs
  BY <1>5, <1>k, ReadConfigsIs
<1>6. CASE SyncStatus
  BY <1>6, <1>k, SyncIs, NewType
<1>7. CASE CopyConfig
  BY <1>7, <1>k, CopyIs
<1>8. CASE WritePrimary
  BY <1>8, <1>k, WriteIs, NewType
<1>9. CASE SetPhase
  BY <1>9, <1>k, PhaseIs, NewType
<1>10. CASE OperationFails
  BY <1>10, <1>k, FailIs, NewType
<1>11. CASE EditTarget \/ EditConfig
  BY <1>11, <1>k, EditIs
<1>12. CASE Recreate
  <2>1. ~IsKind("DaemonSet")
    BY <1>12 DEF Recreate, IsKind, Types
  <2>2. QED
    BY <1>12, <1>k, <2>1, EditIs
<1>13. CASE UNCHANGED vars
  BY <1>13, <1>k DEF vars
<1>14. QED
  BY <1>1, <1>2, <1>3, <1>4, <1>5, <1>6, <1>7, <1>8, <1>9, <1>10, <1>11, <1>12, <1>13,
     StepCases

\* The primary is never written without pods, unless a DaemonSet is left without
\* them by a canary that is deleted and created again.
THEOREM PrimaryKeepsPods ==
  ASSUME \A w \in Workloads : w.kind = "DaemonSet" => ~w.recreated
  PROVE  Spec => []PrimaryHasPods
<1>1. Init => PodsInv
  <2> SUFFICES ASSUME Init PROVE PodsInv
    OBVIOUS
  <2>1. primary = Absent /\ op.at = "idle"
    BY NewType DEF Init
  <2>2. ~target.zero
    BY DEF Init
  <2>3. QED
    BY <2>1, <2>2 DEF PodsInv, PrimaryHasPods
<1>2. PodsInv => PrimaryHasPods
  BY DEF PodsInv
<1>3. Types /\ Control /\ PodsInv /\ [Next]_vars => PodsInv'
  BY PodsNext
<1>4. QED
  BY TypesInit, TypesNext, ControlInit, ControlNext, <1>1, <1>2, <1>3, PTL DEF Spec

-----------------------------------------------------------------------------
(* No edit is lost. *)

\* What was seen is not newer than the last edit.
TargetAge  == target.rev <= edits /\ op.seen.rev <= edits
AppliedAge == status.applied # Absent => status.applied.rev <= edits
ConfigAge  == \A c \in Configs : config[c] # Absent => config[c] <= edits
TrackedAge == status.tracked # Absent =>
  \A c \in DOMAIN status.tracked :
    c \in Configs /\ status.tracked[c] \in Versions /\ status.tracked[c] <= edits

Ages == TargetAge /\ AppliedAge /\ ConfigAge /\ TrackedAge

\* The numbers in the state are numbers.
LEMMA Numbers ==
  ASSUME Types
  PROVE  /\ edits \in Nat /\ target.rev \in Nat /\ op.seen.rev \in Nat
         /\ status.applied # Absent => status.applied.rev \in Nat
         /\ \A c \in Configs : config[c] # Absent => config[c] \in Nat
<1>1. Versions \subseteq Nat
  BY ConstantsAssumption DEF Versions
<1>2. \A t \in Targets : t.rev \in Nat
  BY <1>1 DEF Targets
<1>3. \A h \in Hashes : h.rev \in Nat
  BY <1>1 DEF Hashes
<1>4. edits \in Nat
  BY ConstantsAssumption DEF Types
<1>5. status.applied # Absent => status.applied \in Hashes
  BY DEF Types, Statuses
<1>6. \A c \in Configs : config[c] # Absent => config[c] \in Nat
  BY <1>1 DEF Types, Copies
<1>7. QED
  BY <1>2, <1>3, <1>4, <1>5, <1>6 DEF Types, Ops

\* What is not newer than an edit is not newer than the next one.
LEMMA Older == \A m, n \in Nat : m <= n => m <= n + 1 /\ m # n + 1
OBVIOUS

\* In the beginning nothing was seen.
LEMMA AgesInit == Init => Ages
<1> SUFFICES ASSUME Init PROVE Ages
  OBVIOUS
<1>1. target.rev = 0 /\ op.seen.rev = 0 /\ edits = 0
  <2>1. PICK uses \in workload.uses : target = [rev |-> 0, uses |-> uses, zero |-> FALSE]
    BY DEF Init
  <2>2. QED
    BY <2>1, NewType DEF Init
<1>2. status.applied = Absent /\ status.tracked = Absent
  BY NewType DEF Init
<1>3. \A c \in Configs : config[c] # Absent => config[c] = 0
  BY DEF Init
<1>4. QED
  BY <1>1, <1>2, <1>3 DEF Ages, TargetAge, AppliedAge, ConfigAge, TrackedAge

\* Every step keeps what was seen old.
LEMMA AgesNext == Types /\ Ages /\ [Next]_vars => Ages'
<1> SUFFICES ASSUME Types, Ages, [Next]_vars PROVE Ages'
  OBVIOUS
<1>n. 0 <= edits
  BY Numbers
<1>1. ASSUME UNCHANGED edits, target'.rev = target.rev,
             op'.seen.rev \in {0, target.rev, op.seen.rev}
      PROVE  TargetAge'
  BY <1>1, <1>n DEF Ages, TargetAge
<1>2. ASSUME UNCHANGED <<edits, status>>
      PROVE  AppliedAge' /\ TrackedAge'
  BY <1>2 DEF Ages, AppliedAge, TrackedAge
<1>3. ASSUME UNCHANGED <<edits, config>>
      PROVE  ConfigAge'
  BY <1>3 DEF Ages, ConfigAge
<1>4. CASE Begins
  BY <1>1, <1>2, <1>3, <1>4, BeginsAre, NewType DEF Ages
<1>5. CASE InitializeTarget
  BY <1>1, <1>2, <1>3, <1>5, InitializeIs DEF Ages
<1>6. CASE ScaleTarget
  BY <1>1, <1>2, <1>3, <1>6, ScaleIs DEF Ages
<1>7. CASE ReadTarget
  BY <1>1, <1>2, <1>3, <1>7, ReadTargetIs DEF Ages
<1>8. CASE ReadConfigs
  BY <1>1, <1>2, <1>3, <1>8, ReadConfigsIs DEF Ages
<1>9. CASE SyncStatus
  <2>1. TargetAge' /\ ConfigAge'
    BY <1>1, <1>3, <1>9, SyncIs, NewType
  <2>2. AppliedAge'
    BY <1>9, SyncIs DEF Ages, TargetAge, AppliedAge
  <2>3. CASE status'.tracked = status.tracked
    BY <1>9, <2>1, <2>2, <2>3, SyncIs DEF Ages, TrackedAge
  <2>4. ASSUME NEW failed, status'.tracked = Checksums(failed)
        PROVE  TrackedAge'
    <3>1. \A c \in Refs(failed) : c \in Configs /\ config[c] \in Versions
      BY RefsType
    <3>2. \A c \in Refs(failed) : config[c] <= edits
      BY <3>1, VersionsAreEdits DEF Ages, ConfigAge
    <3>3. /\ DOMAIN status'.tracked = Refs(failed)
          /\ \A c \in Refs(failed) : status'.tracked[c] = config[c]
      BY <2>4 DEF Checksums
    <3>4. UNCHANGED edits
      BY <1>9, SyncIs
    <3>5. QED
      BY <3>1, <3>2, <3>3, <3>4 DEF TrackedAge
  <2>5. QED
    BY <1>9, <2>1, <2>2, <2>3, <2>4, SyncIs DEF Ages
<1>10. CASE CopyConfig
  BY <1>1, <1>2, <1>3, <1>10, CopyIs DEF Ages
<1>11. CASE WritePrimary
  <2>1. op'.seen.rev \in {0, op.seen.rev}
    BY <1>11, NewType DEF WritePrimary, Types, Ops
  <2>2. QED
    BY <1>1, <1>2, <1>3, <1>11, <2>1, WriteIs DEF Ages
<1>12. CASE SetPhase
  <2>1. TargetAge' /\ ConfigAge'
    BY <1>1, <1>3, <1>12, PhaseIs, NewType
  <2>2. QED
    BY <1>12, <2>1, PhaseIs DEF Ages, AppliedAge, TrackedAge
<1>13. CASE OperationFails
  BY <1>1, <1>2, <1>3, <1>13, FailIs, NewType DEF Ages
<1>e. ASSUME edits' = edits + 1
      PROVE  /\ UNCHANGED status => AppliedAge' /\ TrackedAge'
             /\ UNCHANGED config => ConfigAge'
             /\ UNCHANGED op => op'.seen.rev <= edits'
             /\ UNCHANGED target => target'.rev <= edits'
  <2>1. UNCHANGED op => op'.seen.rev <= edits'
    BY <1>e, Numbers, Older DEF Ages, TargetAge
  <2>2. UNCHANGED target => target'.rev <= edits'
    BY <1>e, Numbers, Older DEF Ages, TargetAge
  <2>3. UNCHANGED config => ConfigAge'
    BY <1>e, Numbers, Older DEF Ages, ConfigAge
  <2>4. UNCHANGED status => AppliedAge'
    BY <1>e, Numbers, Older DEF Ages, AppliedAge
  <2>5. Versions \subseteq Nat
    BY ConstantsAssumption DEF Versions
  <2>6. UNCHANGED status => TrackedAge'
    BY <1>e, <2>5, Numbers, Older DEF Ages, TrackedAge
  <2>7. QED
    BY <2>1, <2>2, <2>3, <2>4, <2>6
<1>14. CASE EditTarget
  <2>1. target'.rev <= edits'
    BY <1>14, EditIs, Numbers
  <2>2. QED
    BY <1>14, <1>e, <2>1, EditIs DEF Ages, TargetAge
<1>15. CASE EditConfig
  <2>1. \A c \in Configs : config'[c] # Absent => config'[c] <= edits + 1
    BY <1>15, EditIs, Numbers, Older DEF Ages, ConfigAge
  <2>2. ConfigAge'
    BY <1>15, <2>1, EditIs DEF ConfigAge
  <2>3. QED
    BY <1>15, <1>e, <2>2, EditIs DEF Ages, TargetAge
<1>16. CASE Recreate
  <2>1. op'.seen.rev <= edits'
    <3>1. op' = Idle /\ edits' = edits + 1
      BY <1>16, EditIs
    <3>2. op'.seen.rev = 0
      BY <3>1, NewType
    <3>3. QED
      BY <3>1, <3>2, Numbers
  <2>2. AppliedAge' /\ TrackedAge'
    BY <1>16, EditIs, NewType DEF AppliedAge, TrackedAge
  <2>3. QED
    BY <1>16, <1>e, <2>1, <2>2, EditIs DEF Ages, TargetAge
<1>17. CASE UNCHANGED vars
  BY <1>17 DEF vars, Ages, TargetAge, AppliedAge, ConfigAge, TrackedAge
<1>18. QED
  BY <1>4, <1>5, <1>6, <1>7, <1>8, <1>9, <1>10, <1>11, <1>12, <1>13, <1>14, <1>15, <1>16,
     <1>17, StepCases

\* The target, or a config, is as it was when the status was written.
TargetIsApplied == status.applied # Absent /\ status.applied.rev = target.rev
ConfigIsTracked(c) ==
  /\ status.tracked # Absent /\ c \in DOMAIN status.tracked
  /\ config[c] = status.tracked[c]

\* What was read, copied or written is what the status was written for, unless
\* there are edits since.
Seen        == TargetIsApplied => op.seen.rev = target.rev
Made(cs)    == \A c \in cs : ConfigIsTracked(c) => copies[c] = config[c]
Written     == TargetIsApplied => primary.rev = target.rev
WrittenPhase ==
  \/ op.to = "Promoting" /\ op.at = "phase"
  \/ status.phase \in {"Promoting", "Finalising", "Succeeded"}

\* The promotion reads the target, copies its configs and writes the primary, in
\* this order, before the phase says so.
PromotedInv ==
  /\ op.to = "Promoting" /\ op.at \in {"configs", "copy"} => Seen
  /\ op.to = "Promoting" /\ op.at = "copy" => Made(op.refs \ op.todo)
  /\ WrittenPhase => Written /\ Made(primary.own)
  /\ status.phase = "Succeeded" => status.promoted = status.applied

\* In the beginning nothing is promoted.
LEMMA PromotedInit == Init => PromotedInv
BY NewType DEF Init, PromotedInv, WrittenPhase

\* A step that leaves the status, the target's revision and the configs alone
\* finds nothing newer.
LEMMA NothingNewer ==
  ASSUME status'.applied = status.applied, status'.tracked = status.tracked,
         target'.rev = target.rev, UNCHANGED config
  PROVE  /\ TargetIsApplied' <=> TargetIsApplied
         /\ \A c : ConfigIsTracked(c)' <=> ConfigIsTracked(c)
         /\ UNCHANGED primary => (Written' <=> Written)
         /\ UNCHANGED copies => \A cs : Made(cs)' <=> Made(cs)
<1>1. TargetIsApplied' <=> TargetIsApplied
  BY DEF TargetIsApplied
<1>2. \A c : ConfigIsTracked(c)' <=> ConfigIsTracked(c)
  BY DEF ConfigIsTracked
<1>3. QED
  BY <1>1, <1>2 DEF Written, Made

\* An edit is newer than what the status was written for.
LEMMA EditsAreNewer ==
  ASSUME Types, Ages
  PROVE  /\ EditTarget => ~TargetIsApplied'
         /\ EditConfig => \A c : ConfigIsTracked(c)' =>
                            ConfigIsTracked(c) /\ config'[c] = config[c]
<1>1. ASSUME EditTarget
      PROVE  ~TargetIsApplied'
  <2>1. target'.rev = edits + 1 /\ UNCHANGED status
    BY <1>1, EditIs
  <2>2. status.applied # Absent => status.applied.rev # edits + 1
    BY Numbers, Older DEF Ages, AppliedAge
  <2>3. QED
    BY <2>1, <2>2 DEF TargetIsApplied
<1>2. ASSUME EditConfig, NEW c, ConfigIsTracked(c)'
      PROVE  ConfigIsTracked(c) /\ config'[c] = config[c]
  <2>1. UNCHANGED status
    BY <1>2, EditIs
  <2>2. /\ status.tracked # Absent /\ c \in DOMAIN status.tracked
        /\ config'[c] = status.tracked[c]
    BY <1>2, <2>1 DEF ConfigIsTracked
  <2>3. c \in Configs /\ status.tracked[c] \in Versions /\ status.tracked[c] <= edits
    BY <2>2 DEF Ages, TrackedAge
  <2>4. Versions \subseteq Nat /\ Absent \notin Versions
    BY VersionsAreEdits, ConstantsAssumption DEF Versions
  <2>5. config'[c] # Absent /\ config'[c] # edits + 1
    BY <2>2, <2>3, <2>4, Numbers, Older
  <2>6. config'[c] \in {config[c], edits + 1, Absent}
    BY <1>2, <2>3, EditIs
  <2>7. QED
    BY <2>2, <2>5, <2>6 DEF ConfigIsTracked
<1>3. QED
  BY <1>1, <1>2

\* What is promoted stays what the status was written for.
LEMMA PromotedNext ==
  ASSUME Types, Control, Ages, PromotedInv, [Next]_vars
  PROVE  PromotedInv'
<1>1. CASE Begins
  <2>1. UNCHANGED <<target, config, primary, copies, status>>
    BY <1>1, BeginsAre
  <2>2. /\ op'.at \notin {"configs", "copy"}
        /\ ~(op'.to = "Promoting" /\ op'.at = "phase")
    BY <1>1, BeginsAre
  <2>3. QED
    BY <2>1, <2>2, NothingNewer DEF PromotedInv, WrittenPhase
<1>2. CASE InitializeTarget
  <2>1. UNCHANGED <<config, primary, copies, status, op>> /\ target'.rev = target.rev
    BY <1>2, InitializeIs
  <2>2. QED
    BY <2>1, NothingNewer DEF PromotedInv, WrittenPhase, Seen
<1>3. CASE ScaleTarget
  <2>1. UNCHANGED <<config, primary, copies, status>> /\ target'.rev = target.rev
    BY <1>3, ScaleIs
  <2>2. op'.to # "Promoting"
    BY <1>3, ScaleIs DEF Control
  <2>3. QED
    BY <2>1, <2>2, NothingNewer DEF PromotedInv, WrittenPhase
<1>4. CASE ReadTarget
  <2>1. UNCHANGED <<target, config, primary, copies, status>>
    BY <1>4, ReadTargetIs
  <2>2. op'.at = "configs" /\ op'.seen = target
    BY <1>4, ReadTargetIs
  <2>3. Seen'
    BY <2>1, <2>2 DEF Seen
  <2>4. QED
    BY <2>1, <2>2, <2>3, NothingNewer DEF PromotedInv, WrittenPhase
<1>5. CASE ReadConfigs
  <2>1. UNCHANGED <<target, config, primary, copies, status>>
    BY <1>5, ReadConfigsIs
  <2>2. /\ op.at = "configs" /\ op'.at = "copy" /\ op'.to = op.to
        /\ op'.seen = op.seen /\ op'.refs = op'.todo
    BY <1>5, ReadConfigsIs
  <2>3. op'.to = "Promoting" => Seen'
    BY <2>1, <2>2, NothingNewer DEF PromotedInv, Seen
  <2>4. Made(op.refs \ op.todo)'
    BY <2>2 DEF Made
  <2>5. QED
    BY <2>1, <2>2, <2>3, <2>4, NothingNewer DEF PromotedInv, WrittenPhase
<1>6. CASE SyncStatus
  <2>1. op'.to = "" /\ status'.phase = op.to
    BY <1>6, SyncIs, NewType
  <2>2. op.to \notin {"Promoting", "Finalising", "Succeeded"}
    BY <1>6, SyncIs DEF Control
  <2>3. QED
    BY <2>1, <2>2 DEF PromotedInv, WrittenPhase
<1>7. CASE CopyConfig
  <2>1. UNCHANGED <<target, config, primary, status>>
    BY <1>7, CopyIs
  <2>2. /\ op.at = "copy" /\ op'.at = "copy" /\ op'.to = op.to
        /\ op'.seen = op.seen /\ op'.refs = op.refs
    BY <1>7, CopyIs
  <2>3. PICK c \in op.todo :
          /\ op'.todo = op.todo \ {c} /\ copies'[c] = config[c]
          /\ \A d \in Configs \ {c} : copies'[d] = copies[d]
    BY <1>7, CopyIs
  <2>4. /\ TargetIsApplied' <=> TargetIsApplied
        /\ \A d : ConfigIsTracked(d)' <=> ConfigIsTracked(d)
    BY <2>1, NothingNewer
  <2>5. op.refs \subseteq Configs
    BY DEF Types, Ops
  <2>6. op.to = "Promoting" => Made(op.refs \ op.todo)'
    BY <2>1, <2>2, <2>3, <2>4, <2>5 DEF PromotedInv, Made
  <2>7. op.to = "Promoting" => Seen'
    BY <2>1, <2>2, <2>4 DEF PromotedInv, Seen
  <2>8. primary = Absent \/ op.to = "Promoting"
    BY <2>2 DEF Control
  <2>9. ~WrittenPhase'
    BY <2>1, <2>2, <2>8 DEF Control, WrittenPhase
  <2>10. QED
    BY <2>1, <2>2, <2>6, <2>7, <2>9 DEF PromotedInv
<1>8. CASE WritePrimary
  <2>1. UNCHANGED <<target, config, copies, status>> /\ op.at = "copy" /\ op.todo = {}
    BY <1>8, WriteIs
  <2>2. primary'.rev = op.seen.rev /\ primary'.own \subseteq op.refs
    BY <1>8, WriteIs
  <2>3. CASE op.to = "Promoting"
    <3>1. op'.at = "phase" /\ op'.to = "Promoting"
      BY <1>8, <2>3, WriteIs
    <3>2. Written'
      BY <2>1, <2>2, <2>3, NothingNewer DEF PromotedInv, Seen, Written
    <3>3. Made(op.refs)
      BY <2>1, <2>3 DEF PromotedInv
    <3>4. Made(primary.own)'
      BY <2>1, <2>2, <3>3, NothingNewer DEF Made
    <3>5. QED
      BY <2>1, <3>1, <3>2, <3>4, NothingNewer DEF PromotedInv
  <2>4. CASE op.to = ""
    <3>1. op' = Idle /\ status.phase = ""
      BY <1>8, <2>1, <2>4, WriteIs DEF Control
    <3>2. QED
      BY <2>1, <3>1, NewType DEF PromotedInv, WrittenPhase
  <2>5. QED
    BY <2>1, <2>3, <2>4 DEF Control
<1>9. CASE SetPhase
  <2>1. UNCHANGED <<target, config, primary, copies>> /\ op' = Idle
    BY <1>9, PhaseIs
  <2>2. /\ op.at = "phase" /\ status'.phase = op.to
        /\ status'.applied = status.applied /\ status'.tracked = status.tracked
        /\ op.to = "Succeeded" => status'.promoted = status.applied
    BY <1>9, PhaseIs
  <2>3. WrittenPhase
    BY <2>2 DEF Control, WrittenPhase
  <2>4. QED
    BY <2>1, <2>2, <2>3, NothingNewer, NewType DEF PromotedInv
<1>10. CASE OperationFails
  <2>1. UNCHANGED <<target, config, primary, copies, status>> /\ op' = Idle
    BY <1>10, FailIs
  <2>2. QED
    BY <2>1, NothingNewer, NewType DEF PromotedInv, WrittenPhase
<1>11. CASE EditTarget
  <2>1. UNCHANGED <<config, primary, copies, status, op>> /\ ~TargetIsApplied'
    BY <1>11, EditIs, EditsAreNewer
  <2>2. Seen' /\ Written'
    BY <2>1 DEF Seen, Written
  <2>3. \A cs : Made(cs)' <=> Made(cs)
    BY <2>1 DEF Made, ConfigIsTracked
  <2>4. QED
    BY <2>1, <2>2, <2>3 DEF PromotedInv, WrittenPhase
<1>12. CASE EditConfig
  <2>1. UNCHANGED <<target, primary, copies, status, op>>
    BY <1>12, EditIs
  <2>2. \A c : ConfigIsTracked(c)' => ConfigIsTracked(c) /\ config'[c] = config[c]
    BY <1>12, EditsAreNewer
  <2>3. \A cs : Made(cs) => Made(cs)'
    BY <2>1, <2>2 DEF Made
  <2>4. Seen' = Seen /\ Written' = Written
    BY <2>1 DEF Seen, Written, TargetIsApplied
  <2>5. QED
    BY <2>1, <2>3, <2>4 DEF PromotedInv, WrittenPhase
<1>13. CASE Recreate
  BY <1>13, EditIs, NewType DEF PromotedInv, WrittenPhase
<1>14. CASE UNCHANGED vars
  BY <1>14 DEF vars, PromotedInv, WrittenPhase, Written, Made, Seen, TargetIsApplied,
     ConfigIsTracked
<1>15. QED
  BY <1>1, <1>2, <1>3, <1>4, <1>5, <1>6, <1>7, <1>8, <1>9, <1>10, <1>11, <1>12, <1>13,
     <1>14, StepCases

\* When a rollout has succeeded and nothing new is found, nothing new is there.
LEMMA PromotedIsAll == Types /\ PromotedInv => NoEditIsLost
<1> SUFFICES ASSUME Types, PromotedInv, status.phase = "Succeeded",
                    ~HasTargetChanged, ~HasConfigChanged({})
             PROVE  /\ primary.rev = target.rev
                    /\ \A c \in Refs({}) : Sees(c) = config[c]
  BY DEF NoEditIsLost
<1>1. TargetIsApplied
  <2>1. status.applied # Absent /\ Hash(target) = status.applied
    BY DEF HasTargetChanged, PromotedInv
  <2>2. Hash(target).rev = target.rev
    BY HashType DEF Types
  <2>3. QED
    BY <2>1, <2>2 DEF TargetIsApplied
<1>2. ASSUME NEW c \in Refs({})
      PROVE  ConfigIsTracked(c)
  <2>1. status.tracked # Absent /\ Checksums({}) = status.tracked
    BY DEF HasConfigChanged
  <2>2. c \in DOMAIN Checksums({}) /\ Checksums({})[c] = config[c]
    BY DEF Checksums
  <2>3. QED
    BY <2>1, <2>2 DEF ConfigIsTracked
<1>3. QED
  BY <1>1, <1>2 DEF PromotedInv, WrittenPhase, Written, Made, Sees

\* No edit is lost, of the target or of a config, that is made between any two
\* calls of a promotion or while one fails: the checks of the next tick find it,
\* or it is in the primary.
THEOREM EveryEditIsFound == Spec => []NoEditIsLost
<1>1. Types /\ Control /\ Ages /\ PromotedInv /\ [Next]_vars => PromotedInv'
  BY PromotedNext
<1>2. QED
  BY TypesInit, TypesNext, ControlInit, ControlNext, AgesInit, AgesNext, PromotedInit,
     <1>1, PromotedIsAll, PTL DEF Spec

-----------------------------------------------------------------------------
(* Scaling is no revision. *)

\* To scale the target up or down makes no revision of it, for Deployments,
\* DaemonSets and Services alike: the status is written by another call.
THEOREM NothingIsRolledOutTwice == Spec => ScalingIsNoRevision
<1>1. ASSUME Types, [Next]_vars, target'.zero # target.zero, HasTargetChanged'
      PROVE  HasTargetChanged
  <2>1. InitializeTarget \/ ScaleTarget
    BY <1>1, StepCases, BeginsAre, ReadTargetIs, ReadConfigsIs, SyncIs, CopyIs, WriteIs,
       PhaseIs, FailIs, EditIs DEF vars
  <2>2. UNCHANGED status /\ target'.rev = target.rev
    BY <1>1, <2>1, InitializeIs, ScaleIs
  <2>3. QED
    BY <1>1, <2>2 DEF HasTargetChanged, Hash
<1>2. Types /\ [Next]_vars =>
        [target'.zero # target.zero => (HasTargetChanged' => HasTargetChanged)]_vars
  BY <1>1
<1>3. QED
  BY TypesInit, TypesNext, <1>2, PTL DEF Spec, ScalingIsNoRevision
=============================================================================
