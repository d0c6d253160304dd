------------------------------- MODULE Workload -------------------------------
(***************************************************************************)
(* The target of a canary and its primary (pkg/canary): Deployments,       *)
(* DaemonSets and Services, and the config maps and secrets they use, of   *)
(* which the tracker keeps copies for the primary.  What a tick of the     *)
(* scheduler does with them is an operation, whose calls to the API server *)
(* are the steps: the user may edit, and a call may fail, between any two. *)
(***************************************************************************)
EXTENDS Integers, FiniteSets

CONSTANTS
  Absent,     \* no such object
  Configs,    \* config maps and secrets
  Workloads,  \* the kinds of target to start from, and how they use the configs
  MaxEdits,   \* bound: edits by the user
  MaxFaults   \* bound: API calls that fail

ASSUME ConstantsAssumption ==
  /\ Absent \notin Int
  /\ Absent \notin [rev : Int, selector : BOOLEAN]
  /\ Absent \notin [rev : Int, zero : BOOLEAN, refs : SUBSET Configs,
                    own : SUBSET Configs, with : [Configs -> Int \cup {Absent}]]
  /\ \A w \in Workloads :
       /\ w.uses # {} /\ w.uses \subseteq SUBSET Configs
       /\ w.kind = "Service" => w.uses = {{}}
  /\ MaxEdits \in Nat /\ MaxFaults \in Nat

VARIABLES
  workload,  \* kind; the sets of configs a revision may use; which of them are
             \* mandatory, in init containers, disabled; absent, recreated
  target,    \* the revision of the target, the configs its template refers to,
             \* and whether it is scaled to zero
  config,    \* the version of each config of the target
  primary,   \* the revision of the primary, the configs tracked for it, those of
             \* them it has copies of, and all copies as they were at its write
  copies,    \* the version of the primary's copy of each config
  status,    \* phase, last applied and promoted spec, tracked configs
  op,        \* the operation in progress: its next call, the phase it ends in,
             \* the target as read, the configs tracked and still to copy
  edits, faults

vars == <<workload, target, config, primary, copies, status, op, edits, faults>>

Idle == [at |-> "idle", to |-> "", seen |-> [rev |-> 0, uses |-> {}, zero |-> FALSE],
         refs |-> {}, todo |-> {}]
New  == [phase |-> "", applied |-> Absent, promoted |-> Absent, tracked |-> Absent]

IsKind(kind) == workload.kind = kind
HasPods      == ~IsKind("Service")

CallFails == faults < MaxFaults /\ faults' = faults + 1

-----------------------------------------------------------------------------
(* The config tracker.                                                     *)

\* The reads of configs that fail: an error is logged, and the config passed
\* over, unless it is mandatory.
Reads ==
  {{}} \cup {{c} : c \in IF faults < MaxFaults THEN target.uses \ workload.mandatory
                        ELSE {}}

Read(failed) == IF failed = {} THEN UNCHANGED faults ELSE CallFails

\* GetTargetConfigs: the configs of the target that are read and not disabled.
Refs(failed) ==
  {c \in target.uses \ (workload.disabled \cup failed) : config[c] # Absent}

\* It is an error when a mandatory config is missing.
Missing == \E c \in target.uses \cap workload.mandatory : config[c] = Absent

\* Mutant: a config that does not exist is tracked too.
Checksums_Every(failed) == [c \in target.uses |-> config[c]]

Checksums(failed) == [c \in Refs(failed) |-> config[c]]

\* Mutant: only the number of configs is compared.
HasConfigChanged_Counts(failed) ==
  IF status.tracked = Absent THEN Refs(failed) # {}
  ELSE Cardinality(Refs(failed)) # Cardinality(DOMAIN status.tracked)

HasConfigChanged(failed) ==
  IF status.tracked = Absent THEN Refs(failed) # {}
  ELSE Checksums(failed) # status.tracked

\* ApplyPrimaryConfigs renames the references of volumes and containers; those
\* of init containers it leaves.
Renamed(refs) == refs \ workload.inInit

-----------------------------------------------------------------------------
(* The spec of the target.                                                 *)

\* Mutant: the node selector that scales a DaemonSet to zero is hashed too.
Hash_WithSelector(spec) ==
  [rev |-> spec.rev, selector |-> IsKind("DaemonSet") /\ spec.zero]

\* A DaemonSet is scaled to zero by a node selector in its pod template, which
\* is taken out of the template before it is hashed.
Hash(spec) == [rev |-> spec.rev, selector |-> FALSE]

\* hasSpecChanged: going back to what was promoted last is no new revision.
HasTargetChanged ==
  \/ status.applied = Absent
  \/ Hash(target) # status.promoted /\ Hash(target) # status.applied

\* A config that is missing stops the check, which is taken for a no.
ConfigsDiffer(failed) == ~Missing /\ HasConfigChanged(failed)

\* A new revision, of the target or of its configs, is seen.
Changed == \E failed \in Reads :
  (HasTargetChanged \/ ConfigsDiffer(failed)) /\ Read(failed)

\* None is seen, or one is overlooked: hasCanaryRevisionChanged drops the error
\* of either check.
Unchanged ==
  \/ ~HasTargetChanged /\ ~ConfigsDiffer({}) /\ UNCHANGED faults
  \/ (~HasTargetChanged \/ ~ConfigsDiffer({})) /\ CallFails

Scaled(zero) == [target EXCEPT !.zero = HasPods /\ zero]

-----------------------------------------------------------------------------
(* The operations, as the phases have them begin.                          *)

\* An operation that ends in phase to, and its first call.
Begin(to, call) ==
  /\ op = Idle /\ op' = [op EXCEPT !.at = call, !.to = to]
  /\ UNCHANGED <<workload, target, config, primary, copies, status, edits>>

\* Initialize makes a primary when it finds none.
CreatePrimary == primary = Absent /\ Begin("", "target") /\ UNCHANGED faults

\* Mutant: the target is scaled down before there is a primary.
InitializeTarget_Early ==
  /\ op = Idle /\ status.phase = ""
  /\ Scaled(TRUE) # target /\ target' = Scaled(TRUE)
  /\ UNCHANGED <<workload, config, primary, copies, status, op, edits, faults>>

InitializeTarget ==
  /\ op = Idle /\ status.phase = "" /\ primary # Absent
  /\ Scaled(TRUE) # target /\ target' = Scaled(TRUE)
  /\ UNCHANGED <<workload, config, primary, copies, status, op, edits, faults>>

Initialized ==
  /\ status.phase = "" /\ primary # Absent /\ Scaled(TRUE) = target
  /\ Begin("Initialized", "target") /\ UNCHANGED faults

\* checkCanaryStatus: a new revision begins a rollout with the target scaled up.
StartRollout ==
  /\ status.phase \in {"Initialized", "Succeeded", "Failed"}
  /\ Changed /\ Begin("Progressing", "scale")

\* hasCanaryRevisionChanged: the analysis begins anew.
RestartRollout ==
  status.phase = "Progressing" /\ Changed /\ Begin("Progressing", "target")

\* The analysis has been passed, and the primary is to be written before the
\* phase says so.
Promote ==
  status.phase = "Progressing" /\ Unchanged /\ Begin("Promoting", "target")

Rollback ==
  status.phase = "Progressing" /\ Unchanged /\ Begin("Failed", "scale")

\* runPromotionTrafficShift: all traffic is the primary's again.
ShiftTraffic ==
  status.phase = "Promoting" /\ Begin("Finalising", "phase") /\ UNCHANGED faults

Succeed ==
  status.phase = "Finalising" /\ Begin("Succeeded", "scale") /\ UNCHANGED faults

-----------------------------------------------------------------------------
(* Their calls.                                                            *)

ScaleTarget ==
  /\ op.at = "scale"
  /\ target' = Scaled(op.to # "Progressing")
  /\ op' = [op EXCEPT !.at = IF op.to = "Succeeded" THEN "phase" ELSE "target"]
  /\ UNCHANGED <<workload, config, primary, copies, status, edits, faults>>

\* The template to promote, or the spec to hash.
ReadTarget ==
  /\ op.at = "target"
  /\ op' = [op EXCEPT !.at = "configs", !.seen = target]
  /\ UNCHANGED <<workload, target, config, primary, copies, status, edits, faults>>

\* GetTargetConfigs gets the target anew, to see which configs it uses.
ReadConfigs ==
  /\ op.at = "configs" /\ op.to \in {"", "Promoting"} /\ ~Missing
  /\ \E failed \in Reads :
       /\ Read(failed)
       /\ op' = [op EXCEPT !.at = "copy", !.refs = Refs(failed), !.todo = Refs(failed)]
  /\ UNCHANGED <<workload, target, config, primary, copies, status, edits>>

\* SyncStatus: the phase with the spec and the configs it is for; of a Service
\* only the spec.
SyncStatus ==
  /\ op.at = "configs" /\ op.to \notin {"", "Promoting"} /\ ~Missing
  /\ \E failed \in Reads :
       /\ Read(failed)
       /\ status' = [status EXCEPT !.phase = op.to, !.applied = Hash(op.seen),
                        !.tracked = IF HasPods THEN Checksums(failed) ELSE @]
  /\ op' = Idle
  /\ UNCHANGED <<workload, target, config, primary, copies, edits>>

\* Mutant: a config that is gone is passed over.
CopyConfig_SkipsMissing ==
  /\ op.at = "copy"
  /\ \E c \in op.todo :
       /\ copies' = [copies EXCEPT ![c] = IF config[c] = Absent THEN @ ELSE config[c]]
       /\ op' = [op EXCEPT !.todo = @ \ {c}]
  /\ UNCHANGED <<workload, target, config, primary, status, edits, faults>>

\* CreatePrimaryConfigs: each config is read and written in its turn, in the
\* random order of a map.
CopyConfig ==
  /\ op.at = "copy"
  /\ \E c \in op.todo :
       /\ config[c] # Absent
       /\ copies' = [copies EXCEPT ![c] = config[c]]
       /\ op' = [op EXCEPT !.todo = @ \ {c}]
  /\ UNCHANGED <<workload, target, config, primary, status, edits, faults>>

\* The primary is written with the template the operation began with.  A
\* Deployment is created with a replica at least.  A DaemonSet is promoted
\* without the selector that scales it to zero, but created with it.
WritePrimary ==
  /\ op.at = "copy" /\ op.todo = {}
  /\ primary' = [rev  |-> op.seen.rev,
                 zero |-> IsKind("DaemonSet") /\ op.seen.zero /\ op.to = "",
                 refs |-> op.seen.uses \cap op.refs,
                 own  |-> Renamed(op.seen.uses \cap op.refs),
                 with |-> copies]
  /\ op' = IF op.to = "" THEN Idle ELSE [op EXCEPT !.at = "phase"]
  /\ UNCHANGED <<workload, target, config, copies, status, edits, faults>>

\* Mutant: what was promoted is taken for what the target is now.
SetPhase_Hashes ==
  /\ op.at = "phase"
  /\ status' = [status EXCEPT !.phase = op.to,
                   !.applied  = IF op.to = "Succeeded" THEN Hash(target) ELSE @,
                   !.promoted = IF op.to = "Succeeded" THEN Hash(target) ELSE @]
  /\ op' = Idle
  /\ UNCHANGED <<workload, target, config, primary, copies, edits, faults>>

\* setStatusPhase: the spec that was applied when the rollout began is, at its
\* end, the one promoted.
SetPhase ==
  /\ op.at = "phase"
  /\ status' = [status EXCEPT !.phase = op.to,
                   !.promoted = IF op.to = "Succeeded" THEN status.applied ELSE @]
  /\ op' = Idle
  /\ UNCHANGED <<workload, target, config, primary, copies, edits, faults>>

\* A config is gone by the time it is read again.
Blocked ==
  \/ op.at = "configs" /\ Missing
  \/ op.at = "copy" /\ \E c \in op.todo : config[c] = Absent

\* Mutant: the error of a promotion is logged, and the phase set all the same.
OperationFails_GoesOn ==
  /\ op # Idle
  /\ CallFails \/ (Blocked /\ UNCHANGED faults)
  /\ op' = IF op.to = "Promoting" THEN [op EXCEPT !.at = "phase"] ELSE Idle
  /\ UNCHANGED <<workload, target, config, primary, copies, status, edits>>

\* The call that is due fails: what has been written so far stays, and the next
\* tick begins anew.
OperationFails ==
  /\ op # Idle
  /\ CallFails \/ (Blocked /\ UNCHANGED faults)
  /\ op' = Idle
  /\ UNCHANGED <<workload, target, config, primary, copies, status, edits>>

-----------------------------------------------------------------------------
(* The user.                                                               *)

Edit == edits < MaxEdits /\ edits' = edits + 1

\* A new revision, which may use other configs.  (One that is taken back again
\* may be lost: AdvanceCanary has that.)
EditTarget ==
  /\ Edit
  /\ \E uses \in workload.uses :
       target' = [target EXCEPT !.rev = edits + 1, !.uses = uses]
  /\ UNCHANGED <<workload, config, primary, copies, status, op, faults>>

\* A config is created, changed or deleted.
EditConfig ==
  /\ Edit
  /\ \E c \in UNION workload.uses :
       \/ config' = [config EXCEPT ![c] = edits + 1]
       \/ config[c] # Absent /\ config' = [config EXCEPT ![c] = Absent]
  /\ UNCHANGED <<workload, target, primary, copies, status, op, faults>>

\* The canary is deleted, which takes the objects it owns with it and leaves the
\* target as it is, and created again.
Recreate ==
  /\ workload.recreated /\ Edit
  /\ primary' = Absent /\ copies' = [c \in Configs |-> Absent]
  /\ status' = New /\ op' = Idle
  /\ UNCHANGED <<workload, target, config, faults>>

-----------------------------------------------------------------------------

Init ==
  /\ workload \in Workloads
  /\ \E uses \in workload.uses : target = [rev |-> 0, uses |-> uses, zero |-> FALSE]
  /\ config = [c \in Configs |-> IF c \in workload.absent THEN Absent ELSE 0]
  /\ primary = Absent
  /\ copies = [c \in Configs |-> Absent]
  /\ status = New
  /\ op = Idle
  /\ edits = 0 /\ faults = 0

\* A tick of a rollout under way.
Advance == RestartRollout \/ Promote \/ Rollback

Call ==
  \/ ScaleTarget \/ ReadTarget \/ ReadConfigs \/ SyncStatus
  \/ CopyConfig \/ WritePrimary \/ SetPhase \/ OperationFails

Next ==
  \/ CreatePrimary \/ InitializeTarget \/ Initialized \/ StartRollout
  \/ Advance \/ ShiftTraffic \/ Succeed
  \/ Call
  \/ EditTarget \/ EditConfig \/ Recreate

\* The job calls advanceCanary again and again, and an analysis comes to an end
\* one way or the other; a call returns, with success or an error.
Spec == Init /\ [][Next]_vars /\ WF_vars(Advance) /\ WF_vars(Call)

-----------------------------------------------------------------------------
(* Properties.                                                             *)

Versions == 0..MaxEdits
Hashes   == [rev : Versions, selector : BOOLEAN]
Targets  == [rev : Versions, uses : SUBSET Configs, zero : BOOLEAN]
Checked  == UNION {[r -> Versions] : r \in SUBSET Configs}
Phases   == {"", "Initialized", "Progressing", "Promoting", "Finalising",
             "Succeeded", "Failed"}

TypeOK ==
  /\ target \in Targets
  /\ config \in [Configs -> Versions \cup {Absent}]
  /\ copies \in [Configs -> Versions \cup {Absent}]
  /\ primary \in {Absent} \cup
       [rev : Versions, zero : BOOLEAN, refs : SUBSET Configs, own : SUBSET Configs,
        with : [Configs -> Versions \cup {Absent}]]
  /\ status \in [phase : Phases, applied : Hashes \cup {Absent},
                 promoted : Hashes \cup {Absent}, tracked : Checked \cup {Absent}]
  /\ op \in [at : {"idle", "scale", "target", "configs", "copy", "phase"},
             to : Phases, seen : Targets, refs : SUBSET Configs, todo : SUBSET Configs]
  /\ edits \in 0..MaxEdits /\ faults \in 0..MaxFaults

\* The primary, which has all the traffic but in an analysis, is never created
\* or promoted without pods.
PrimaryHasPods ==
  primary # Absent => ~primary.zero

\* The primary refers to no copy that is not there: its pods could not start.
CopiesExist ==
  primary # Absent => \A c \in primary.own : copies[c] # Absent

\* What the primary sees of a config: its copy, or else the original.
Sees(c) == IF c \in primary.own THEN copies[c] ELSE config[c]

\* No edit is lost: when a rollout has succeeded and the checks of the next tick
\* find nothing new, the primary is what the target is and sees the configs as
\* the target does, even if edits were made between the calls of the promotion
\* or a config could not be read, so that the primary shares the original.
NoEditIsLost ==
  status.phase = "Succeeded" /\ ~HasTargetChanged /\ ~HasConfigChanged({}) =>
    primary.rev = target.rev /\ \A c \in Refs({}) : Sees(c) = config[c]

\* To scale the target does not make it a new revision, or a rollout would begin
\* whenever another one has ended.
ScalingIsNoRevision ==
  [][target'.zero # target.zero => (HasTargetChanged' => HasTargetChanged)]_vars

\* The primary's copies are not those its template was written with: a promotion
\* is under way or has stopped half way.
HalfPromoted ==
  primary # Absent /\ \E c \in primary.own : copies[c] # primary.with[c]

\* A promotion that fails half way is made good by a later tick, unless that one
\* rolls back, or a mandatory config is missing.
HalfPromotionIsMended ==
  HalfPromoted ~> (~HalfPromoted \/ status.phase = "Failed" \/ Missing)

\* A revision that is rolled back leaves nothing behind in the primary.
FailedLeavesNothing ==
  status.phase = "Failed" => ~HalfPromoted

\* A primary that has been promoted has a copy of every config it may have.
EveryConfigIsCopied ==
  status.phase = "Succeeded" /\ ~HasTargetChanged /\ ~HasConfigChanged({}) =>
    Renamed(Refs({})) \subseteq primary.own

\* An edit of a config of the target reaches the primary by a promotion only.
PrimaryIsIsolated ==
  [][primary # Absent /\ primary' = primary /\ copies' = copies
     => \A c \in primary.refs : Sees(c)' = Sees(c)]_vars
=============================================================================
