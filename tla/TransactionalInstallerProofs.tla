-------------------- MODULE TransactionalInstallerProofs --------------------
(***************************************************************************)
(* For every set of files, releases and contents, and however often steps  *)
(* fail: the Manager's transaction implements Installation.                *)
(***************************************************************************)
EXTENDS TransactionalInstaller, TLAPS

-----------------------------------------------------------------------------
(* The inductive invariant                                                 *)

PlansInv ==
    \A v \in Version : plans[v] # NoPlan =>
        /\ plans[v].files \in {File \ BridgeFile, File}
        /\ plans[v].changes \subseteq plans[v].files

\* The list to roll back is about the plan, and is filled by replacing only.
ReplacedInv ==
    /\ phase # "idle" => plan # NoPlan /\ replaced \subseteq plan.changes
    /\ phase \in {"idle", "staging", "backup"} => replaced = {}
    /\ phase # "rollback" => errors = {}
    /\ \A f \in replaced : files[f] = Payload[installer][f]

\* Until it is replaced, a file is as it was backed up.
BackupInv == phase = "replace" => \A f \in plan.changes \ replaced : backups[f] = files[f]

VerifiedInv == phase = "receipt" => \A f \in plan.files : files[f] = Payload[installer][f]

InstallerInv == TypeOK /\ PlansInv /\ ReplacedInv /\ BackupInv /\ VerifiedInv

LEMMA PlanIsTyped ==
    ASSUME TypeOK, phase # "idle", plan # NoPlan
    PROVE  /\ installer \in Version /\ plan \in InstallPlan
           /\ plan.files \in SUBSET File /\ plan.changes \in SUBSET File
<1>1. installer \in Version
  BY DEF TypeOK
<1>2. plan \in InstallPlan
  BY <1>1 DEF TypeOK, plan
<1> QED
  BY <1>1, <1>2 DEF InstallPlan

LEMMA InstallerInvInit == Init => InstallerInv
<1> SUFFICES ASSUME Init PROVE InstallerInv
  OBVIOUS
<1>1. TypeOK
  BY InstallerAssumption DEF Init, NoBackups, TypeOK
<1>2. PlansInv /\ ReplacedInv /\ BackupInv /\ VerifiedInv
  BY DEF Init, PlansInv, ReplacedInv, BackupInv, VerifiedInv
<1> QED
  BY <1>1, <1>2 DEF InstallerInv

-----------------------------------------------------------------------------
(* The steps                                                               *)

LEMMA PlanStep ==
    ASSUME InstallerInv, NEW version \in Version, Plan(version)
    PROVE  InstallerInv'
<1> USE DEF InstallerInv
<1>1. PICK selection \in {File \ BridgeFile, File}, allowed \in BOOLEAN :
          plans' = [plans EXCEPT ![version] =
              [files |-> selection, changes |-> selection \ Matching(version), allowed |-> allowed]]
  <2>1. PICK selection \in {File \ BridgeFile, File}, safe \in BOOLEAN, readable \in BOOLEAN :
            plans' = [plans EXCEPT ![version] =
                [files |-> selection, changes |-> selection \ Matching(version),
                 allowed |-> safe /\ ~(readable /\ receipt # NoReceipt /\ version < receipt)]]
    BY DEF Plan
  <2>2. (safe /\ ~(readable /\ receipt # NoReceipt /\ version < receipt)) \in BOOLEAN
    OBVIOUS
  <2> QED
    BY <2>1, <2>2
<1>2. disturbances' \in 0 .. MaxDisturbances
  BY InstallerAssumption DEF Plan, Disturb, TypeOK
<1>3. UNCHANGED <<files, receipt, installer, phase, backups, replaced, errors, report>>
      /\ installer # version
  BY DEF Plan, transactionVars
<1> DEFINE new == [files |-> selection, changes |-> selection \ Matching(version),
                   allowed |-> allowed]
<1>4. new \in InstallPlan
  BY DEF InstallPlan
<1>5. plans' \in [Version -> InstallPlan \cup {NoPlan}]
  BY <1>1, <1>4 DEF TypeOK
<1>6. TypeOK'
  BY <1>2, <1>3, <1>5 DEF TypeOK
<1>7. PlansInv'
  BY <1>1 DEF PlansInv, TypeOK
<1>8. phase # "idle" => plan' = plan
  BY <1>1, <1>3 DEF plan, TypeOK
<1>9. ReplacedInv' /\ BackupInv' /\ VerifiedInv'
  BY <1>3, <1>8 DEF ReplacedInv, BackupInv, VerifiedInv
<1> QED
  BY <1>6, <1>7, <1>9

LEMMA BeginStep ==
    ASSUME InstallerInv, NEW version \in Version, Begin(version)
    PROVE  InstallerInv'
<1> USE DEF InstallerInv, Begin, transactionVars
<1>1. TypeOK'
  BY InstallerAssumption DEF TypeOK
<1>2. PlansInv'
  BY DEF PlansInv
<1>3. ReplacedInv' /\ BackupInv' /\ VerifiedInv'
  BY DEF ReplacedInv, BackupInv, VerifiedInv, plan
<1> QED
  BY <1>1, <1>2, <1>3

LEMMA BackUpStep == ASSUME InstallerInv, BackUp PROVE InstallerInv'
<1> USE DEF InstallerInv, BackUp
<1>1. backups' \in [File -> Content]
  BY DEF TypeOK
<1>2. TypeOK'
  BY <1>1 DEF TypeOK
<1>3. PlansInv'
  BY DEF PlansInv
<1>4. plan' = plan
  BY DEF plan
<1>5. ReplacedInv'
  BY <1>4 DEF ReplacedInv
<1>6. plan.changes \subseteq File
  BY PlanIsTyped DEF ReplacedInv
<1>7. BackupInv' /\ VerifiedInv'
  BY <1>4, <1>6 DEF BackupInv, VerifiedInv
<1> QED
  BY <1>2, <1>3, <1>5, <1>7

LEMMA ReplaceStep == ASSUME InstallerInv, Replace PROVE InstallerInv'
<1> USE DEF InstallerInv
<1>1. PICK f \in plan.changes \ replaced :
          /\ files' = [files EXCEPT ![f] = Payload[installer][f]]
          /\ replaced' = replaced \cup {f}
          /\ phase' = IF replaced' = plan.changes THEN "verify" ELSE "replace"
  BY DEF Replace
<1>2. phase = "replace" /\ errors = {}
      /\ UNCHANGED <<receipt, plans, installer, backups, errors, report, disturbances>>
  BY DEF Replace, ReplacedInv
<1>3. f \in File /\ installer \in Version /\ plan.changes \subseteq File
  BY <1>1, <1>2, PlanIsTyped DEF ReplacedInv
<1>4. Payload[installer][f] \in Content
  BY <1>3, InstallerAssumption
<1>5. TypeOK'
  <2>1. files' \in [File -> Content]
    BY <1>1, <1>4 DEF TypeOK
  <2>2. replaced' \in SUBSET File /\ errors' \in SUBSET replaced'
    BY <1>1, <1>2, <1>3 DEF TypeOK
  <2> QED
    BY <1>1, <1>2, <2>1, <2>2 DEF TypeOK
<1>6. PlansInv'
  BY <1>2 DEF PlansInv
<1>7. plan' = plan
  BY <1>2 DEF plan
<1>8. ReplacedInv'
  BY <1>1, <1>2, <1>3, <1>7 DEF ReplacedInv, TypeOK
<1>9. BackupInv' /\ VerifiedInv'
  BY <1>1, <1>2, <1>3, <1>7 DEF BackupInv, VerifiedInv, TypeOK
<1> QED
  BY <1>5, <1>6, <1>8, <1>9

LEMMA RollBackStep == ASSUME InstallerInv, RollBack PROVE InstallerInv'
<1> USE DEF InstallerInv
<1>1. PICK f \in replaced \ errors :
          files' = [files EXCEPT ![f] = backups[f]] /\ replaced' = replaced \ {f}
  BY DEF RollBack
<1>2. phase = "rollback"
      /\ UNCHANGED <<receipt, plans, installer, phase, backups, errors, report, disturbances>>
  BY DEF RollBack
<1>3. f \in File /\ backups[f] \in Content
  BY <1>1 DEF TypeOK
<1>4. TypeOK'
  <2>1. files' \in [File -> Content]
    BY <1>1, <1>3 DEF TypeOK
  <2>2. replaced' \in SUBSET File /\ errors' \in SUBSET replaced'
    BY <1>1, <1>2 DEF TypeOK
  <2> QED
    BY <1>2, <2>1, <2>2 DEF TypeOK
<1>5. PlansInv'
  BY <1>2 DEF PlansInv
<1>6. plan' = plan
  BY <1>2 DEF plan
<1>7. ReplacedInv'
  BY <1>1, <1>2, <1>3, <1>6 DEF ReplacedInv, TypeOK
<1>8. BackupInv' /\ VerifiedInv'
  BY <1>2 DEF BackupInv, VerifiedInv
<1> QED
  BY <1>4, <1>5, <1>7, <1>8

\* Steps that end a transaction.
LEMMA EndStep ==
    ASSUME InstallerInv, WriteReceipt \/ EndRollBack \/ Crash
    PROVE  InstallerInv'
<1> USE DEF InstallerInv, WriteReceipt, EndRollBack, Crash
<1>1. phase # "idle" /\ phase' = "idle" /\ installer' = NoVersion
      /\ replaced' = {} /\ backups' = NoBackups /\ files' = files
  OBVIOUS
<1>2. errors' = {}
  BY DEF ReplacedInv
<1>3. installer \in Version
  BY <1>1 DEF TypeOK
<1>4. plans' = plans \/ plans' = [plans EXCEPT ![installer] = NoPlan]
  OBVIOUS
<1>5. plans' \in [Version -> InstallPlan \cup {NoPlan}]
  BY <1>4 DEF TypeOK
<1>6. NoBackups \in [File -> Content]
  BY InstallerAssumption DEF NoBackups
<1>7. disturbances' \in 0 .. MaxDisturbances
  BY InstallerAssumption DEF TypeOK, Disturb
<1>8. receipt' \in Version \cup {NoReceipt}
      /\ report' \in {"none", "installed", "restored", "attention"}
  BY <1>3 DEF TypeOK
<1>9. TypeOK'
  BY <1>1, <1>2, <1>5, <1>6, <1>7, <1>8 DEF TypeOK
<1>10. PlansInv'
  BY <1>3, <1>4 DEF PlansInv, TypeOK
<1>11. ReplacedInv' /\ BackupInv' /\ VerifiedInv'
  BY <1>1, <1>2 DEF ReplacedInv, BackupInv, VerifiedInv
<1> QED
  BY <1>9, <1>10, <1>11

\* Steps that change the phase only, and what failed.
LEMMA PhaseStep ==
    ASSUME InstallerInv, Stage \/ Verify \/ Fail \/ RollBackFails
    PROVE  InstallerInv'
<1> USE DEF InstallerInv, transactionVars
<1>1. UNCHANGED <<files, receipt, plans, installer, backups, replaced, report>>
  BY DEF Stage, Verify, Fail, RollBackFails
<1>2. phase # "idle" /\ installer \in Version
  BY DEF Stage, Verify, Fail, RollBackFails, TypeOK
<1>3. errors' \in SUBSET replaced /\ (phase' # "rollback" => errors' = {})
  BY DEF Stage, Verify, Fail, RollBackFails, TypeOK, ReplacedInv
<1>4. /\ phase' \in {"backup", "receipt", "rollback"}
      /\ phase' = "backup" => phase = "staging"
      /\ phase' = "receipt" => phase = "verify" /\ plan.files \subseteq Matching(installer)
  BY DEF Stage, Verify, Fail, RollBackFails
<1>5. disturbances' \in 0 .. MaxDisturbances
  BY InstallerAssumption DEF Stage, Verify, Fail, RollBackFails, Disturb, TypeOK
<1>6. TypeOK'
  BY <1>1, <1>2, <1>3, <1>4, <1>5, InstallerAssumption DEF TypeOK
<1>7. PlansInv'
  BY <1>1 DEF PlansInv
<1>8. plan' = plan
  BY <1>1 DEF plan
<1>9. ReplacedInv' /\ BackupInv' /\ VerifiedInv'
  BY <1>1, <1>2, <1>3, <1>4, <1>8 DEF ReplacedInv, BackupInv, VerifiedInv, Matching
<1> QED
  BY <1>6, <1>7, <1>9

LEMMA ChangeStep == ASSUME InstallerInv, Change PROVE InstallerInv'
<1> USE DEF InstallerInv, Change, transactionVars
<1>1. files' \in [File -> Content]
  BY DEF TypeOK
<1>2. disturbances' \in 0 .. MaxDisturbances
  BY InstallerAssumption DEF Disturb, TypeOK
<1>3. TypeOK'
  BY <1>1, <1>2 DEF TypeOK
<1>4. PlansInv' /\ ReplacedInv' /\ BackupInv' /\ VerifiedInv'
  BY DEF PlansInv, ReplacedInv, BackupInv, VerifiedInv
<1> QED
  BY <1>3, <1>4

LEMMA StutterStep == ASSUME InstallerInv, UNCHANGED vars PROVE InstallerInv'
<1> USE DEF InstallerInv, vars, transactionVars
<1>1. TypeOK' /\ PlansInv'
  BY DEF TypeOK, PlansInv
<1>2. ReplacedInv' /\ BackupInv' /\ VerifiedInv'
  BY DEF ReplacedInv, BackupInv, VerifiedInv, plan
<1> QED
  BY <1>1, <1>2

LEMMA InstallerInvStep == InstallerInv /\ [Next]_vars => InstallerInv'
<1> SUFFICES ASSUME InstallerInv, [Next]_vars PROVE InstallerInv'
  OBVIOUS
<1>1. CASE \E version \in Version : Plan(version) \/ Begin(version)
  BY <1>1, PlanStep, BeginStep
<1>2. CASE Stage \/ Verify \/ Fail \/ RollBackFails
  BY <1>2, PhaseStep
<1>3. CASE BackUp
  BY <1>3, BackUpStep
<1>4. CASE Replace
  BY <1>4, ReplaceStep
<1>5. CASE RollBack
  BY <1>5, RollBackStep
<1>6. CASE WriteReceipt \/ EndRollBack \/ Crash
  BY <1>6, EndStep
<1>7. CASE Change
  BY <1>7, ChangeStep
<1>8. CASE UNCHANGED vars
  BY <1>8, StutterStep
<1> QED
  BY <1>1, <1>2, <1>3, <1>4, <1>5, <1>6, <1>7, <1>8 DEF Next

-----------------------------------------------------------------------------
(* The theorems                                                            *)

\* The list to roll back, the backups and the plan agree with the files there
\* are, whatever fails and whatever others changed before.
THEOREM InstallerInvariant == Spec => []InstallerInv
  BY InstallerInvInit, InstallerInvStep, PTL DEF Spec

\* Every variable keeps its type.
THEOREM InstallerTypeCorrect == Spec => []TypeOK
<1>1. InstallerInv => TypeOK
  BY DEF InstallerInv
<1> QED
  BY <1>1, InstallerInvariant, PTL

-----------------------------------------------------------------------------
(* The refinement                                                          *)

LEMMA StepKeepsPromise ==
    ASSUME InstallerInv, InstallerInv', [Next]_vars
    PROVE  [Promise!InstallationNext]_(Promise!installationVars)
<1> USE DEF InstallerInv, Promise!installationVars
\* Nothing that Installation shows changes.
<1>1. ASSUME UNCHANGED <<files, replaced, backups, receipt, report>>
      PROVE  UNCHANGED <<settled, receipt, report>>
  BY <1>1 DEF settled
<1>2. CASE \E version \in Version : Plan(version)
  BY <1>1, <1>2 DEF Plan, transactionVars
<1>3. CASE \E version \in Version : Begin(version)
  <2>1. settled' = settled
    BY <1>3 DEF Begin, transactionVars, settled
  <2> QED
    BY <1>3, <2>1 DEF Begin, Promise!InstallationNext, Promise!Ask
<1>4. CASE Stage \/ Verify \/ Fail \/ RollBackFails
  BY <1>1, <1>4 DEF Stage, Verify, Fail, RollBackFails, transactionVars
<1>5. CASE BackUp
  <2>1. replaced = {} /\ replaced' = {} /\ files' = files
    BY <1>5 DEF BackUp, ReplacedInv
  <2>2. settled' = settled
    BY <2>1 DEF settled
  <2> QED
    BY <1>5, <2>2 DEF BackUp
<1>6. CASE Replace
  <2>1. PICK f \in plan.changes \ replaced :
            files' = [files EXCEPT ![f] = Payload[installer][f]] /\ replaced' = replaced \cup {f}
    BY <1>6 DEF Replace
  <2>2. phase = "replace" /\ UNCHANGED <<receipt, report, backups>>
    BY <1>6 DEF Replace
  <2>3. f \in File /\ backups[f] = files[f]
    BY <2>1, <2>2, PlanIsTyped DEF ReplacedInv, BackupInv
  <2>4. settled' = settled
    BY <2>1, <2>2, <2>3 DEF settled, TypeOK
  <2> QED
    BY <2>2, <2>4
<1>7. CASE RollBack
  <2>1. PICK f \in replaced \ errors :
            files' = [files EXCEPT ![f] = backups[f]] /\ replaced' = replaced \ {f}
    BY <1>7 DEF RollBack
  <2>2. UNCHANGED <<receipt, report, backups>>
    BY <1>7 DEF RollBack
  <2>3. settled' = settled
    BY <2>1, <2>2 DEF settled, TypeOK
  <2> QED
    BY <2>2, <2>3
\* What a transaction that ends leaves: the release's content in what it has
\* replaced.
<1>8. ASSUME phase # "idle", replaced' = {}, files' = files
      PROVE  /\ installer \in Version /\ replaced \in SUBSET File
             /\ settled' = Promise!Mixed(installer, replaced)
  <2>1. installer \in Version /\ replaced \in SUBSET File
    BY <1>8 DEF TypeOK
  <2>2. files = [f \in File |-> files[f]]
    BY DEF TypeOK
  <2>3. \A f \in replaced : files[f] = Payload[installer][f]
    BY DEF ReplacedInv
  <2>4. settled' = [f \in File |-> files[f]]
    BY <1>8 DEF settled
  <2>5. Promise!Mixed(installer, replaced) = [f \in File |-> files[f]]
    BY <2>3 DEF Promise!Mixed, settled
  <2> QED
    BY <2>1, <2>4, <2>5
<1>9. CASE WriteReceipt
  <2>1. phase = "receipt" /\ replaced' = {} /\ files' = files
        /\ receipt' = installer /\ report' = "installed"
    BY <1>9 DEF WriteReceipt
  <2>2. installer \in Version /\ plan # NoPlan
    BY <2>1 DEF TypeOK, ReplacedInv
  <2>3. plan.files \in Promise!Selections /\ plan.changes \subseteq plan.files
    BY <2>2 DEF PlansInv, plan, Promise!Selections
  <2>4. \A f \in plan.files : files[f] = Payload[installer][f]
    BY <2>1 DEF VerifiedInv
  <2>5. replaced \subseteq plan.files
    BY <2>1, <2>3 DEF ReplacedInv
  <2>6. settled' = [f \in File |-> files[f]]
    BY <2>1 DEF settled
  <2>7. Promise!Mixed(installer, plan.files) = [f \in File |-> files[f]]
    BY <2>4, <2>5 DEF Promise!Mixed, settled
  <2> QED
    BY <2>1, <2>2, <2>3, <2>6, <2>7 DEF Promise!InstallationNext, Promise!Install
<1>10. CASE EndRollBack
  <2>1. phase # "idle" /\ replaced' = {} /\ files' = files /\ receipt' = receipt
        /\ replaced = errors /\ report' = IF errors = {} THEN "restored" ELSE "attention"
    BY <1>10 DEF EndRollBack
  <2>2. CASE errors = {}
    <3>1. settled' = settled
      BY <2>1, <2>2 DEF settled
    <3> QED
      BY <2>1, <2>2, <3>1 DEF Promise!InstallationNext, Promise!Restore
  <2>3. CASE errors # {}
    BY <1>8, <2>1, <2>3 DEF Promise!InstallationNext, Promise!AskForAttention
  <2> QED
    BY <2>2, <2>3
<1>11. CASE Crash
  <2>1. phase # "idle" /\ replaced' = {} /\ files' = files /\ receipt' = receipt
        /\ report' = "none"
    BY <1>11 DEF Crash
  <2> QED
    BY <1>8, <2>1 DEF Promise!InstallationNext, Promise!BreakOff
<1>12. CASE Change
  <2>1. PICK f \in File, content \in Content : files' = [files EXCEPT ![f] = content]
    BY <1>12 DEF Change
  <2>2. replaced = {} /\ UNCHANGED <<replaced, receipt, report>>
    BY <1>12 DEF Change, ReplacedInv, transactionVars
  <2>3. settled' = [settled EXCEPT ![f] = content]
    BY <2>1, <2>2 DEF settled, TypeOK
  <2> QED
    BY <2>2, <2>3 DEF Promise!InstallationNext, Promise!Change
<1>13. CASE UNCHANGED vars
  BY <1>1, <1>13 DEF vars, transactionVars
<1> QED
  BY <1>2, <1>3, <1>4, <1>5, <1>6, <1>7, <1>9, <1>10, <1>11, <1>12, <1>13 DEF Next

\* The Manager keeps its promise: an installation is complete or undone, and
\* the pilot is told which, unless a crash or a report that asks for attention
\* says otherwise.
THEOREM InstallerKeepsPromise == Spec => KeepsPromise
<1>1. Init => Promise!InstallationInit
  BY DEF Init, settled, Promise!InstallationInit
<1>2. InstallerInv /\ InstallerInv' /\ [Next]_vars
      => [Promise!InstallationNext]_(Promise!installationVars)
  BY StepKeepsPromise
<1> QED
  BY <1>1, <1>2, InstallerInvariant, PTL DEF Spec, KeepsPromise, Promise!InstallationSpec

=============================================================================
