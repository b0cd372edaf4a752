----------------------- MODULE TransactionalInstaller -----------------------
(***************************************************************************)
(* The Manager's transaction (TransactionalInstaller.cs) and the plan it   *)
(* carries out (InstallPlanning.cs): stage, back up, replace, verify,      *)
(* write the receipt; whatever fails in between is rolled back.            *)
(*                                                                         *)
(* Managers of several releases may be open; each keeps the plan it made   *)
(* until it makes another, so a plan may be carried out after the files    *)
(* it saw have changed.  Transactions do not overlap, and while one runs   *)
(* nobody else writes the managed files: X-Plane and xPilot are closed.    *)
(***************************************************************************)
EXTENDS Naturals

CONSTANTS
    File, BridgeFile, Version, Content, Absent, Payload, NoReceipt,
    NoPlan, NoVersion,
    MaxDisturbances  \* failures, crashes, changes by others, unreadable receipts

ASSUME InstallerAssumption ==
    /\ BridgeFile \subseteq File
    /\ Version \subseteq Nat /\ NoReceipt \notin Version /\ NoVersion \notin Version
    /\ Absent \in Content
    /\ Payload \in [Version -> [File -> Content \ {Absent}]]
    /\ NoPlan \notin [files : SUBSET File, changes : SUBSET File, allowed : BOOLEAN]
    /\ MaxDisturbances \in Nat

VARIABLES
    files,         \* what the managed files hold
    receipt,       \* the release of the installation receipt
    plans,         \* the plan each release's Manager shows
    installer,     \* the release of the Manager whose transaction runs
    phase,
    backups,       \* what was backed up
    replaced,      \* the files on the list to roll back
    errors,        \* the files whose roll-back failed
    report,        \* what the pilot was last told
    disturbances

transactionVars == <<backups, replaced, errors>>
vars == <<files, receipt, plans, installer, phase, transactionVars, report, disturbances>>

InstallPlan == [files : SUBSET File, changes : SUBSET File, allowed : BOOLEAN]

TypeOK ==
    /\ files \in [File -> Content]
    /\ receipt \in Version \cup {NoReceipt}
    /\ plans \in [Version -> InstallPlan \cup {NoPlan}]
    /\ installer \in Version \cup {NoVersion}
    /\ phase \in {"idle", "staging", "backup", "replace", "verify", "receipt", "rollback"}
    /\ phase = "idle" <=> installer = NoVersion
    /\ backups \in [File -> Content]
    /\ replaced \in SUBSET File /\ errors \in SUBSET replaced
    /\ report \in {"none", "installed", "restored", "attention"}
    /\ disturbances \in 0 .. MaxDisturbances

NoBackups == [f \in File |-> Absent]

Init ==
    /\ files = [f \in File |-> Absent]
    /\ receipt = NoReceipt
    /\ plans = [v \in Version |-> NoPlan]
    /\ installer = NoVersion /\ phase = "idle"
    /\ backups = NoBackups
    /\ replaced = {} /\ errors = {}
    /\ report = "none" /\ disturbances = 0

Disturb == disturbances < MaxDisturbances /\ disturbances' = disturbances + 1

-----------------------------------------------------------------------------
(* Planning.                                                               *)

Matching(version) == {f \in File : files[f] = Payload[version][f]}

\* A plan selects the companion when xPilot 4 is there, finds the files that
\* differ, and is not allowed to a release older than the receipt's.  A
\* receipt that cannot be read counts as none.
Plan(version) ==
    /\ installer # version
    /\ \E selection \in {File \ BridgeFile, File}, safe, readable \in BOOLEAN :
        LET older == readable /\ receipt # NoReceipt /\ version < receipt
        IN  /\ selection = File => safe
            /\ plans' = [plans EXCEPT ![version] =
                   [files |-> selection,
                    changes |-> selection \ Matching(version),
                    allowed |-> safe /\ ~older]]
            /\ IF readable THEN UNCHANGED disturbances ELSE Disturb
    /\ UNCHANGED <<files, receipt, installer, phase, transactionVars, report>>

-----------------------------------------------------------------------------
(* The transaction.                                                        *)

plan == plans[installer]

Begin(version) ==
    /\ phase = "idle"
    /\ plans[version] # NoPlan
    /\ plans[version].allowed /\ plans[version].changes # {}
    /\ installer' = version /\ phase' = "staging"
    /\ report' = "none"
    /\ UNCHANGED <<files, receipt, plans, transactionVars, disturbances>>

\* The changed files are copied to a private directory and verified there.
Stage ==
    /\ phase = "staging" /\ phase' = "backup"
    /\ UNCHANGED <<files, receipt, plans, installer, transactionVars, report, disturbances>>

BackUp ==
    /\ phase = "backup" /\ phase' = "replace"
    /\ backups' = [f \in File |-> IF f \in plan.changes THEN files[f] ELSE backups[f]]
    /\ UNCHANGED <<files, receipt, plans, installer, replaced, errors, report, disturbances>>

\* A file is copied beside its destination and moved over it.
Replace ==
    /\ phase = "replace"
    /\ \E f \in plan.changes \ replaced :
        /\ files' = [files EXCEPT ![f] = Payload[installer][f]]
        /\ replaced' = replaced \cup {f}
        /\ phase' = IF replaced' = plan.changes THEN "verify" ELSE "replace"
    /\ UNCHANGED <<receipt, plans, installer, backups, errors, report, disturbances>>

VerifyChanges ==  \* mutant: checks only the files it has replaced
    /\ phase = "verify"
    /\ phase' = IF plan.changes \subseteq Matching(installer) THEN "receipt" ELSE "rollback"
    /\ UNCHANGED <<files, receipt, plans, installer, transactionVars, report, disturbances>>

\* Every file of the plan is checked, changed or not.
Verify ==
    /\ phase = "verify"
    /\ phase' = IF plan.files \subseteq Matching(installer) THEN "receipt" ELSE "rollback"
    /\ UNCHANGED <<files, receipt, plans, installer, transactionVars, report, disturbances>>

\* The receipt is written, and the Manager makes a new plan.
WriteReceipt ==
    /\ phase = "receipt" /\ phase' = "idle"
    /\ receipt' = installer /\ report' = "installed"
    /\ plans' = [plans EXCEPT ![installer] = NoPlan]
    /\ installer' = NoVersion /\ replaced' = {} /\ backups' = NoBackups
    /\ UNCHANGED <<files, errors, disturbances>>

Fail ==
    /\ phase \in {"staging", "backup", "replace", "verify", "receipt"}
    /\ phase' = "rollback" /\ Disturb
    /\ UNCHANGED <<files, receipt, plans, installer, transactionVars, report>>

\* A replaced file gets its backup back, or is deleted when there was none.
RollBack ==
    /\ phase = "rollback"
    /\ \E f \in replaced \ errors :
        /\ files' = [files EXCEPT ![f] = backups[f]]
        /\ replaced' = replaced \ {f}
    /\ UNCHANGED <<receipt, plans, installer, phase, backups, errors, report, disturbances>>

RollBackFails ==
    /\ phase = "rollback"
    /\ \E f \in replaced \ errors : errors' = errors \cup {f}
    /\ Disturb
    /\ UNCHANGED <<files, receipt, plans, installer, phase, backups, replaced, report>>

EndRollBackQuietly ==  \* mutant: leaves the list of the transaction that failed
    /\ phase = "rollback" /\ replaced = errors
    /\ phase' = "idle" /\ installer' = NoVersion
    /\ report' = IF errors = {} THEN "restored" ELSE "attention"
    /\ replaced' = {} /\ backups' = NoBackups
    /\ UNCHANGED <<files, receipt, plans, errors, disturbances>>

\* The pilot is told; the button stays enabled, with the plan as it was.
EndRollBack ==
    /\ phase = "rollback" /\ replaced = errors
    /\ phase' = "idle" /\ installer' = NoVersion
    /\ report' = IF errors = {} THEN "restored" ELSE "attention"
    /\ replaced' = {} /\ errors' = {} /\ backups' = NoBackups
    /\ UNCHANGED <<files, receipt, plans, disturbances>>

Crash ==
    /\ phase # "idle"
    /\ phase' = "idle" /\ installer' = NoVersion
    /\ plans' = [plans EXCEPT ![installer] = NoPlan]
    /\ replaced' = {} /\ errors' = {} /\ backups' = NoBackups /\ report' = "none"
    /\ Disturb
    /\ UNCHANGED <<files, receipt>>

\* Somebody else changes a file (external).
Change ==
    /\ phase = "idle"
    /\ \E f \in File, content \in Content : files' = [files EXCEPT ![f] = content]
    /\ Disturb
    /\ UNCHANGED <<receipt, plans, installer, phase, transactionVars, report>>

Next ==
    \/ \E version \in Version : Plan(version) \/ Begin(version)
    \/ Stage \/ BackUp \/ Replace \/ Verify \/ WriteReceipt
    \/ Fail \/ RollBack \/ RollBackFails \/ EndRollBack
    \/ Crash \/ Change

Spec == Init /\ [][Next]_vars

-----------------------------------------------------------------------------
(* Properties.                                                             *)

\* What a roll-back that succeeds would leave.
settled == [f \in File |-> IF f \in replaced THEN backups[f] ELSE files[f]]

Promise == INSTANCE Installation WITH files <- settled

\* The Manager keeps what its contract promises, for plans made before other
\* Managers and other hands changed the files, and wherever a step fails.
KeepsPromise == Promise!InstallationSpec

=============================================================================
