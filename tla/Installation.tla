---------------------------- MODULE Installation ----------------------------
(***************************************************************************)
(* What the Manager promises about the files of an installation            *)
(* (XVATSIM_MANAGER_CONTRACT_GATE.md, "Transaction Contract"): an          *)
(* installation happens as a whole or not at all, and the pilot is told    *)
(* which; only a crash, or a report that asks for attention, leaves some   *)
(* files old and some new.  TransactionalInstaller shows how.              *)
(***************************************************************************)
EXTENDS Naturals

CONSTANTS
    File,         \* the managed files
    BridgeFile,   \* those that belong to xPilot 4
    Version,      \* the releases
    Content,      \* what a file can hold
    Absent,       \* the content of a file that is not there
    Payload,      \* what each release holds
    NoReceipt

VARIABLES
    files,     \* what the managed files hold
    receipt,   \* the release that was receipted last
    report     \* what the pilot was last told

installationVars == <<files, receipt, report>>

InstallationInit ==
    /\ files = [f \in File |-> Absent]
    /\ receipt = NoReceipt
    /\ report = "none"

\* The files of a release, for xPilot 3 without the companion.
Selections == {File \ BridgeFile, File}

\* The files with those in `changed` replaced by the release's.
Mixed(version, changed) ==
    [f \in File |-> IF f \in changed THEN Payload[version][f] ELSE files[f]]

Ask == report' = "none" /\ UNCHANGED <<files, receipt>>

Install ==
    /\ \E version \in Version, selection \in Selections :
           files' = Mixed(version, selection) /\ receipt' = version
    /\ report' = "installed"

Restore == report' = "restored" /\ UNCHANGED <<files, receipt>>

AskForAttention ==
    /\ \E version \in Version, left \in SUBSET File :
           left # {} /\ files' = Mixed(version, left)
    /\ report' = "attention"
    /\ UNCHANGED receipt

BreakOff ==
    /\ \E version \in Version, left \in SUBSET File : files' = Mixed(version, left)
    /\ report' = "none"
    /\ UNCHANGED receipt

\* Somebody else changes a file.
Change ==
    /\ \E f \in File, content \in Content : files' = [files EXCEPT ![f] = content]
    /\ UNCHANGED <<receipt, report>>

InstallationNext == Ask \/ Install \/ Restore \/ AskForAttention \/ BreakOff \/ Change

InstallationSpec == InstallationInit /\ [][InstallationNext]_installationVars

=============================================================================
