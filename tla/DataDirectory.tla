----------------------------- MODULE DataDirectory -----------------------------
(***************************************************************************)
(* The files of the data directory beside the ledger's: the settings of    *)
(* the administrator and the log of the chain's blocks, in one program     *)
(* that stops and starts again.                                            *)
(***************************************************************************)
EXTENDS RuntimeSettings, ChainBlocks

vars == <<settingsVars, chainVars, faults>>

TypeOK == SettingsTypeOK /\ ChainTypeOK

Init == SettingsInit /\ ChainInit /\ faults = 0

\* The program stops and starts again (New, initPersistence).
Restart == Fault /\ LoadSettings /\ ForgetBlocks

Next ==
    \/ SettingsStep /\ UNCHANGED chainVars
    \/ BlocksStep /\ UNCHANGED <<settingsVars, faults>>
    \/ Restart

Spec == Init /\ [][Next]_vars
=============================================================================
