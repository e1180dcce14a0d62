---------------------------- MODULE RuntimeSettings ----------------------------
(***************************************************************************)
(* The settings an administrator changes while the pool runs: the form of  *)
(* /admin (handleAdminSettings), the update of the service's fields under  *)
(* Service.mu (UpdateAdminSettings), the file written after the unlock     *)
(* (saveRuntimeSettings), and what a start makes of it                     *)
(* (loadRuntimeSettings).                                                  *)
(*                                                                         *)
(* The file is written beside the old one and renamed, under persistMu:    *)
(* one step, of which a crash leaves nothing.  The announcements go the    *)
(* way of the fee and are left out.                                        *)
(***************************************************************************)
EXTENDS Integers, FiniteSets

CONSTANTS
    Admin,      \* requests to /admin/settings handled at a time
    Form,       \* what is typed into the form
    Configured, \* the settings the program is started with
    Coin,       \* atoms in a PAC
    MaxFee,     \* the highest fee, in basis points
    IntSize     \* how many numbers an int64 has

CONSTANT
    MaxFaults   \* bound: failed writes and restarts

Settings == [feeBPS : Int, payoutMin : Int, autoPayout : BOOLEAN]

\* What a start accepts in the file.
Loadable == {s \in Settings : s.feeBPS \in 0..MaxFee /\ s.payoutMin >= 0}

\* whole and frac are the two parts of the threshold typed, in PAC and in atoms.
ASSUME FormAssumption ==
    /\ Form \subseteq [fee : Int, whole : Nat, frac : Int, auto : BOOLEAN]
    /\ Coin \in Nat \ {0} /\ IntSize \in Nat \ {0} /\ MaxFee \in Nat

\* The program's flags: New replaces a threshold that is not positive; that the fee is in
\* the range that a start demands of the file is assumed, for nothing checks the flag.
ASSUME ConfiguredAssumption == Configured \in Loadable

VARIABLES
    settings,     \* Service: feeBPS, payoutMin and autoPayout
    settingsFile, \* runtime-settings.json, None while it does not exist
    saving,       \* per request: the settings it still has to save, or None
    adrift,       \* history: why the file may differ: a failed save, a form refused
                  \* halfway, or two updates at a time, since the last that was alone
    faults        \* history: how many faults there were

settingsVars == <<settings, settingsFile, saving, adrift>>

None == [none |-> TRUE]

Fault == faults < MaxFaults /\ faults' = faults + 1

\* Every form has the types of the program's fields, and the file can be loaded.
SettingsTypeOK ==
    /\ settings \in Settings /\ settingsFile \in Settings \cup {None}
    /\ saving \in [Admin -> Settings \cup {None}]
    /\ adrift \in BOOLEAN /\ faults \in Nat

SettingsInit ==
    /\ settings = Configured /\ settingsFile = None
    /\ saving = [a \in Admin |-> None]
    /\ adrift = FALSE

\* An int64 that overflows.
Wrapped(n) == LET m == n % IntSize IN IF 2 * m < IntSize THEN m ELSE m - IntSize

\* parseAdminPAC: a fraction typed with a sign is a number too.
ParsedMin(form) == Wrapped(form.whole * Coin + form.frac)

\* What the form says, as the service would have it.
Asked(form) == [feeBPS |-> form.fee, payoutMin |-> ParsedMin(form), autoPayout |-> form.auto]

Idle(a) == saving[a] = None
Quiet == \A a \in Admin : Idle(a)

MutantNoRangeCheck(form) == form.fee \in 0..MaxFee

\* UpdateAdminSettings refuses a negative threshold, which parseAdminPAC lets through.
Accepts(form) == form.fee \in 0..MaxFee /\ ParsedMin(form) >= 0

MutantSavesTheOld(a, form) ==
    /\ Idle(a) /\ Accepts(form)
    /\ settings' = Asked(form)
    /\ saving' = [saving EXCEPT ![a] = settings]
    /\ adrift' = ~Quiet
    /\ UNCHANGED <<settingsFile, faults>>

\* The form is accepted: the update, up to the unlock.
Update(a, form) ==
    /\ Idle(a) /\ Accepts(form)
    /\ settings' = Asked(form)
    /\ saving' = [saving EXCEPT ![a] = settings']
    /\ adrift' = ~Quiet
    /\ UNCHANGED <<settingsFile, faults>>

\* The threshold is refused when the fee has been set: the error page, and nothing saved.
RefuseHalfway(a, form) ==
    /\ Idle(a) /\ form.fee \in 0..MaxFee /\ ParsedMin(form) < 0
    /\ settings' = [settings EXCEPT !.feeBPS = form.fee]
    /\ adrift' = (adrift \/ settings' # settings)
    /\ UNCHANGED <<settingsFile, saving, faults>>

\* saveRuntimeSettings, and the page that says so.
Save(a) ==
    /\ ~Idle(a)
    /\ settingsFile' = saving[a]
    /\ saving' = [saving EXCEPT ![a] = None]
    /\ UNCHANGED <<settings, adrift, faults>>

\* The write fails: the error page, with the update in force.
SaveFails(a) ==
    /\ ~Idle(a) /\ Fault
    /\ saving' = [saving EXCEPT ![a] = None]
    /\ adrift' = TRUE
    /\ UNCHANGED <<settings, settingsFile>>

\* What a start has in force: the file before the flags.
Loaded == IF settingsFile = None THEN Configured ELSE settingsFile

\* loadRuntimeSettings, in a program that has just started; a file it refuses ends it.
LoadSettings ==
    /\ Loaded \in Loadable
    /\ settings' = Loaded
    /\ saving' = [a \in Admin |-> None]
    /\ adrift' = FALSE
    /\ UNCHANGED settingsFile

SettingsStep ==
    \E a \in Admin :
        \/ \E form \in Form : Update(a, form) \/ RefuseHalfway(a, form)
        \/ Save(a)
        \/ SaveFails(a)

-----------------------------------------------------------------------------
(* Safety.                                                                  *)

\* Whatever is typed, and whatever overflows, a file is never written that the next
\* start would refuse: an administrator cannot lock the pool out (parseAdminPAC,
\* UpdateAdminSettings, loadRuntimeSettings).
FileLoads == settingsFile # None => settingsFile \in Loadable

\* What is in force is what a restart would put in force, once the requests are done,
\* unless a save failed, a form was refused halfway or updates overlapped since the last
\* update that was alone (admin.go:54: saved settings take effect at once and are
\* written to the runtime configuration).
SettingsAreKept == Quiet /\ ~adrift => settings = Loaded
=============================================================================
