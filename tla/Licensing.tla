----------------------------- MODULE Licensing -----------------------------
(***************************************************************************)
(* The license of a server over time, and the alert about it.              *)
(*                                                                         *)
(* A license is installed through a temporary file that all installs share, *)
(* by requests of the web application and by processes of the CLI. Without  *)
(* one, a trial runs from the day of the oldest account. The alert is set   *)
(* by a check each minute, and by an install of the web application; who    *)
(* checks reads first and sets the alert afterwards.                       *)
(*                                                                         *)
(* For builds that enforce licenses; in the others nothing happens.         *)
(***************************************************************************)
EXTENDS Integers, FiniteSets, FiniteSetsExt

CONSTANTS
    Installers,     \* installs of the web application
    Shells,         \* installs of the CLI
    TrialDays,
    GraceDays,
    WarnDays,       \* a license is expiring
    TrialWarnDays,  \* a trial is ending
    LastDay,        \* bound: days
    MaxChanges      \* bound: installs, restarts, accounts made and deleted

ASSUME DaysType == TrialDays \in Nat /\ GraceDays \in Nat /\ WarnDays \in Nat /\ TrialWarnDays \in Nat
ASSUME LicenseBounds == LastDay \in Nat /\ MaxChanges \in Nat
ASSUME InstallersFinite == IsFiniteSet(Installers \cup Shells)

VARIABLES
    today,
    accountDays,    \* the days the accounts there are were made
    keyFile,        \* license.key: the file of that name, 0: none
    tmpFile,        \* license.tmp
    text,           \* what each file holds
    installer,      \* where an install is, with its license and the file it has opened
    checked,        \* what a check has read: what the alert is to be
    alert,          \* AlertManager: the alert "license"
    changes

licenseVars == <<today, accountDays, keyFile, tmpFile, text, installer, checked, alert, changes>>

Days == 0 .. LastDay
Never == LastDay + 1
\* A license of this server; any other text is not one: another server's, a damaged one.
License == [expires : Days \cup {Never}]
Damaged == [is |-> "damaged"]
Empty == [is |-> "empty"]
Text == License \cup {Damaged, Empty}

AllInstallers == Installers \cup Shells
Minutely == "maintenance"
AlertCheckers == Installers \cup {Minutely}
KeyFiles == 1 .. Cardinality(AllInstallers) + 2
AlertLevels == {"off", "warning", "critical"}
NotChecking == "nothing"
NotInstalling == [at |-> "idle"]
Install == [at : {"open", "write", "replace", "check"}, license : License, file : KeyFiles \cup {0}]

LicenseTypeOK ==
    /\ today \in Days /\ accountDays \subseteq Days
    /\ {keyFile, tmpFile} \subseteq KeyFiles \cup {0}
    /\ text \in [KeyFiles -> Text]
    /\ installer \in [AllInstallers -> Install \cup {NotInstalling}]
    /\ checked \in [AlertCheckers -> AlertLevels \cup {NotChecking}]
    /\ alert \in AlertLevels
    /\ changes \in 0 .. MaxChanges

Changes == changes < MaxChanges /\ changes' = changes + 1

-----------------------------------------------------------------------------
(* status_info. *)

Installed == IF keyFile = 0 THEN Empty ELSE text[keyFile]
IsValid == Installed \in License

\* _trial_start: without an account, today
TrialEnd == (IF accountDays = {} THEN today ELSE Min(accountDays)) + TrialDays

\* allows_new_work
AllowsNewWork ==
    IF IsValid THEN Installed.expires = Never \/ today <= Installed.expires + GraceDays
    ELSE today <= TrialEnd

\* A license that is expiring or in its grace; a file that is not one; the trial's last days
IsWorthWarning ==
    IF IsValid THEN Installed.expires # Never /\ Installed.expires - today <= WarnDays
    ELSE keyFile # 0 \/ TrialEnd - today <= TrialWarnDays

\* check_alert: fire or clear
AlertLevel == IF ~AllowsNewWork THEN "critical" ELSE IF IsWorthWarning THEN "warning" ELSE "off"

-----------------------------------------------------------------------------
(* install. *)

Goes(i, at) == installer' = [installer EXCEPT ![i].at = at]

\* Another text than a license of this server, or one past its grace, is refused.
InstallBegins(i, l) ==
    /\ installer[i] = NotInstalling /\ Changes
    /\ today <= l.expires + GraceDays
    /\ installer' = [installer EXCEPT ![i] = [at |-> "open", license |-> l, file |-> 0]]
    /\ UNCHANGED <<today, accountDays, keyFile, tmpFile, text, checked, alert>>

InUse == {keyFile} \cup {installer[i].file : i \in {j \in AllInstallers : installer[j] # NotInstalling}}

\* Opening it for writing empties it, whoever made it.
OpensTmp(i) ==
    /\ installer[i].at = "open"
    /\ tmpFile' = IF tmpFile # 0 THEN tmpFile ELSE CHOOSE f \in KeyFiles : f \notin InUse
    /\ text' = [text EXCEPT ![tmpFile'] = Empty]
    /\ installer' = [installer EXCEPT ![i].at = "write", ![i].file = tmpFile']
    /\ UNCHANGED <<today, accountDays, keyFile, checked, alert, changes>>

\* Over a text another has written meanwhile, what is longer of that remains.
WritesTmp(i) ==
    LET me == installer[i]
        results == {me.license} \cup IF text[me.file] \in {Empty, me.license} THEN {} ELSE {Damaged}
    IN
    /\ me.at = "write" /\ Goes(i, "replace")
    /\ \E t \in results : text' = [text EXCEPT ![me.file] = t]
    /\ UNCHANGED <<today, accountDays, keyFile, tmpFile, checked, alert, changes>>

\* chmod and replace: both raise when another install has moved the file away. The CLI's
\* install ends here: the alert is the server's.
ReplacesKey(i) ==
    /\ installer[i].at = "replace"
    /\ IF tmpFile = 0 THEN UNCHANGED <<keyFile, text>>
       ELSE keyFile' = tmpFile /\ text' = [f \in KeyFiles |-> IF f = keyFile THEN Damaged ELSE text[f]]
    /\ tmpFile' = 0
    /\ IF tmpFile # 0 /\ i \in Installers THEN Goes(i, "check")
       ELSE installer' = [installer EXCEPT ![i] = NotInstalling]
    /\ UNCHANGED <<today, accountDays, checked, alert, changes>>

-----------------------------------------------------------------------------
(* check_alert, by an install and each minute. *)

Reads(c) ==
    /\ checked[c] = NotChecking
    /\ checked' = [checked EXCEPT ![c] = AlertLevel]
    /\ UNCHANGED <<today, accountDays, keyFile, tmpFile, text, alert, changes>>

CheckRead(c) ==
    /\ Reads(c)
    /\ \/ c = Minutely /\ UNCHANGED installer
       \/ c \in Installers /\ installer[c].at = "check" /\ installer' = [installer EXCEPT ![c] = NotInstalling]

\* Mutant of CheckTold: an alert is never cleared.
CheckToldFired(c) ==
    /\ checked[c] # NotChecking
    /\ alert' = IF checked[c] = "off" THEN alert ELSE checked[c]
    /\ checked' = [checked EXCEPT ![c] = NotChecking]
    /\ UNCHANGED <<today, accountDays, keyFile, tmpFile, text, installer, changes>>

CheckTold(c) ==
    /\ checked[c] # NotChecking
    /\ alert' = checked[c]
    /\ checked' = [checked EXCEPT ![c] = NotChecking]
    /\ UNCHANGED <<today, accountDays, keyFile, tmpFile, text, installer, changes>>

-----------------------------------------------------------------------------
DayPasses ==
    /\ today < LastDay /\ today' = today + 1
    /\ UNCHANGED <<accountDays, keyFile, tmpFile, text, installer, checked, alert, changes>>

\* There is an account once setup is done, and at least an administrator's ever after.
AccountsChange ==
    /\ Changes
    /\ \/ accountDays' = accountDays \cup {today}
       \/ \E d \in accountDays : accountDays' = accountDays \ {d} /\ accountDays' # {}
    /\ UNCHANGED <<today, keyFile, tmpFile, text, installer, checked, alert>>

\* Alerts are in memory; what the CLI does goes on.
ServerRestarts ==
    /\ Changes
    /\ installer' = [i \in AllInstallers |-> IF i \in Shells THEN installer[i] ELSE NotInstalling]
    /\ checked' = [c \in AlertCheckers |-> NotChecking]
    /\ alert' = "off"
    /\ UNCHANGED <<today, accountDays, keyFile, tmpFile, text>>

\* A server without a license, or with a file that is not one of its own
LicenseInit ==
    /\ today = 0 /\ accountDays = {}
    /\ keyFile \in {0, 1} /\ tmpFile = 0
    /\ text = [f \in KeyFiles |-> Damaged]
    /\ installer = [i \in AllInstallers |-> NotInstalling]
    /\ checked = [c \in AlertCheckers |-> NotChecking]
    /\ alert = "off" /\ changes = 0

LicenseNext ==
    \/ \E i \in AllInstallers :
          (\E l \in License : InstallBegins(i, l)) \/ OpensTmp(i) \/ WritesTmp(i) \/ ReplacesKey(i)
    \/ \E c \in AlertCheckers : CheckRead(c) \/ CheckTold(c)
    \/ DayPasses \/ AccountsChange \/ ServerRestarts

LicenseSpec == LicenseInit /\ [][LicenseNext]_licenseVars

\* The maintenance thread goes on.
LicenseFairness == WF_licenseVars(CheckRead(Minutely)) /\ WF_licenseVars(CheckTold(Minutely))

-----------------------------------------------------------------------------
(* Properties. *)

\* In the end, when no day passes and nothing is changed any more, the alert says of the license or
\* the trial what is so, whoever installed what, in whatever order checks read and tell, and
\* whichever account is the oldest now (licensing.py: check_alert).
LicenseAlertSettles == <>[](alert = AlertLevel)
=============================================================================
