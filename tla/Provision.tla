----------------------------- MODULE Provision -----------------------------
(***************************************************************************)
(* From power on to a box that serves: the factory reset before DATA is    *)
(* mounted (epilykos-factory-reset-boot), the shadow file, the import of   *)
(* the files on BOOT (epilykos-wifi-import), then sshd, the app and hostd. *)
(* Power may be cut between any two writes; while it is off somebody may   *)
(* put a file on the card.                                                 *)
(*                                                                         *)
(* Each step of the import is a program of writes that is worked off in    *)
(* thread Boot; an exception ends the step, not the import.  It may come   *)
(* from a write that fails or from a file nobody foresaw.  BOOT is         *)
(* mounted read-only: a file is gone for good once it is unlinked and the  *)
(* partition is remounted, and stays when it cannot be remounted.          *)
(***************************************************************************)
EXTENDS BootFiles, Settings, SequencesExt

CONSTANTS
  Cards,       \* what the card may hold when it is first put in
  Edits,       \* files somebody may save on it later: sets of [name, text]
  MaxEdits, MaxCuts,
  MaxMixed     \* edits, cuts and faults together, once there was a request

ASSUME ProvisionAssumption == MaxEdits \in Nat /\ MaxCuts \in Nat /\ MaxMixed \in Nat

VARIABLES
  pc, step,    \* where the boot is; the step of the import
  boot,        \* the files on BOOT
  carried,     \* the reset request on BOOT: "no", "erased" DATA, or "served":
               \* it did and the box was up since
  failed,      \* the steps of this boot's import in which something failed
  edits, cuts

place == <<pc, step, boot, carried, failed, edits, cuts>>
vars == <<settings, place>>

RequestFile == "factory-reset.txt"
KeysFile == "authorized_keys"
PasswordFile == "dashboard-password.txt"
Sources == {BOOT_SOURCES[i] : i \in 1..Len(BOOT_SOURCES)}
Names == Sources \cup {RequestFile, KeysFile, PasswordFile}

On(name) == boot[name] # NoFile

\* One more edit, cut or fault is within the bound MaxMixed.
OneMore == requests = 0 \/ edits + cuts + faults < MaxMixed

\* A box that was in use before, and a new one.
Used == [Fresh EXCEPT !.password = "old", !.twostep = TRUE]

Init ==
  /\ data \in {Fresh, Used} /\ disk = data
  /\ shadow = NoHash /\ sshd = FALSE /\ radio = "" /\ app = NoApp
  /\ threads = [t \in Threads \cup {Boot} |-> Idle]
  /\ raced = {} /\ faults = 0 /\ requests = 0
  /\ pc = "off" /\ step = 0 /\ carried = "no" /\ failed = {} /\ edits = 0 /\ cuts = 0
  /\ boot \in Cards

-----------------------------------------------------------------------------
(* Power and the card.                                                     *)

TurnedOff ==
  /\ shadow' = NoHash /\ sshd' = FALSE /\ radio' = "" /\ app' = NoApp
  /\ threads' = [t \in DOMAIN threads |-> Idle]
  /\ pc' = "off" /\ step' = 0 /\ failed' = {}
  /\ UNCHANGED <<raced, faults, requests, boot, carried, edits>>

PowerOn ==
  /\ pc = "off" /\ pc' = "reset"
  /\ UNCHANGED <<settings, step, boot, carried, failed, edits, cuts>>

\* mke2fs cut short leaves the old DATA or one that does not mount.
PowerCut ==
  /\ pc # "off" /\ cuts < MaxCuts /\ OneMore /\ cuts' = cuts + 1
  /\ disk' \in IF pc = "mkfs" THEN {disk, Fresh} ELSE {disk} \cup Torn(Boot)
  /\ data' = disk'
  /\ TurnedOff

\* Restart, shutdown and reboots of updates: file systems are unmounted.
ShutDown ==
  /\ pc = "up"
  /\ TurnedOff
  /\ disk' = data
  /\ UNCHANGED <<data, cuts>>

CardEdited ==
  /\ pc = "off" /\ edits < MaxEdits /\ OneMore /\ edits' = edits + 1
  /\ \E e \in Edits :
       /\ boot' = [boot EXCEPT ![e.name] = e.text]
       /\ carried' = IF e.name = RequestFile THEN "no" ELSE carried
  /\ UNCHANGED <<settings, pc, step, failed, cuts>>

\* hostd's factory_reset and epilykos-factory-reset; the reboot follows.
factory_reset ==
  /\ pc = "up" /\ edits < MaxEdits /\ OneMore /\ edits' = edits + 1
  /\ boot' = [boot EXCEPT ![RequestFile] = [Empty EXCEPT !.word = "asked"]]
  /\ carried' = "no"
  /\ UNCHANGED <<settings, pc, step, failed, cuts>>

-----------------------------------------------------------------------------
(* epilykos-factory-reset-boot and epilykos-ssh shadow.                    *)

\* Mutant: the record of the reset carried out is not looked at.
ResetBootAgain ==
  /\ pc = "reset"
  /\ pc' = IF On(RequestFile) /\ confirmed(boot[RequestFile]) THEN "mkfs" ELSE "shadow"
  /\ UNCHANGED <<settings, step, boot, carried, failed, edits, cuts>>

ResetBoot ==
  /\ pc = "reset"
  /\ pc' = IF ~On(RequestFile) \/ ~confirmed(boot[RequestFile]) THEN "shadow"
           ELSE IF data.done = boot[RequestFile].word THEN "unrequest" ELSE "mkfs"
  /\ UNCHANGED <<settings, step, boot, carried, failed, edits, cuts>>

\* The new DATA, then its record of the request, which may fail.
Mkfs ==
  /\ pc = "mkfs" /\ pc' = "record"
  /\ data' = Fresh /\ disk' = Fresh
  /\ carried' = "erased"
  /\ UNCHANGED <<shadow, sshd, radio, app, threads, raced, faults, requests, step, boot, failed, edits, cuts>>

Record ==
  /\ pc = "record" /\ pc' = "unrequest"
  /\ \/ data' = [data EXCEPT !.done = boot[RequestFile].word] /\ UNCHANGED faults
     \/ faults < MaxFaults /\ OneMore /\ faults' = faults + 1 /\ UNCHANGED data
  /\ disk' = data'
  /\ UNCHANGED <<shadow, sshd, radio, app, threads, raced, requests, step, boot, carried, failed, edits, cuts>>

\* delete_request: BOOT may refuse to be written.
Unrequest ==
  /\ pc = "unrequest" /\ pc' = "shadow"
  /\ \/ /\ boot' = [boot EXCEPT ![RequestFile] = NoFile] /\ carried' = "no"
        /\ UNCHANGED faults
     \/ faults < MaxFaults /\ OneMore /\ faults' = faults + 1 /\ UNCHANGED <<boot, carried>>
  /\ UNCHANGED <<data, disk, shadow, sshd, radio, app, threads, raced, requests, step, failed, edits, cuts>>

-----------------------------------------------------------------------------
(* epilykos-wifi-import: the program of each step, from the files as they  *)
(* are when it begins.                                                     *)

\* A file is read leniently and written strictly: a key with an odd byte
\* raises UnicodeEncodeError when it is to be written.
AddOps(k) == IF k = "odd" THEN <<Do("raise", "")>> ELSE KeyOps("add_key", k)

apply_ssh(hash, keys) ==
  FlattenSeq([i \in DOMAIN keys |-> AddOps(keys[i])])
  \o (IF hash # "" THEN <<Do("hash", hash)>> ELSE <<>>)
  \o ShadowOps \o <<Do("enabled", TRUE)>>

import_ssh_files ==
  LET s == parse_firstrun_ssh(boot["firstrun.sh"])
      ks == parse_authorized_keys(boot[KeysFile])
  IN (IF On("firstrun.sh") /\ s.enabled /\ (s.hash # "" \/ s.keys # <<>>)
      THEN apply_ssh(s.hash, s.keys) ELSE <<>>)
     \o (IF On(KeysFile) /\ ks # <<>>
         THEN apply_ssh("", ks) \o <<Do("unlink", KeysFile)>> ELSE <<>>)

import_dashboard_password ==
  LET w == parse_boot_file(boot[PasswordFile]) IN
  IF On(PasswordFile) /\ ~boot[PasswordFile].blank /\ w # ""
  THEN <<Do("password", w), Do("twostep", ""), Do("unlink", PasswordFile)>> ELSE <<>>

\* What is parsed is removed at the end, whether it held a network or not.
Readable(name) == On(name) /\ ~boot[name].blank
Consumed(name) == Readable(name) /\ parse(name, boot[name]) \notin {Refused, Raised}
IsNet(name) == Consumed(name) /\ parse(name, boot[name]).is = "net"

\* An exception that is not expected ends the loop over the files, and the
\* step with it.
NetOps(name) ==
  LET n == parse(name, boot[name]) IN
  CASE IsNet(name) ->
         <<Do("othernet", n), Do("net", n)>>
         \o (IF n.country # "" THEN <<Do("country", n.country)>> ELSE <<>>)
    [] Readable(name) /\ n = Raised -> <<Do("raise", "")>>
    [] OTHER -> <<>>

AllNetOps == FlattenSeq([i \in DOMAIN BOOT_SOURCES |-> NetOps(BOOT_SOURCES[i])])
Unlinks ==
  LET names == SelectSeq(BOOT_SOURCES, Consumed) IN [i \in DOMAIN names |-> Do("unlink", names[i])]

\* Mutant: the files are removed before what they say is saved.
import_boot_files_unlink_first == Unlinks \o AllNetOps

\* Mutant: a file that cannot be used ends the import.
import_boot_files_give_up ==
  IF \E n \in Sources : On(n) /\ ~Consumed(n) THEN <<>> ELSE AllNetOps \o Unlinks

import_boot_files == AllNetOps \o Unlinks

forget_factory_reset ==
  IF data.done # "none" /\ ~On(RequestFile) THEN <<Do("done", "none")>> ELSE <<>>

Program(n) ==
  CASE n = 1 -> import_ssh_files
    [] n = 2 -> import_dashboard_password
    [] n = 3 -> import_boot_files
    [] n = 4 -> forget_factory_reset
    [] OTHER -> <<Do("radio", "")>>   \* apply_country
LastStep == 5

\* epilykos-ssh shadow, and the import begins.
Shadow ==
  /\ pc = "shadow" /\ pc' = "import" /\ step' = 1
  /\ shadow' = data.hash
  /\ threads' = [threads EXCEPT ![Boot].todo = Program(1)]
  /\ UNCHANGED <<data, disk, sshd, radio, app, raced, faults, requests, boot, carried, failed, edits, cuts>>

NextStep ==
  /\ pc = "import" /\ ~Busy(Boot) /\ step < LastStep
  /\ step' = step + 1
  /\ threads' = [threads EXCEPT ![Boot].todo = Program(step + 1)]
  /\ UNCHANGED <<data, disk, shadow, sshd, radio, app, raced, faults, requests, pc, boot, carried, failed, edits, cuts>>

\* What was still to do in the step is not done.
Raise ==
  /\ Busy(Boot) /\ Doing(Boot).do = "raise"
  /\ Then(Boot, <<>>)
  /\ failed' = failed \cup {step}
  /\ UNCHANGED <<data, disk, shadow, sshd, radio, app, raced, faults, requests, pc, step, boot, carried, edits, cuts>>

Unlink ==
  /\ Busy(Boot) /\ Doing(Boot).do = "unlink"
  /\ boot' = [boot EXCEPT ![Doing(Boot).arg] = NoFile]
  /\ Done1(Boot)
  /\ UNCHANGED <<data, disk, shadow, sshd, radio, app, raced, faults, requests, pc, step, carried, failed, edits, cuts>>

\* sshd's condition, and epilykos-run.
Up ==
  /\ pc = "import" /\ ~Busy(Boot) /\ step = LastStep
  /\ pc' = "up" /\ step' = 0
  /\ sshd' = data.enabled
  /\ app' = Started
  /\ carried' = IF carried = "erased" THEN "served" ELSE carried
  /\ UNCHANGED <<data, disk, shadow, radio, threads, raced, faults, requests, boot, failed, edits, cuts>>

-----------------------------------------------------------------------------
BootStep == ResetBoot \/ Mkfs \/ Record \/ Unrequest \/ Shadow \/ NextStep \/ Raise \/ Unlink \/ Up

\* The steps of Settings; hostd serves once the box is up.
Runs(t) == ThreadStep(t) /\ UNCHANGED place
Breaks(t) ==
  /\ OneMore
  /\ Fails(t) \/ ReadFails(t)
  /\ failed' = IF t = Boot THEN failed \cup {step} ELSE failed
  /\ UNCHANGED <<pc, step, boot, carried, edits, cuts>>
Serves(t) == pc = "up" /\ edits + cuts + faults <= MaxMixed /\ Request(t) /\ UNCHANGED place
Dies == OneMore /\ HostdDies /\ UNCHANGED place

Next ==
  \/ PowerOn \/ PowerCut \/ ShutDown \/ CardEdited \/ factory_reset
  \/ BootStep \/ Dies
  \/ \E t \in DOMAIN threads : Runs(t) \/ Breaks(t)
  \/ \E t \in Threads : Serves(t)

Spec == Init /\ [][Next]_vars

-----------------------------------------------------------------------------
(* Properties.                                                             *)

\* A later file for the same SSID wins, and a later country.
Latest(names) ==
  BOOT_SOURCES[CHOOSE i \in DOMAIN BOOT_SOURCES :
    /\ BOOT_SOURCES[i] \in names
    /\ \A j \in DOMAIN BOOT_SOURCES : BOOT_SOURCES[j] \in names => j <= i]

NetSaved(n) ==
  LET s == parse(n, boot[n]).ssid
      for == {m \in Sources : IsNet(m) /\ parse(m, boot[m]).ssid = s}
  IN IsNet(n) => data.nets[s] = parse(Latest(for), boot[Latest(for)]).pass

CountrySaved(n) ==
  LET for == {m \in Sources : IsNet(m) /\ parse(m, boot[m]).country # ""}
  IN n \in for => data.country = parse(Latest(for), boot[Latest(for)]).country

\* The SSH settings of firstrun.sh, which another step saves.
SshSaved ==
  LET s == parse_firstrun_ssh(boot["firstrun.sh"]) IN
  s.enabled /\ (s.hash # "" \/ s.keys # <<>>) =>
    /\ data.enabled /\ ToSet(s.keys) \subseteq data.keys
    /\ s.hash # "" => data.hash = s.hash

Unlinked(n) == pc = "import" /\ On(n) /\ boot'[n] = NoFile

\* The import removes a file from BOOT only when all that it says is on DATA:
\* the network, the country, the SSH settings, the keys, the password; in
\* whatever order writes and files failed and power was cut.  The exception is
\* the SSH part of firstrun.sh when the step that saves it (the first) met an
\* exception or a file it could not read, and the keys in the latter case.
\* DATA is what programs see: UnlinkedIsDurable is about what a cut leaves, and
\* does not hold, nor does FirstrunSshKept.
UnlinkedIsSaved ==
  [][\A n \in Names : Unlinked(n) =>
       /\ n \in Sources => NetSaved(n) /\ CountrySaved(n)
       /\ n = "firstrun.sh" /\ 1 \notin failed => SshSaved
       /\ n = KeysFile /\ 1 \notin failed => ToSet(boot[n].keys) \subseteq data.keys /\ data.enabled
       /\ n = PasswordFile => data.password = parse_boot_file(boot[n]) /\ ~data.twostep]_vars

\* The claim of decode_boot_file, that a file is read leniently so that an odd
\* byte does not lose it, for the SSH settings of firstrun.sh: with no fault at
\* all the file is not removed before they are saved.
FirstrunSshKept ==
  [][Unlinked("firstrun.sh") /\ faults = 0 => SshSaved]_vars

\* The same of what a power cut leaves of DATA: a key whose file on BOOT is
\* gone is not lost by one.
UnlinkedIsDurable ==
  [][Unlinked(KeysFile) /\ faults = 0 => ToSet(boot[KeysFile].keys) \subseteq disk.keys]_vars

NoSourceWaits == \A n \in Sources : ~Consumed(n)
NoKeysWait ==
  On(KeysFile) => LET ks == parse_authorized_keys(boot[KeysFile]) IN ks = <<>> \/ "odd" \in ToSet(ks)
NoPasswordWaits == On(PasswordFile) => parse_boot_file(boot[PasswordFile]) = ""

\* Once the box is up no file with usable settings waits on BOOT any more,
\* after however many boots that were cut short, and although other files
\* cannot be used and stay: unless the step that reads it met a fault or an
\* exception it does not expect.
NothingWaits ==
  pc = "up" =>
    /\ 3 \in failed \/ NoSourceWaits
    /\ 1 \in failed \/ NoKeysWait
    /\ 2 \in failed \/ NoPasswordWaits

\* The claim of main(), that a file that cannot be applied does not keep the
\* others from being applied, above all the Wi-Fi settings.
OthersApplied == pc = "up" /\ faults = 0 => NoSourceWaits

\* A factory reset is not carried out again on a box that was up since,
\* although the record of it or the removal of the request failed.
NeverTwice == [][pc = "reset" /\ pc' = "mkfs" => carried # "served"]_vars

\* With no request in progress, what is saved is in force: SSH and its
\* password, the app's port, zone and password, and the radio's country.  Not
\* after a failure, and not for settings that two requests were changing at
\* once; but sshd does not run with SSH off whatever requests overlapped.
InForce ==
  pc = "up" /\ (\A t \in Threads : ~Busy(t)) /\ faults = 0 =>
    /\ sshd => data.enabled
    /\ "ssh" \in raced \/ sshd = data.enabled
    /\ "password" \in raced \/ shadow = data.hash
    /\ "dashboard" \in raced \/ app.password = data.password
    /\ "port" \in raced \/ app.port = data.port
    /\ "zone" \in raced \/ (app.zone = data.zone /\ effective_country(data) \in {"", radio})

\* A key goes only when it is removed, when DATA is erased, or when it was added
\* so late before a power cut that DATA had not committed it; and one that is
\* not there comes back only when it is added, or when such a cut undoes its
\* removal.
KeysChangeAsAsked ==
  LET asked(what, k) == \E t \in DOMAIN threads : Busy(t) /\ Doing(t) = Do(what, k) IN
  /\ \A k \in data.keys \ data'.keys :
       pc = "mkfs" \/ asked("remove_key", k) \/ (pc' = "off" /\ k \notin disk.keys)
  /\ \A k \in data'.keys \ data.keys : asked("add_key", k) \/ (pc' = "off" /\ k \in disk.keys)

\* So it is through adding and removing others, imports, failing writes and
\* power cuts.  The exceptions: a thread could not read the keys and took them
\* for none, or two requests changed keys at once.
KeysKept ==
  [][\/ KeysChangeAsAsked \/ "keys" \in raced
     \/ \E t \in DOMAIN threads : Busy(t) /\ threads[t].misread]_vars

\* The claim of C-ACCESS-001, that the dashboard adds keys and can remove each
\* key, with no failure at all.
KeysStand == [][faults = 0 => KeysChangeAsAsked]_vars

=============================================================================
