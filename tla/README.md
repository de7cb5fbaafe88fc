# TLA+ for EpilykosOS

EpilykosOS is the operating system of a Raspberry Pi appliance: two root slots
(A and B), a DATA partition, a FAT partition with the redundant U-Boot
environment, and one container (the Epilykos app). This directory models its
update stack, the part that must survive power cuts, killed programs, failing
commands and boots that never become healthy; its Bluetooth programs, Wi-Fi
setup and pairing, which are concurrent tasks; and its provisioning, from the
files left on the card to the settings in force. In the following `py/` is
`src/os/board/epilykos/raspberrypi3/rootfs-overlay/usr/lib/epilykos/python`,
`bin/` is `.../rootfs-overlay/usr/bin` and `board/` is
`src/os/board/epilykos/raspberrypi3`.

## Inventory

| Component | State it keeps | Operations | Talks to |
|---|---|---|---|
| Platform environment (`board/platform-env/epk_env.c`, `epk_mmc.c`) | two records with CRC, flag byte and generation | select, load, build, two-pass commit | U-Boot and `fw_setenv`, which both save through it |
| Slot loader (`board/boot-slot.cmd`) | none; spends `BOOT_x_LEFT` in the environment | check, choose a slot, save attempt and trial marker, boot or halt | environment |
| OS update jobs (`py/epilykos_os_update.py`) | `journal.json`, public `guard.json`, `cancel`, staging | install, cancel, dismiss, view, reconcile, and the worker from queued to ready | hostd, systemd (worker), RAUC, maintenance flock |
| Activation and confirmation (`py/epilykos_os_activate.py`) | `epk_os_*` in the environment, the journal | restart, discard, activate, confirm_candidate, promote_app, reconcile_boot | environment, RAUC, journal, app updater's files |
| Boot health (`py/epilykos_boot_health.py`) | RAM, `/run` health file | check health until a deadline, mark good or call the coordinator, reboot | podman, RAUC, coordinator |
| hostd (`bin/epilykos-hostd`) | deferred reboots | start: recover and reconcile; one handler per Settings action | everything above |
| App updates (`py/epilykos_update.py`, `bin/epilykos-run`) | `current`, `previous`, `floor`, `active.env`, `job`, `result`, `verified`, `auto-attempt` | check, apply, update thread, recover; choice of the image | podman, systemd, flock, OS guard |
| Maintenance lease (`py/epilykos_maintenance.py`) | one flock | try once, close | OS worker, app updater, the app itself |
| Factory reset (`py/epilykos_reset.py`, `bin/epilykos-factory-reset-boot`) | a request on the FAT partition | request, erase DATA at boot | hostd |
| OS trust (`py/epilykos_os_trust.py`) | policy, epoch and floor in the environment, RAUC's keyring | verify policies, releases and bundles; admit a newer policy; write the keyring | OS update jobs, RAUC |
| Improv setup (`bin/epilykos-improv`, parts of `py/epilykos_wifi.py`) | state, advertising, one task per packet, known-network files of iwd | settings packet, provision, re-advertise, main loop, recovery of bluetoothd | phone, bluetoothd, iwd |
| Bluetooth pairing (`py/epilykos_bluetooth.py`) | window, selected device, prompt, one pairing task; the agent at bluetoothd | open, close, pair, reply, remove, recover; the `serve` loop | dashboard (hostd), bluetoothd |
| Boot import (`bin/epilykos-wifi-import`, `py/epilykos_wifi.py`) | files on BOOT, known networks and country on DATA | SSH files, dashboard password, Wi-Fi files, record of a reset, country | BOOT, DATA, `iw` |
| Settings of hostd (`py/epilykos_ssh.py`, `epilykos_port.py`, `epilykos_system.py`, `epilykos_dashboard.py`) | SSH on/off, password, keys, shadow file, port, zone, dashboard password | one handler each, in threads | systemd, `iw`, the app's container |
| Build and release tools (`src/tools`) | none on the box | run in CI | - |

What is hard here is never one function. It is the order of durable writes
across four programs (hostd, the worker, the confirmation coordinator, the boot
supervisor) and two external ones (RAUC, systemd), each of which can stop
between any two of them, and a boot loader that draws its own conclusions from
what it finds. Correctness means: the box always boots; a slot that is written
is not started and a slot that is running is not written; a trial ends in a
confirmation or a fallback; floors rise exactly with confirmed releases; and
what Settings shows, what the guard blocks and what the environment says agree.
Some parts are hard by themselves: the trust policy, where files that were
verified once wait while the policy moves on; the two Bluetooth programs, whose
tasks interleave at every `await` while bluetoothd and the network change; the
import, which must neither lose a file nor apply it for ever; and hostd's
threads, which change the same small files without a lock.
`PROJECT.json` lists the hazards line by line with the properties for them.

## Modules

| Module | Models | Uses |
|---|---|---|
| `EpkEnv` | selection and commit of the two environment records in C | `EnvRegister` (refinement) |
| `EnvRegister` | abstract specification: one register with atomic, possibly unacknowledged writes | |
| `EpkEnvProofs` | theorems about `EpkEnv` | `EpkEnv`, TLAPS |
| `MCEpkEnv` | instance of `EpkEnv` for TLC | `EpkEnv` |
| `BootEnv` | the boot variables: what the loader and RAUC do to them, as operators on a record | |
| `OsUpdate` | jobs: hostd's actions, the worker, RAUC | `BootEnv` |
| `OsActivate` | Restart, Discard, activation, confirmation, reconciliation at boot | `OsUpdate` |
| `OsSystem` | the machine: power, loader, supervisor, deferred reboots, factory reset, killed programs; the specification and its properties | `OsActivate` |
| `AppUpdate` | app updates next to a reduced OS update | |
| `OsTrust` | policies, epochs, entries, floor and keyring through check, install, trial | |
| `BootHealth`, `MCBootHealth` | the supervisor of one boot with a clock; its instance for TLC | |
| `Improv` | Wi-Fi setup over Bluetooth | |
| `Pairing` | Bluetooth pairing and recovery | |
| `BootFiles` | the parsers of the files on BOOT, as operators | |
| `Settings` | hostd's threads and what they do to the settings on DATA | |
| `OsSystemProofs`, `AppUpdateProofs`, `OsTrustProofs`, `BootHealthProofs`, `ImprovProofs`, `PairingProofs` | theorems about the module each is named after | that module, TLAPS |
| `OsFallbackProofs` | more theorems about `OsSystem`: fallback, floor, ready jobs, guard | `OsSystemProofs` |
| `Provision`, `MCProvision` | boot from power on to a box that serves: factory reset, import, then `Settings`; the cards TLC starts from | `BootFiles`, `Settings` |

`EpkEnv` justifies the way `BootEnv` treats the environment: because the two
records refine one atomic register, `OsUpdate` and its descendants change the
environment in single atomic batches, which may land although an error is
reported (`EnvBatch`).

### EpkEnv

A record is corrupt, torn or holds data: generation, floor, policy epoch and
hash, the critical boot values (`crit`) and the rest (`aux`). Text parsing is
one predicate, `Parses`; base64 and decimals are below it. Actions: `Load`,
`Save` (build, refuse or begin), two passes of `WriteBegin`/`WriteEnd` with the
torn record in between, `Acknowledge`, `IOError` (before or after the write
reached the card), `PowerCut`, `Decay` (one record goes bad while the other is
valid). The flag byte counts modulo `FlagMod` (256 in the code), the generation
ends at `MaxGen` (2^64 - 1), where critical changes are refused.

### OsUpdate, OsActivate, OsSystem

Every durable write (environment batch, journal, guard, cancel file, RAUC call)
is a step of its own, so a power cut or kill falls between any two. `proc` holds
for hostd, worker and coordinator the next step, the job it has read into memory
and where to return to after `finish` or `back_to_ready`. `journal`, `guard`,
`cancel` are the files, `env` the boot variables, `image` what each slot holds
(a sequence, or `Broken` while RAUC writes), `rauc` the RAUC service with its
transaction, `wreq` a worker that was asked for with `--no-block`, `health` the
supervisor's record in `/run`, `reboot` a reboot that is promised by hostd's
timer ("asked") or under way ("going"). `OsSystem` adds `power`, `sup`, `appUp`,
`resetReq`. The signed metadata is its sequence; the admission rule is
`trust.admissible`. Commands that do not answer (`_run` raising) are `Unanswered`,
up to `MaxIOErrors` times. hostd's `install` and `restart` save the journal and
then ask systemd for the worker, under `_lock` and with no other durable write
in between; they are one step, in which that last part, or for `install` the
save itself, may fail. A hostd that dies between the two leaves the same files as
one whose request was refused and that is killed then.

RAUC is external. Its `mark-active`, `mark-good`, `mark-bad` and `install` are
modelled from how the code and its tests use them; whether `mark-bad` drops the
slot from `BOOT_ORDER` is left open by `BadDrops`.

### AppUpdate

A release is its sequence. `disk` has a field per file, and every file is
written in a step of its own, which may fail. `thread` is the update thread with
its local variables, `confirm` the place inside `promote_app`, `os`, `slot` and
`ships` the OS update as far as it is seen from here: guard, lease, booted slot
and the app each slot ships. A trial that is cut before it was marked good falls
back; cut after that, it boots again but is refused (see `promotion_stuck`
below), which `OsSystem` shows. `job.json` saying `starting` instead of
`downloading` is not told apart, because nothing reads it. A write that raises
may have replaced the file or not (`Left`). `disturbed` is a history variable: it
is set when hostd is killed during an update, when the coordinator is killed or
the power cut inside `promote_app`, and when a write or `rmi` fails, after each of
which the container and the files may disagree until the next boot.

### OsTrust

A policy is its epoch and the parties it lists (index keys and bundle signers
are the same parties), an entry its sequence, epoch, key and bundle signer. What
does not verify is not in `Policies` or `Entries`; everything in them may be
served by the feed at any time, old files too. `checked` and `files` are the
signed files in `checked.json` and in the job, `keyring` the policy the running
RAUC service was started with. `OsUpdate` has the job's life in detail; here it
is cut down to what reads or writes trust, with `work()` in its four stages so
that a kill falls between admitting a policy, restarting RAUC, authorizing the
entry and checking the bundle. Whether RAUC itself accepts a bundle is open: that
depends on which CA issued which certificate, and the code does not rely on it.

### BootHealth

One boot, one unit of time per turn of the loop. `left` counts down to the
deadline, `over` counts the time the boot stays undecided past it. A command
ends, fails, or is killed at its bound; `Stall` is a supervisor that stops
beating anywhere, after which the watchdog kills and systemd restarts it with
nothing but the deadline kept. The ladder of reboots is `StopApp`, `ForceReboot`
and `Sysrq`; each request may be lost. `OsSystem` uses the outcomes of a boot only.

### Improv

One Wi-Fi network, whose saved password is right, wrong or missing. `task` has a
provision task for each settings packet, `queue` the advertising changes in the
order in which they wait for `adv_lock` (the main loop's `on` and `off`, and
`again` for each `readvertise`), `step` the await at which the head of the queue
is. Timers (`offline_since`, the dashboard window, the age of the reset file)
are flags that fall some time later. bluetoothd may restart, get its slots stuck
or not answer; the card may refuse a write; one such fault per behaviour. Scan,
identify and device info change nothing that the rest of the program reads.

### Pairing

The event loop of hostd's Bluetooth thread. `proc` says at which await `serve`
and each request are, `tasks` the same of the `do_pair` task a request made;
`window`, `selected`, `task`, `result` and `pending` are the fields of the
manager, `ask` BlueZ's question to the agent. `close` is run by three callers and
goes through `CancelPairing`, `Pairable` and `StopDiscovery`; `Effect` is what
each awaited call does to the adapter, so a call that gets no answer may have
done it or not. BlueZ is external: it carries out at most one Pair per device
(`pairs`), asks for it as it likes, ends it when it likes, and forgets
everything when it restarts. When it restarts `serve` makes another manager on another
connection (`StartOver`); the methods of the old one go on in vain and
are not followed. The `finally` of `ask` runs in the step that answers or
cancels the prompt. `replaced` is a history variable: a second `pair` has put its
task in the place of one that still goes on (see `ClosingCancels` under Divergences).

### BootFiles, Settings, Provision

A file on BOOT is a record of the fields its parsers look for (`BootFiles`
explains them); a parser returns a network, nothing, refuses, or raises what the
import does not expect (`Raised`). What each parser forgives is kept:
`firstrun.sh` without Wi-Fi settings is used up, one with settings that do not
parse stays; a wrong country spoils `wifi.txt`, not `wpa_supplicant.conf`; one
bad line spoils `authorized_keys`; a key with a byte that is not UTF-8 parses and
cannot be written.

A thread of hostd, and each of the five steps of the import, is a sequence of
reads, writes and commands (`Do`) computed when it begins and worked off one by
one, so that threads interleave and cuts, failures and kills fall between any
two. A write that fails ends the thread or the step, as the exception does; a
failing read of the keys or of the password hash passes for an empty file, as in
the code (`misread`); a failing command is not looked at. `data` is what programs
see and `disk` what a power cut leaves: every step may be committed at once or be
lost with everything after the last commit, because the directory is not synced
after a rename; the country's file, which is written in place, may also come back
empty. `failed` has the steps of the import that met a failure. `Provision` runs
the boot: the factory reset before DATA is mounted, the shadow file, the import,
then sshd and the app. Requests start when the box is up.

## Runs

| Run | Bounds | Shows |
|---|---|---|
| `env_store` | flag modulo 3, 2 generations, 2 values each of floor, epoch, policy, 3 of the rest, 1 of them unfit | torn writes, failed commits, cuts and one decayed record lose no acknowledged commit and never leave the loader without a record; refinement of the register |
| `os_crash` | 1 job, 1 killed program, 1 failing command, the wait for RAUC may expire; `FairSpec` | the pending job's variables are always complete or absent; a ready slot cannot boot but can be restarted; a confirmed job is floored and a confirmed slot keeps its attempts; every job gets on, every activation ends |
| `os_jobs` | 2 jobs, 2 sequences, 1 power cut or failed boot, 1 factory reset, both `BadDrops` | the box always boots; the guard excludes everything else while RAUC writes, and covers installed jobs; the floor rises only in a trial and only to what is running; no job disturbs another one's trial, candidate or fallback |
| `app_power` | 3 releases, 2 power cuts, 1 kill; `FairSpec` | every update ends, also when its recovery is cut; automatic ones come to rest |
| `app_crash` | 3 releases, 1 OS update, 1 cut, 1 kill, 1 failing write | only releases that reported healthy or came with an OS are promoted or raise the floor; until one of the disturbances that `disturbed` names, what runs is what was promoted, and a fallback would start what `current()` names |
| `os_trust` | 2 parties, 3 epochs, 2 sequences, 1 cut, 1 kill, 1 error | only what the policy in force authorizes, and only newer systems, are written, ready or tried; no policy is taken back |
| `boot_health` | deadline 6, bounds 1, 2 and 4, watchdog 2; 2 stalls, 2 lost reboot requests; fair `Spec` | the boot is decided one bounded confirmation and the stalls after the deadline at the latest; the health record is right; every boot ends |
| `improv` | 2 packets, 2 failures before a reset, 1 fault; fair `Spec` | bluetoothd advertises the state of now; failed attempts keep working settings; the phone is answered, setup opens and closes |
| `pairing` | 2 devices, 3 requests, 1 restart of bluetoothd, 1 lost call or request given up; `FairSpec` | after close no prompt and no pairing goes on, and an answer reaches the selected device only, until two pairs at once made a task each; the window ends and the adapter is quiet; the agent comes back |
| `provision` | 1 SSID, 2 keys, ports and zones, any of Imager's files from the start; without requests 2 edits of the card or reset requests, 2 cuts, 1 failing read or write; with 2 requests in 2 threads one edit, cut or fault (`MaxMixed`) | a file is removed only when all its settings are saved, and never stays when they are usable; a reset is not repeated on a box in use; what is saved is in force; keys change only as asked |
| `promotion_stuck`, `app_downgrade` | violations | see Divergences |

The bounds: a fault is interesting where it falls, and one fault between any two
steps already reaches every recovery path once; `app_power` and `provision` take
two cuts so that a recovery is itself cut. Two jobs are what it takes for one to
be in another's way, three releases for a downgrade. Flag modulo 3 is the smallest cycle in
which "newer by one" and "older by one" differ. Three epochs are what it takes
for a waiting file to be older than a policy that was itself admitted. In
`pairing` three requests are an open, a pair and whatever comes in between, a
second pair too. In `provision` a card may hold one of Imager's files from the
start and get others later, before or after a boot that was cut; the cards from
the start are imported before the first request, so that one event beside the
requests is a cut of an imported setting, a failing write, or another file.
hostd's two threads are alike and declared symmetric, which is sound because the
run checks safety only. In
`boot_health` the times are small but keep the order of the code's constants
(bounds below the deadline, `confirm` the longest), and `Grace`, the
bound of `DecidedInTime`, is reached. The sysrq write is the last request: with
three lost ones (`MaxLost = 3`) `BootEnds` fails, as it must. Counters are bounded by the
constants named `Max...` and nothing else is.

Combinations that are known to break a property are kept out of the run that
checks it and described under Divergences: `GuardSound` holds with
power cuts but not with a killed worker, `AttemptsSound` with one fault of each
kind but not with three cuts, and `LoaderNeverHalts` holds for one cut, since
every further one may spend the last attempt of an unconfirmed slot; their
comments name the bound. `ReadyHeld`, a part of `AttemptsSound`, needs a RAUC
whose `mark-bad` drops the slot from the order (`BadDrops = {TRUE}`), as the pinned RAUC does.
`JobSettles`, `TrialEnds`, `RunsPromoted`, `FallbackKeepsApp`, `WindowEnds`,
`UnlinkedIsSaved`, `NothingWaits`, `InForce` and `KeysKept` say in their statement
which faults they are about.

Deadlock is not checked in the `OsSystem` runs, which end when the bounded jobs
and faults are used up and Settings asks for nothing, or in a halted loader, nor
in `boot_health`, where a decided boot is over, in `pairing`, where the bounded
requests end, and in `provision`, where a box that is off may stay off.

`TypeOK` states the types of the variables for the reader and for proofs; those
of `EpkEnv`, `OsSystem` and `Improv` are theorems, and those of `AppUpdate`,
`OsTrust` and `BootHealth` are conjuncts of proved inductive invariants.

### Fairness

`OsSystem`: the loader boots, systemd starts hostd (`Restart=always`), a
requested worker and the app, each program takes its next step (all commands are
bounded by timeouts), RAUC ends, a promised or requested reboot happens, and
Settings keeps polling `os_status`, whose `view` restarts a lost worker. There
is no fairness for requests, faults or the supervisor's deadline. `TrialEnds`
leaves out an administrator who restarts for ever, and killed programs: a killed
coordinator leaves the trial unconfirmed until the next restart, as
`epilykos_boot_health.py` says. `AppUpdate`: systemd starts hostd and the app,
and the update thread runs (`podman` and `systemctl` have timeouts).
`BootHealth`: the loop runs and time passes, the watchdog acts on a supervisor
that does not beat, and a shutdown that began ends (systemd's stop timeouts and
`RebootWatchdogSec`). `Improv`: the event loop runs what is ready, every await is
bounded by a timeout, `Restart=` brings the program back, and ten minutes pass.
`Pairing`: every awaited call is answered or times out (8 s), timers run out,
and `serve` goes round; nobody has to answer a prompt. `Provision` states no
liveness.

## Proofs

Every theorem holds for all values of the constants that satisfy the named
`ASSUME`s of its module (which TLC evaluates in the runs): any number of jobs,
releases, packets, devices, requests, and of cuts, kills and failures, unless a
theorem states a hypothesis of its own. Every invariant was checked by TLC before
it was proved.

| Theorem | States | Inductive invariant |
|---|---|---|
| `EpkEnvProofs!TypeCorrect`, `NeverRefused`, `AcknowledgedStays`, `SnapshotsAreFresh` | `TypeOK`, `AlwaysSelectable`, `AckedDurable`, `SnapshotFresh` | `EnvInv` |
| `EpkEnvProofs!OnlyForward`, `Refinement` | `SelectionMovesForward`; `Spec` implements `EnvRegister` (`IsRegister`) | `EnvInv` |
| `OsSystemProofs!BoxTyped`, `PendingAlwaysSound` | `TypeOK`, `PendingSound` | `BoxInv` |
| `OsFallbackProofs!FallbackAlways`, `ConfirmedAlwaysFloored` | `KnownGoodKept`, `ConfirmedIsFloored` | `BoxInv` and `FallbackInv` |
| `OsFallbackProofs!FloorAlwaysEarned`, `ReadyAlwaysKept` | `FloorEarned`, `ReadyKept` | `BoxInv` and `FallbackInv` |
| `OsFallbackProofs!GuardAlwaysSound` | `Undisturbed => GuardSound` | `BoxInv`, `FallbackInv` and `GuardInv` |
| `AppUpdateProofs!PromotionEarned`, `NamedImagesStored` | `PromotedProven`, `ImagesKept` | `AppInv` |
| `AppUpdateProofs!FallbackSafe`, `PromotedIsRun` | `FallbackKeepsApp`, `RunsPromoted` | `AppInv` and `CalmInv` |
| `OsTrustProofs!OnlyAdmittedInstalls`, `TrustOnlyAdvances` | `InstallsAdmitted`, `TrustForward` | `TrustInv` |
| `BootHealthProofs!DecisionInTime`, `ConfirmedBootStays` | `DecidedInTime`, `RecordedStays` | `HealthInv` |
| `ImprovProofs!SetupTyped`, `AdvertisementFollows`, `WorkingSettingsStay` | `TypeOK`, `AdvertisementAgrees`, `WorkingKept` | `ImprovInv` |
| `PairingProofs!ClosedStaysQuiet` | `ClosedIsQuiet` | `PairInv` |

**EpkEnv.** The type invariant alone does not say which record may be torn at
which step of a commit; `StageInv` does: at every stage it fixes which of the two
records is the old one, the new one or torn, and that a valid one is always left.
`AckInv` ties what was acknowledged to what is selected at each stage, `SnapInv`
ties the snapshot a save is built on to the records on the card. The lemmas about
`SelectIndex` say what is selected when one record is torn, when both are equal
and when one is newer by a flag step; the wrap of the flag is in them.

**OsSystem.** `PendingSound` is about the environment, but every program writes
it, so `BoxInv` says where each program is and what it knows there. `PlaceInv`
lists the steps each of hostd, worker and coordinator can be at and where `finish`
and `back_to_ready` return to. `CopyInv` ties the job a program has read into
memory to the state it read it in. `PowerInv` says what runs at which stage of a
boot, `ExclusionInv` who cannot be active together (the lease, the one worker,
the coordinator's window), `ActivationInv` and `TrialInv` what the steps of an
activation and of a confirmation have already written, and `PhaseInv` which
phases the environment can be in for a job that runs or does not run its target.
The proof has one lemma per conjunct and one step per action.

`FallbackInv`, on top of it, is what the next four theorems need. `KnownGoodKept`
is not inductive for two reasons: an install that is still under way could write
the slot to fall back to, and a program with an old copy of another job could mark
the wrong slot bad. `OrderInv` (installing and activating exclude each other, also
for workers that resume after a cut) and `WriterInv` (RAUC writes only for a job
that is neither ready, activated nor pending) answer the first. For the second,
`AgreeInv` says that all descriptions of a job, in the journal, in the memory of
each program and in the environment, agree on target and sequence if they have the
same ID. Its proof does not look at what the steps are for: every step but the
admission of a job only passes known descriptions on (`CarriedStep`), and an
admission gives out an ID that nobody has. `AimInv` says that whoever acts on the
pending variables holds the pending job. `SlotInv` is then what the slots hold,
`FloorInv` what each program that is about to say "promoting" or "confirmed" has
committed before, and `KeepInv` that no worker makes a job ready while hostd
settles another one. `OrderInv`, `WriterInv`, `AimInv` and `KeepInv` are about
whose turn it is and are proved together (`TurnInv`).

`GuardInv` is for `GuardAlwaysSound`: as long as no program was killed and no
command failed (`Undisturbed`), the guard says what `WriterExcludes` and
`GuardCoversJob` need, with any number of jobs, power cuts and factory resets.
The hypothesis is needed: one kill, or two failing commands, make it false (see
Divergences). The guard is written after the journal, so the two differ at many
steps; `CoverInv` says what the guard stands for between them and `ReleaseInv`
what the journal holds when someone is about to write the guard. `ResumeInv` says
that no worker runs before hostd has reconciled the journal after a boot and
that none is lost after it, `CancelInv` that of a worker and a cancel one always
sees the other, and `AwaitInv` that a trial stays guarded until it is confirmed.

**AppUpdate.** `ExclusionInv` (update thread and coordinator never together),
`HomeInv` (the promoted release is never older than the app of the slot the box
falls back to), `StorageInv` (what the images on DATA are needed for),
`ThreadInv` and `ConfirmInv` (what the thread and `promote_app` have written where
they are). `CalmInv` adds what holds until the history variable `disturbed` is set:
`active.env` names the promoted release, and the container runs it. Neither
theorem has a hypothesis: any number of app and OS updates, cuts, kills and
failures is allowed, and the property says itself what ends it. `ImagesKept`
is proved and in no run: `podman rmi` takes the release before last unless a slot
ships it, so the first removal comes with a fourth release, which together with
the faults makes the runs of `AppUpdate` too large. TLC found it to hold with four
releases, one OS update and one failing command before it was proved.

**OsTrust.** `TrustInv` adds to `InstallsAdmitted` what the worker established at
its place in `work()` (`PassInv`) and that the system a job was admitted on still
runs (`SourceInv`).

**BootHealth.** `TimeInv` is a potential: the time passed undecided, plus the
turns the commands under way may still take (`Ahead`), plus what the stalls that
are left would cost, is at most `Grace`. `PollInv` says which command is polled
and how old it can be. The proof needs that marking good is not given more time
than the confirmation (60 s and 300 s in the code); `HealthAssumption` says so.

**Improv.** `RegisteredInv` says that where bluetoothd does not have the state of
now, a change that will read it again waits for `adv_lock` and has not read it
yet; `LockInv`, who is past the lock. `AttemptInv`: as long as attempts are told
apart there is at most one, and it remembers what worked.

**Pairing.** `LookupInv` (no two lookups, none while a device is selected),
`TaskInv` (a task that has not ended is the manager's own) and `ShutInv` (in a
shut window, a task that bluetoothd still pairs has someone about to cancel it).
The theorem has no hypothesis on the requests: `replaced`, in the property, is
set only when `pair` puts its task in the place of a live one, and until then two
lookups at once, or one with a `remove`, are as good as one.

Only model-checked are, of `OsSystem`, `AttemptsSound` (`ReadyHeld` and
`ConfirmedKeepsAttempts`) and `LoaderNeverHalts`, which are false
beyond the bounds of their runs (see above and Divergences); `AnswerMeant` of
`Pairing`; everything about `Provision`, whose threads work off sequences of
arbitrary length; and all liveness (fairness and `ENABLED` are outside the proof
system).

## Divergences

Two runs end in a violation on purpose; each shows what a comment or document
says and the code does not do (`findings` in `PROJECT.json` quotes the lines).

- `promotion_stuck` (`ConfirmCompletes`): a power cut after floor and phase
  `promoting` were committed leaves a confirmation that raises in every later
  boot, because the loader has spent one of the three attempts it insists on.
- `app_downgrade` (`NoDowngrade`): a cut between `current.json` and `floor`.

Others were met while modelling. Their statements are kept in the modules, and
adding them to a configuration with the given bounds shows the trace:

| Statement | Bounds | What happens |
|---|---|---|
| `OsSystem!CancelHonoured` | no fault | a cancel between the worker's last look (`epilykos_os_update.py:576`) and `installing` (`:733`) is accepted and ignored |
| `OsSystem!WriterExcludes` | 1 kill | cancel asks for the worker after it called RAUC and died: the job ends and the guard goes while RAUC writes |
| `OsSystem!GuardCoversJob` | 1 kill, or 2 failing commands | a cancel after the worker's last look: hostd ends the job while the worker, started again, leaves it `reconciling`; hostd's `finish` then makes the guard idle |
| `OsSystem!NotRefused` | 1 cut | cut between `mark-active` and `activated`: the healthy trial is refused and falls back |
| `OsSystem!RolledBackNotFloored` | 3 cuts | the stuck promotion is rolled back below the raised floor |
| `OsSystem!GuardReleased` | 1 cut | cut between the journal and the guard in a rollback: the repeat skips `finish` and the guard stays held until the next start of hostd |
| `OsSystem!JournalAgrees` | 1 kill | a restarted hostd writes `trying` over `confirmed` |
| `OsSystem!WriterExcludes` | 1 kill, `WaitExpires` | the wait of four hours runs out and the guard goes while RAUC writes |
| `OsSystem!ConfirmedKeepsAttempts` | 3 cuts | a job queued on A resumes on B and fails there: `mark-bad` of its target takes the attempts of the slot that runs and was confirmed |
| `OsSystem!LoaderNeverHalts` | 2 cuts | Restart does not ask whether the running slot is confirmed |
| `OsSystem!WritesTarget` | 3 cuts | a job that was queued on A resumes on B after three interrupted starts of A: RAUC writes A, the job's source (`epilykos_os_update.py:789` takes it that the target is marked bad); the job then looks at B, its target and the slot that runs, and marks that one bad |
| `OsSystem!JournalForward` | 2 jobs | a worker that was just starting writes its cancelled job over a newer one |
| `AppUpdate!RunsPromoted` without `~disturbed` | 1 kill | hostd restarts while a candidate runs: the files go back, the container does not |
| the same | 1 failing write | a failure after `current.json` starts the previous release |
| `AppUpdate!FallbackKeepsApp` without `~disturbed` | 1 OS update, 1 kill | `promote_app` repeated returns before it has written `active.env` |
| `AppUpdate!GuardRespected` | 1 OS update | `update_apply` looks at the guard before it takes the flock |
| `Pairing!ClosingCancels` | 4 requests | two `pair` requests that look their devices up at the same time (`epilykos_bluetooth.py:216-220`) both go on; the second task replaces the first, which `close` does not cancel ("Closing/expiry cancels pending requests", `maintenance-and-pairing.md:7`) |
| `Provision!FirstrunSshKept` | `Cards <- OddKey`, no fault | a key of `firstrun.sh` with one byte that is not UTF-8 is read leniently (`epilykos_wifi.py:242`), cannot be written and ends the SSH step of the import; the Wi-Fi step removes the file with all its SSH settings. A failing write in the SSH step does the same; `UnlinkedIsSaved` excepts both |
| `Provision!OthersApplied` | `Cards <- TwoFiles`, no fault | a `rpi-preseed.toml` whose `wlan` is no table raises an `AttributeError` (`epilykos_wifi.py:450`) that ends the import of all Wi-Fi files, in every boot, against the comment at `epilykos-wifi-import:178-179` |
| `Provision!KeysStand` | 3 requests at once, no fault | two overlapping requests lose a key that was added or bring back one that was removed (`epilykos_ssh.py:245-258`) |
| `Provision!UnlinkedIsDurable` | `Cards <- OneKey`, 1 cut | the directory is not synced after the rename of `authorized_keys`, but its file on BOOT is removed at once; a cut leaves neither |
| `OsTrust!KeyringInForce` | 1 error | `restart_rauc` fails, or the worker is killed, after the policy was admitted: the next job finds the policy in force, does not restart RAUC and installs with the older keyring (the design, `os-dashboard-updates-design.md:287-289`, wants the service restarted before another install) |

Further ones, which the models show as an exception in a property or do not
contain:

- `epilykos_boot_health.py:238,242`: an `OSError` of the spawn in the ladder of
  reboots is not caught. The supervisor exits, `Restart=on-watchdog` does not
  restart it, and the boot stays up undecided (`SpawnRaises`, excepted in
  `BootEnds`).
- `epilykos-improv:547`: two packets that arrive before the first one's task
  starts both pass the check of the state. The second attempt remembers the
  first one's password as the one to restore, so a failed pair leaves a wrong
  password saved, against `epilykos_wifi.py:152` ("must not lose the settings
  that worked"). The same is left by a program that ends during an attempt
  because bluetoothd restarted. `WorkingKept` excepts both (`worked = "any"`).
- `epilykos-improv:691`: `_unregister_all` catches refusals, not timeouts; after
  one, `advertising` may be set with nothing registered until setup is turned
  off. The properties about advertising are stated for answered calls.
- `epilykos-improv:750-753`: the early returns of `should_advertise` leave
  `offline_since` as it was, so after a window the grace period may already be
  over; and the setup window counts from the start of the program, not of the
  boot.
- `epilykos-hostd:169`: `set_timezone` returns (line 146) before the check of
  the guard that is meant for it, so the app restarts during an OS update.
- `epilykos_bluetooth.py:189,351`: a request given up after 12 s is cancelled
  with `CancelledError`, which `except Exception` does not catch: an `open` cut
  off there leaves discovery on, a `close` leaves its task running.
- With five requests `AnswerMeant` of `Pairing` fails, through a `do_pair` task that
  was made but has not begun when two later requests are already answered. The
  event loop would have begun it before; the model, which lets a new task wait
  for ever, is wider than the program there, and the property is checked for
  three requests.
- `epilykos_bluetooth.py:50-58`: two requests to recover may both find the file
  old and restart bluetoothd twice.
- `epilykos-wifi-import:65-74`: a `firstrun.sh` whose Wi-Fi part does not parse
  stays on BOOT and turns SSH on again in every boot, also after it was turned off in Settings.
- `epilykos_ssh.py:213-214`: an `authorized_keys` that cannot be read passes for an
  empty one, so the next key that is added replaces all of them (`misread`,
  excepted in `KeysKept`).
- `epilykos_ssh.py:149-150`: overlapping password requests, or a failing read of
  `password.hash`, may leave the shadow file different from it until the next boot
  (`raced`, and `faults = 0` in `InForce`).
- `epilykos_wifi.py:175-176`: `save_country` writes in place without `fsync`, so a
  cut may leave an empty file: the country is lost with its file on BOOT.
- `epilykos_wifi.py:222-224`: a zone without a country leaves the rules of the
  old zone's country in place until the next boot.
- `epilykos-hostd:145,232`: a port or zone that was saved before hostd died is
  not applied by asking for it again: it is "already set".
- `epilykos_reset.py:96-104`: a request with the same text that is put on the
  card before the import forgot the last one is taken as carried out; and if
  both the record and the removal of a request fail, the next boot erases DATA
  again (`NeverTwice` with `MaxFaults = 2`).
- `epilykos_dashboard.py:59-77`: a cut of `epilykos-reset-password` between its
  two files leaves the new password with two-step sign-in still on.
- `epilykos_os_update.py:802`: a job that cannot be cleaned up stays
  `reconciling` with no way out but a factory reset (the design says repair).

## Not modelled

Signatures, certificates and JSON below the trust policies; byte ranges of a
resumed download; Improv's packet framing, scan and identify; the text of the
files on BOOT and the second names of `authorized_keys`; SSH's host key; setting
the clock, and keeping it over a factory reset; a zone change without a restart;
the status helpers (address, network, storage); the app's own use of the flock
and the guard, which is in another repository; protocol-1 cards; the growth of
DATA; build and release tools. `PROJECT.json` gives the reason for each.

Durability: in `OsUpdate`, `OsActivate` and `AppUpdate` a file that was written
with the code's `_write_atomic` or `_write` (which sync the directory) is saved.
Their `_remove` and `epilykos_update`'s `unlink` do not sync it; a removal that a
cut takes back leaves what a cut just before it leaves, which is modelled, since
the next write in that directory commits it. In `Settings` and `Provision` commits are modelled (`disk`), those of the
FAT partition, which is remounted after every change, count as done. The one
temporary file that two writers of the same setting share is not modelled.

## Plan

1. Done: `EnvRegister`, `EpkEnv` and its proofs; `BootEnv`, `OsUpdate`,
   `OsActivate`, `OsSystem`; `AppUpdate`; `OsTrust`, `BootHealth`, `Improv`;
   `Pairing`; `BootFiles`, `Settings`, `Provision`.
2. Done: the theorems listed under Proofs.
3. Theorems left: `UnlinkedIsSaved` and `KeysKept` of `Provision`, whose threads
   work off sequences of steps.
4. Abstract specification of an OS update as Settings sees it (idle, working,
   ready, trying, confirmed or back), `OsSystem` shown to implement it.
