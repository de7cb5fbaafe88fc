------------------------------- MODULE OsSystem -------------------------------
(***************************************************************************)
(* The whole box: the slot loader, one boot after the other, hostd, the    *)
(* OS update worker, RAUC, the every-boot health supervisor                *)
(* (epilykos_boot_health.py) and the confirmation coordinator, with power  *)
(* cuts, killed processes, failing commands and factory resets.            *)
(***************************************************************************)
EXTENDS OsActivate

CONSTANTS
  MaxFaults,   \* power cuts and failed boots of a slot that is not on trial
  MaxResets    \* factory resets

ASSUME FaultAssumption == MaxFaults \in Nat /\ MaxResets \in Nat

vars == <<env, files, proc, wreq, store, boot, counts>>
session == <<slot, health, reboot>>

NoSlot == "none"

-----------------------------------------------------------------------------
Init ==
  /\ env = SeedEnv
  /\ journal = NoJob
  /\ guard = "missing"
  /\ cancel = 0
  /\ image = [s \in Slots |-> 0]
  /\ proc = [p \in Programs |-> Off]
  /\ wreq = FALSE
  /\ rauc = RaucIdle
  /\ slot = "A"
  /\ health = NoSlot
  /\ reboot = "no"
  /\ jobs = 0 /\ crashes = 0 /\ ioerrs = 0
  /\ power = "loader"
  /\ sup = "off"
  /\ appUp = FALSE
  /\ resetReq = FALSE
  /\ faults = 0
  /\ resets = 0

\* Everything in RAM, /run and the services is gone.
LosePower ==
  /\ power' = "loader"
  /\ proc' = [p \in Programs |-> Off]
  /\ wreq' = FALSE
  /\ rauc' = RaucIdle
  /\ health' = NoSlot
  /\ reboot' = "no"
  /\ sup' = "off"
  /\ appUp' = FALSE
  /\ UNCHANGED <<env, files, image, slot, resetReq, resets, jobs, crashes, ioerrs>>

PowerCut ==
  /\ power \in {"up", "erase"}
  /\ faults < MaxFaults
  /\ faults' = faults + 1
  /\ LosePower

OnTrial == IsTrialOf(env, env.pending, slot)

\* The new system may fail to start as often as it likes until its floor is
\* raised: from then on it is the known good one.
MayFail == OnTrial /\ env.phase # "promoting"

\* A requested reboot.  One that comes before the boot was found healthy has
\* used up an attempt and counts as a fault, unless it starts the trial.
Reboot ==
  /\ power = "up"
  /\ reboot = "going"
  /\ LosePower
  /\ IF sup \in {"done", "rebooting"} \/ MayFail \/ env.phase = "activated" THEN UNCHANGED faults
     ELSE faults < MaxFaults /\ faults' = faults + 1

\* boot-slot.cmd.  A slot that cannot be loaded resets; its attempt is spent.
LoaderBoots ==
  /\ power = "loader"
  /\ ~LoaderHalts(env)
  /\ env' = LoaderSpend(env)
  /\ LET s == LoaderSlot(env)
     IN  IF image[s] = Broken THEN UNCHANGED <<power, slot, sup>>
         ELSE power' = (IF resetReq THEN "erase" ELSE "up") /\ slot' = s /\ sup' = "checking"
  /\ UNCHANGED <<files, store, proc, wreq, health, reboot, counts, appUp, resetReq, faults, resets>>

LoaderStops ==
  /\ power = "loader"
  /\ LoaderHalts(env)
  /\ power' = "halted"
  /\ UNCHANGED <<env, files, store, proc, wreq, session, counts, sup, appUp, resetReq, faults, resets>>

\* epilykos-factory-reset-boot, before DATA is mounted: DATA is made anew and
\* only then the request deleted.
EraseData ==
  /\ power = "erase"
  /\ power' = "up"
  /\ journal' = NoJob /\ guard' = "missing" /\ cancel' = 0
  /\ resetReq' = FALSE
  /\ UNCHANGED <<env, store, proc, wreq, session, counts, sup, appUp, faults, resets>>

\* The request file put on the card in another computer.
PhysicalReset ==
  /\ power = "loader"
  /\ resets < MaxResets
  /\ resets' = resets + 1
  /\ resetReq' = TRUE
  /\ UNCHANGED <<env, files, store, proc, wreq, session, counts, power, sup, appUp, faults>>

\* systemd starts hostd, and starts it again two seconds after it ends: the
\* start of a worker that hostd asked for has been carried out by then.
HostdStarts ==
  /\ power = "up"
  /\ At("hostd", "off")
  /\ ~wreq /\ reboot # "going"
  /\ Call("hostd", "start", NoJob, "off")
  /\ UNCHANGED <<env, files, wreq, store, boot, counts>>

\* hostd reports ready; epilykos.service is ordered after it.
AppStarts ==
  /\ At("hostd", "serve")
  /\ ~appUp
  /\ appUp' = TRUE
  /\ UNCHANGED <<env, files, proc, wreq, store, session, counts, power, sup, resetReq, faults, resets>>

-----------------------------------------------------------------------------
(* hostd's generic maintenance actions (epilykos-hostd handle).            *)

AdminReboot ==
  /\ Serving
  /\ ~RefuseReboot
  /\ reboot = "no"
  /\ reboot' = "asked"
  /\ UNCHANGED <<env, files, proc, wreq, store, slot, health, counts, machine>>

FactoryReset ==
  /\ Serving
  /\ resets < MaxResets
  /\ Blocking \notin {"active", "reconciling"}
  /\ resets' = resets + 1
  /\ resetReq' = TRUE
  /\ reboot' = IF reboot = "no" THEN "asked" ELSE reboot
  /\ UNCHANGED <<env, files, proc, wreq, store, slot, health, counts, power, sup, appUp, faults>>

\* later, or the supervisor's bounded stop of the app: the reply is out, the
\* guard was looked at a second ago, and systemctl reboot is called.
RebootGoes ==
  /\ reboot = "asked"
  /\ reboot' = "going"
  /\ UNCHANGED <<env, files, proc, wreq, store, slot, health, counts, machine>>

-----------------------------------------------------------------------------
(* The health supervisor.                                                  *)

\* The app reports healthy: a trial goes to the coordinator, any other boot
\* is marked good.
SupHealthy ==
  /\ sup = "checking"
  /\ appUp
  /\ IF OnTrial
     THEN /\ sup' = "confirming"
          /\ Call("confirm", "c_begin", [NoJob EXCEPT !.id = env.pending], "off")
     ELSE sup' = "marking" /\ UNCHANGED proc
  /\ UNCHANGED <<env, files, wreq, store, session, counts, power, appUp, resetReq, faults, resets>>

\* fw_printenv failed: never guess a confirmation.
SupUnreadable ==
  /\ sup = "checking"
  /\ appUp
  /\ ioerrs < MaxIOErrors
  /\ ioerrs' = ioerrs + 1
  /\ sup' = "done"
  /\ UNCHANGED <<env, files, proc, wreq, store, session, jobs, crashes, power, appUp, resetReq, faults, resets>>

SupMarkGood ==
  /\ sup = "marking"
  /\ \/ env' = MarkGood(env, slot) /\ health' = slot /\ UNCHANGED ioerrs
     \/ /\ ioerrs < MaxIOErrors
        /\ ioerrs' = ioerrs + 1
        /\ env' \in {env, MarkGood(env, slot)}
        /\ UNCHANGED health
  /\ sup' = "done"
  /\ UNCHANGED <<files, proc, wreq, store, slot, reboot, jobs, crashes,
                 power, appUp, resetReq, faults, resets>>

SupConfirmed ==
  /\ sup = "confirming"
  /\ proc["confirm"].pc \in {"c_ok", "c_failed", "c_refused"}
  /\ health' = IF At("confirm", "c_ok") THEN slot ELSE health
  /\ proc' = [proc EXCEPT !["confirm"] = Off]
  /\ sup' = "done"
  /\ UNCHANGED <<env, files, wreq, store, slot, reboot, counts, power, appUp, resetReq, faults, resets>>

\* Not healthy by the deadline, or DATA not mounted: reboot.
SupDeadline ==
  /\ sup = "checking"
  /\ IF MayFail THEN UNCHANGED faults
     ELSE faults < MaxFaults /\ faults' = faults + 1
  /\ sup' = "rebooting"
  /\ reboot' = IF reboot = "no" THEN "asked" ELSE reboot
  /\ UNCHANGED <<env, files, proc, wreq, store, slot, health, counts, power, appUp, resetReq, resets>>

-----------------------------------------------------------------------------
(* Processes that are killed.                                              *)

Killed(p) ==
  /\ proc[p].pc # "off"
  /\ crashes < MaxCrashes
  /\ crashes' = crashes + 1
  /\ proc' = [proc EXCEPT ![p] = Off]

\* hostd's timer for a reboot it promised is gone with it.
HostdKilled ==
  /\ Killed("hostd")
  /\ reboot' = IF RebootPromised THEN "no" ELSE reboot
  /\ UNCHANGED <<env, files, wreq, store, slot, health, machine, jobs, ioerrs>>

WorkerKilled ==
  /\ Killed("worker")
  /\ UNCHANGED <<env, files, wreq, store, boot, jobs, ioerrs>>

\* The supervisor kills a coordinator past its bound; the boot stays
\* unconfirmed.
ConfirmKilled ==
  /\ Killed("confirm")
  /\ sup' = "done"
  /\ UNCHANGED <<env, files, wreq, store, session, jobs, ioerrs, power, appUp, resetReq, faults, resets>>

\* The supervisor misses its watchdog: it and its coordinator start over.
SupKilled ==
  /\ sup \in {"checking", "marking", "confirming"}
  /\ crashes < MaxCrashes
  /\ crashes' = crashes + 1
  /\ sup' = "checking"
  /\ proc' = [proc EXCEPT !["confirm"] = Off]
  /\ UNCHANGED <<env, files, wreq, store, session, jobs, ioerrs, power, appUp, resetReq, faults, resets>>

RaucKilled ==
  /\ crashes < MaxCrashes
  /\ rauc.owner # 0
  /\ crashes' = crashes + 1
  /\ rauc' = [RaucIdle EXCEPT !.ok = FALSE]
  /\ UNCHANGED <<env, files, proc, wreq, image, boot, jobs, ioerrs>>

-----------------------------------------------------------------------------
HostdStep ==
  \/ \E seq \in 1..MaxSeq : Install(seq)
  \/ Cancel \/ CancelCheck \/ Dismiss \/ View \/ Restart \/ Discard
  \/ ReconcileCarriesOn \/ ReconcileNoPending \/ ReconcilePending
  \/ TrialClear \/ TrialIdle \/ TrialSave \/ TrialGuard
  \/ RollbackBad \/ RollbackActive \/ RollbackFinish \/ RollbackClear
  \/ InterruptedBad \/ HostdServes
  \/ EndJob("hostd") \/ BackToReady("hostd")

WorkerStep ==
  \/ WorkerBegin \/ WorkerReads \/ WorkerStarts \/ WorkerLease \/ WorkerGuard
  \/ WorkerWork \/ WorkerDownload \/ WorkerVerifying \/ WorkerCheckCancel
  \/ WorkerIdentity \/ WorkerInstalling \/ WorkerCallsRauc \/ WorkerRaucDone
  \/ WorkerCompleteInstall \/ WorkerFailInstall \/ WorkerReconcileInstall
  \/ ActivateBegin \/ ActivateIntent \/ ActivateMark \/ ActivateActivated
  \/ ActivateSave \/ ActivateReboot \/ WorkerExit
  \/ EndJob("worker") \/ BackToReady("worker")

ConfirmStep ==
  \/ ConfirmBegin \/ ConfirmIntent \/ ConfirmMarkGood \/ ConfirmPromote
  \/ ConfirmJournal \/ ConfirmClear \/ EndJob("confirm")

RaucStep == RaucMarksTarget \/ RaucWrites \/ RaucEnds \/ RaucFails

MachineStep ==
  \/ PowerCut \/ Reboot \/ LoaderBoots \/ LoaderStops \/ EraseData \/ PhysicalReset
  \/ HostdStarts \/ AppStarts \/ AdminReboot \/ FactoryReset \/ RebootGoes
  \/ SupHealthy \/ SupUnreadable \/ SupMarkGood \/ SupConfirmed \/ SupDeadline
  \/ HostdKilled \/ WorkerKilled \/ ConfirmKilled \/ SupKilled \/ RaucKilled

Next == HostdStep \/ WorkerStep \/ ConfirmStep \/ RaucStep \/ MachineStep

Spec == Init /\ [][Next]_vars

(* Fairness: systemd starts and restarts hostd and starts a requested      *)
(* worker, every program runs on, RAUC and commands end, a requested       *)
(* reboot happens, and Settings keeps showing the job (os_status).  No     *)
(* fairness for requests, faults or the supervisor's deadline.             *)
HostdRuns ==
  \/ CancelCheck
  \/ ReconcileCarriesOn \/ ReconcileNoPending \/ ReconcilePending
  \/ TrialClear \/ TrialIdle \/ TrialSave \/ TrialGuard
  \/ RollbackBad \/ RollbackActive \/ RollbackFinish \/ RollbackClear
  \/ InterruptedBad \/ HostdServes
  \/ EndJob("hostd") \/ BackToReady("hostd")

Fairness ==
  /\ WF_vars(LoaderBoots)
  /\ WF_vars(EraseData)
  /\ WF_vars(HostdStarts)
  /\ WF_vars(HostdRuns)
  /\ WF_vars(View)
  /\ WF_vars(WorkerStep)
  /\ WF_vars(RaucStep)
  /\ WF_vars(AppStarts)
  /\ WF_vars(SupHealthy \/ SupMarkGood \/ SupConfirmed)
  /\ WF_vars(ConfirmStep)
  /\ WF_vars(RebootGoes)
  /\ WF_vars(Reboot)

FairSpec == Spec /\ Fairness
-----------------------------------------------------------------------------
PCs == {"off", "start", "begin", "serve", "can_check", "exit",
        "fin_save", "fin_guard", "rdy_save", "rdy_guard", "rec_save", "rec_guard",
        "b2r_bad", "b2r_clear", "lease", "guard", "work", "download", "verify",
        "checkcancel", "identity", "install", "callrauc", "rauc", "target", "failinstall",
        "recon", "act", "intent", "markactive", "activated", "actsave", "reboot",
        "confirming", "promoting", "c_begin", "c_promote", "c_clear",
        "c_ok", "c_failed", "c_refused",
        "try_clear", "try_idle", "try_save", "try_guard",
        "rb_bad", "rb_active", "rb_finish", "rb_clear", "int_bad"}

\* Every variable has its type, the counters their bounds.
TypeOK ==
  /\ env \in Env
  /\ journal \in Job
  /\ guard \in {"missing", "idle", "active", "pending", "reconciling"}
  /\ cancel \in JobIds
  /\ image \in [Slots -> 0..Broken]
  /\ proc \in [Programs -> [pc: PCs, job: Job, ret: PCs]]
  /\ wreq \in BOOLEAN
  /\ rauc \in [op: {"idle", "called", "marked", "writing"}, owner: JobIds,
               seq: Sequences0, ok: BOOLEAN]
  /\ slot \in Slots
  /\ health \in Slots \cup {NoSlot}
  /\ reboot \in {"no", "asked", "going"}
  /\ jobs \in JobIds /\ crashes \in 0..MaxCrashes /\ ioerrs \in 0..MaxIOErrors
  /\ power \in {"loader", "erase", "up", "halted"}
  /\ sup \in {"off", "checking", "marking", "confirming", "done", "rebooting"}
  /\ appUp \in BOOLEAN
  /\ resetReq \in BOOLEAN
  /\ faults \in 0..MaxFaults
  /\ resets \in 0..MaxResets

-----------------------------------------------------------------------------
(* What the passing runs check.                                            *)

\* No request, program or coordinator of this box is between two steps.
Settled == At("hostd", "serve") /\ ~WorkerActive /\ ~wreq /\ At("confirm", "off")

\* The loader always finds a slot to start: with one power cut or failed boot
\* at any point of two updates, the boot variables do not run out of attempts
\* or become inconsistent (boot-slot.cmd halts on either and only a new card
\* image helps).  Two are enough for it: Restart does not ask whether the
\* running slot is confirmed.
LoaderNeverHalts == power # "halted"

\* The pending job's variables are complete or absent after every single
\* batch of activation, confirmation, rollback and reconciliation, also when
\* two of these programs run side by side (boot-slot.cmd:33-63 halts else).
PendingSound == PendingConsistent(env)

\* While RAUC writes a slot, hostd refuses restarts, shutdowns, factory
\* resets and app updates (blocking in epilykos_os_update.py).
WriterExcludes == rauc.op # "idle" => Blocking \in {"active", "reconciling"}

\* A job that waits for its Restart can neither be started by the loader
\* (no attempts) nor is it stuck: nothing a failed or interrupted activation
\* leaves behind makes verify_target refuse the next Restart.
ReadyHeld ==
  journal.state = "ready" =>
    /\ env.left[journal.tgt] = 0
    /\ Settled => NonBootable(env, journal.tgt)

\* The guard file covers every job that is past its download: once hostd
\* serves, an idle guard never hides an installed, activated or trying job.
GuardCoversJob ==
  Settled /\ guard = "idle" => journal.state \in Terminal \cup Working \cup {"none"}

\* What the guard stands for: nothing else touches the box while a slot is
\* written, and no finished install, trial or unclear job is forgotten.
GuardSound == WriterExcludes /\ GuardCoversJob

\* A slot recorded as confirmed in this boot keeps its three attempts for as
\* long as it runs (health_blockers admits a job on the strength of it).
ConfirmedKeepsAttempts == health = slot => env.left[slot] = Attempts

\* The attempts in the environment agree with the records: none for a slot
\* that waits for its Restart, all of them for the one that runs confirmed.
\* For one power cut or failed boot of a slot that is not on trial, one killed
\* program and one failing command; with three power cuts a job that resumes
\* on the other slot takes the attempts of the slot that runs.
AttemptsSound == ReadyHeld /\ ConfirmedKeepsAttempts

\* A job is called confirmed only with its sequence in the durable floor,
\* whichever of coordinator and hostd says so.
ConfirmedIsFloored == journal.state = "confirmed" => env.floor >= journal.seq

\* While a job is pending in the environment (activated, tried, confirmed) no
\* other one writes a slot, and its source slot is whole and in BOOT_ORDER:
\* the box has a system to fall back to.
KnownGoodKept ==
  env.pending # 0 =>
    /\ rauc.op = "idle"
    /\ image[Other(env.target)] # Broken
    /\ \E i \in DOMAIN env.order : env.order[i] = Other(env.target)

\* The floor only rises, only in a trial, and only to the sequence of the
\* very image that is running it (epilykos_os_activate.py:180-181).
FloorEarned ==
  [][env'.floor # env.floor =>
       env'.floor > env.floor /\ image[slot] = env'.floor /\ OnTrial]_vars

\* A ready job finishes only through its own Restart or Discard (C-UPDATE):
\* no other job takes its place or overwrites its slot, whatever worker is
\* still about.  Erasing DATA is the exception, and a cancel request on file
\* (JournalForward is about those).
ReadyKept ==
  [][journal.state = "ready" /\ cancel = 0 =>
       /\ journal'.id = journal.id \/ journal' = NoJob
       /\ image'[journal.tgt] = image[journal.tgt]]_vars

\* Every admitted, installing or restarting job gets on: it is installed,
\* activated, cancelled or failed, also when its worker is killed on the way
\* (and no write of the journal or the environment fails).
JobSettles ==
  [](ioerrs = 0) => (journal.state \in Resumable ~> journal.state \notin Resumable)

\* Every activation ends: the trial is confirmed or falls back and the
\* pending job is cleared, unless the administrator restarts without end or
\* a killed program or a failed command leaves the trial to him.
TrialEnds ==
  (<>[][~AdminReboot]_vars) /\ [](crashes = 0 /\ ioerrs = 0) => (env.pending # 0 ~> env.pending = 0)

-----------------------------------------------------------------------------
(* What the documentation says and the code does not do (violation runs).  *)

\* "until installing starts": a cancel request that was accepted while the
\* job was queued, downloading or verifying keeps it from installing.
CancelHonoured ==
  cancel # 0 /\ cancel = journal.id => journal.state \in Working \cup {"cancelled", "failed"}

\* "Every step ... is safe to repeat", "Idempotent from any phase": the
\* coordinator never refuses the trial it was started for.
NotRefused == At("confirm", "c_refused") => ~IsTrialOf(env, JobOf("confirm").id, slot)

\* "startup completes a committed-but-unfinalized promotion": without a
\* failing command (MaxIOErrors = 0) the coordinator does not give up.
ConfirmCompletes == ~At("confirm", "c_failed")

\* "RAUC marked the target bad before writing": RAUC, which picks the slot by
\* what is booted, writes the slot that the job chose when it was admitted.
WritesTarget ==
  rauc.op = "writing" /\ journal.state = "installing" => Other(slot) = journal.tgt

\* "The floor is not raised" by a job that was rolled back.
RolledBackNotFloored == journal.state = "rolled_back" => env.floor < journal.seq

\* "the guard always reflects the journal": a finished job leaves it idle.
GuardReleased ==
  Settled /\ journal.state \in Terminal \cup {"none"} => guard = "idle"

\* "Make the journal and guard agree with the environment": no job is shown
\* as trying once the environment has none pending.
JournalAgrees == Settled /\ env.pending = 0 => journal.state # "trying"

\* A worker "that was just starting still sees" its cancel request: the
\* journal never goes back from a newer job to an older one.
JournalForward == [][journal'.id = 0 \/ journal'.id >= journal.id]_vars

=============================================================================
